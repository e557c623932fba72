# Alice chat: specifications of the programs and their libraries

This directory models the *Alice v.08* chat (the C sources, the Electron
application and the Python form under `src/`): the server's channels, the queue
of tasks and the poller that run them, the concurrent vector, the hash table and
the allocator they are built on; the encrypted session between proxy and server;
the end-to-end protocols between two proxies; the chat's adapter and page; and
the command-line tool with its form. Paths below are relative to `src/`.

- [1. The system](#1-the-system)
- [2. The modules](#2-the-modules)
- [3. The runs](#3-the-runs)
- [4. The proofs](#4-the-proofs)
- [5. Findings](#5-findings)
- [6. What is not modelled, and the plan](#6-what-is-not-modelled-and-the-plan)

## 1. The system

A chat **server** (`app/server`) accepts TCP connections. Each connection is
shaken hands with (`lib/sprot`), asked for a channel number, and donated to the
channel of that number. A channel broadcasts what each of its clients sends to
the others, and keeps the messages marked "to be logged" for eight days for
those who join later. A **proxy** (`app/proxy`) stands between the server and a
user interface (`app/ElectronChat`), and encrypts end to end on top of the
connection's own encryption. **cTool** makes keys and encrypts files. All of it
rests on the libraries under `lib/`.

The asserts of `lib/macros` stay enabled in the built programs: a failing one
ends the program.

### 1.1 Components

| component | state | operations | interacts with |
|---|---|---|---|
| channel task, `app/server/channel.h` | the clients, the log, an id ticker, the pipe of clients donated, the descriptors waited for | `channelCB`: onboard, read, send, prune, wait or die | is run by a worker of the work queue; gets clients through its pipe; sends through each client's tunnel; removes itself through the channel table |
| channel table, `app/server/table.h` | a hash table from channel number to channel, under `tableMtx` | `tableDonate` / `giveChannelClient`, `killChannel` | called by the tasks of connections (donate) and of channels (kill), on any worker |
| connections, `app/server/client.h`, `lis.h` | per connection the state of its handshake | `clientDonate`, `clientTaskCB`, `lisCB` | tasks of the work queue; end in `tableDonate` |
| work queue, `lib/workQ` | a shared stack of tasks, one worker thread per processor | `WorkQPush`, `WorkQPoll`, `WorkQStop`, `WorkQDe`, `qRunner` | the poller hands it tasks through `refaceCB`; its workers hand tasks back through `WorkQPoll` |
| poller, `lib/poller` | a pipe of new tasks, arrays of trackers and descriptors, `done` | `PollerPush`, `PollerLoop`, `PollerStop`, `PollerDe` | the main thread runs the loop, every thread may push, a signal handler may stop |
| concurrent vector, `lib/cvec` | a vector, a mutex, a condition, `done` | `Push`, `Pop`, `Stop` | the work queue's stack |
| hash table, `lib/table` | slots EMPTY, FULL or HOLD, the hash's parameters, a count | `Push`, `At`, `Rm`, `Clear` | channel table, `lib/conf` |
| vector, `lib/vec` | a growable array | `Push`, `Rm`, ... | everything; the channel's clients and log |
| tunnel, `lib/tunnel`, over `lib/sprot`, over `lib/net` | place in the message being sent and received, one encrypted chunk each way; keys that ratchet with every chunk | `SendP`, `RecvP`, the two handshakes, sends and receives in parts | channel task, connections, proxy |
| `lib/rprot`, `lib/oprot` | keys and their status; places in a pad file | encrypt, finish, decrypt, load and save | proxy, cTool |
| proxy, `app/proxy` | login, one shared buffer, two sockets | `taskCB`: both directions in turn | poller without the work queue |
| Electron chat, `app/ElectronChat` | the adapter: part of a length, part of a message; the page: a timer for each name listed | `proxySendPacket`, `proxyRecvPacket`; `login`, `onmessage`, heartbeats | the page over a web socket, the proxy over TCP |
| cTool, `app/cTool`, and its form, `app/cToolGui` | files: keys, input, output, configuration | one command a run: generate, encrypt, decrypt, encode, decode, hash, verify | the form writes the files, runs the tool and reads what it left |
| allocator, `lib/alloc` | an arena of buckets per thread and a global one under a mutex | get, give back, a thread's end | containers that ask for it |
| base64, conf, file | none | encode, decode; parse, look up; load, save | cTool, all configurations |
| pipe, thread, fwatch, array, string, arc, timer, nacl, rng | sequential helpers | | |

### 1.2 What is hard about it

- **Interleaving.** A task travels poller → stack → worker → pipe → poller. Five
  places keep pointers to it, each read by another thread; only the queue's
  vector and the pipe's write end have a mutex.
- **Atomicity.** A channel decides it is empty before it takes `tableMtx`; the
  table inserts an entry before the channel exists; `PollerStop` and `CVec`'s
  `Stop` take no mutex at all because a signal handler calls them.
- **Resumption.** All sockets and pipes are non-blocking. A send that would
  block must later be resumed with the very same message, while the log it is
  in is appended to and pruned.
- **Limits.** Pipes opened with `O_DIRECT` hold a fixed number of packets; a
  full one makes a push fail, after ownership of the task has moved.
- **Failure half way.** Every allocation may fail, and each operation has a
  `FAILED` path that must give back exactly what it took.
- **Two ends in step.** Session and end-to-end keys move on at both ends, by
  chunks and messages that cross on the way, are cut anywhere, replayed after a
  restart or never arrive.
- **Files.** A key that moved on must be on its file before it can be used
  again; the tool writes the output first, and may be killed between.
- **Time.** A name is listed for 45 seconds and renewed every 23: less than two
  heartbeats, with the network's delay in between.
- **Arithmetic.** The hash table's count drifts from the number of entries and
  is an unsigned word; the log's places are unsigned and shifted at each prune.

`PROJECT.json` lists the hazards one by one, each at its line.

### 1.3 What makes each component correct

- *Channel*: every member gets the messages retained when it joined and all
  later ones of the others, once each, in order; a logged message stays its
  time; a sleeping channel waits for room wherever it has a backlog. (The first
  two only until `pruneLog` removes something in front of a client that is
  behind: section 5.)
- *Channel table*: one live channel per number; a freed channel is used
  nowhere; a client is in one place; no worker waits for ever.
- *Work queue and poller*: a task has one owner, or has been destroyed once; a
  reported event gets its task run; after a stop everybody gets out.
- *Concurrent vector*: a linearizable stack with no lost wakeup.
- *Hash table*: a map, through collisions, tombstones and growth; but for the
  two ways in which `At` loses an entry (section 5).
- *Session*: each way a queue of messages, whole, once and in order; no key
  encrypts two chunks; what is sent arrives while the connection lasts.
- *End-to-end protocols*: nothing is lost or shown twice but by the faults they
  are not made for; no pad is used twice; every exchange mixes in a new secret.
- *Tool*: what the form shows is this run's; what is encrypted opens; no key or
  pad seals two texts whatever fails; what is encoded comes back.
- *Allocator*: a pool of blocks, each in one place; malloc waits for nobody but
  the kernel.
- *Chat*: what is shown is what was typed; the list follows who is there.

## 2. The modules

```
  Broadcast  <---- refined by ---- ChannelRefinement -> Channel -> Vec
  CloseableStack <- refined by --- CVecRefinement ----> CVec
        ^ (its closed/open stack is WorkQ's queue)
  WorkQ                     ChannelTable
  KeyMap     <---- refined by ---- HashTable
  (KeyMap's map is ChannelTable's table)
  Duplex     <---- refined by ---- Session
  BlockPool  <---- refined by ---- Alloc
  EndToEnd -> Rprot, Oprot, Vec     CTool -> Base64, Conf, Rprot, Oprot
  Chat -> Adapter

  VecProofs -> Vec              ChannelProofs -> Channel, VecProofs
  CVecProofs -> CVecRefinement  ChannelTableProofs -> ChannelTable
  WorkQProofs -> WorkQ          SessionProofs -> Session
  AllocProofs -> Alloc          EndToEndProofs -> EndToEnd, VecProofs
  MC* -> the module they instantiate
```

The composition is by abstraction: `WorkQ` uses the stack that `CVec` is shown
(and proved) to implement. `ChannelTable` uses the map that `HashTable`
implements as long as `At` overwrites nothing and its table has not grown under
`At`; that it may lose an entry then is a step of `ChannelTable` (`AtLoses`),
after which nothing is followed. The sends of `Channel` and of `EndToEnd` are
those of the `Duplex` that `Session` implements; the relay of `EndToEnd` and the
room of `Chat` keep messages for newcomers as `Broadcast` does, which is what
the channel does until its log is torn (2.1). `EndToEnd` and `CTool`
are two programs over the same `Rprot` and `Oprot`.

Next to a definition stands the *mutant* of it: the same operator with a
plausible bug, which a run's property is known to detect. Mutants take no part
in `Next`. A module's type invariant is a conjunct of its first invariant
(`OneOwner`, `OneEntry`, `OneChannel`, `KeysInStep`, `RatchetsInStep`,
`OpensInOrder`, `OnePlace`, `ShownAsTyped`); those of `Channel` and `CVec` are
theorems of their own, and the inductive invariants of section 4 have theirs.

### 2.1 Channel (`app/server/channel.h`)

| variable | in the code |
|---|---|
| `pip` | the pipe `chan->pip`, whose packets are client pointers |
| `clients`, `log`, `idTicker` | `chan->clients`, `chan->log`, `chan->idTicker` |
| `state`, `id`, `logPlace` | the fields of `Client`, plus `NONE` (not donated yet) and `FREED` |
| `sndMsg` | the message a client's tunnel stopped in (`tunnel->sndPlace # 0`) |
| `trigs` | the events `resetChannelTriggers` asked for, per client |
| `pc`, `cur` | the step of `channelCB` and the client its loop is at |
| `freed` | messages whose data has been freed |
| `torn` | history: `pruneLog` has removed something in front of a client that was behind |
| `inbox`, `open`, `room`, `got`, `posted`, `now` | the peers, the kernel's buffers and the clock |

Actions: `NewClient` / `NewClientFails` / `NewClientsDone` (handleNewClients),
`ReadMsg` / `ReadFails` / `ReadHangUp` / `ReadNothing` / `ReadsDone`
(handleClientReads with logMsg), `SkipOwn` / `SendOk` / `SendBlocks` /
`SendFails` / `CaughtUp` / `SendsDone` (handleClientSends), `PruneLog`,
`Repoll`, `GiveUp`, `KillChannel`; around them `StartCB` and `SpuriousWake` (the
poller), `Donate` (the table), and the environment `PeerSend`, `PeerHangUp`,
`PeerDrain`, `Tick`. A step is one iteration of one of the loops, so that peers
and donations move between any two. A message is its number, its sender, its
kind (to be logged, transient, empty) and its time; an iterator over the
clients is an index.

`Vec` translates the one vector operation that is more than a sequence
operator: `NAME##Rm`, which compacts in place and shortens the vector without
moving what lies behind `finish`. `pruneLog` calls it with the part of the log
that every client has had. When that is not the whole log, freed entries stay
and the last ones are cut off: `torn` remembers it. The model goes on after it
as the code does, with what is then in the slots; the properties that are lost
with it say `torn` (`LoggedStays`, `EventuallyDelivered`, the refinement), the
others (`PlacesInLog`, `BacklogArmed`, `FreedInTime`) hold on. That the data of
a freed entry is read is not modelled: only that it is sent.

`Broadcast` is the promise: per client the queue of what it is due.
`ChannelRefinement` maps it: due are the messages of others from the client's
place in the log on.

### 2.2 CVec (`lib/cvec`)

One action per statement of `Push`, `Pop` and `Stop` between which another
thread can run: `Lock`, `Check` (the test of `done` and of the size), `Store`,
`Sleep` (PCondWait gives the mutex back), `Take`, `PassOn`, `Unlock`, `Return`;
`StopWrite`, `StopSignal`. `Signal` wakes at most one sleeper, of its choice,
and does nothing when nobody sleeps; `WakeUp` is the spurious wakeup POSIX
allows. Between two Pops a consumer runs its task: `Return` comes back for more,
and `Quit` is `qRunner`'s `goto DONE` (`lib/workQ/imp.h:69,71`), after which it
never calls `Pop` again. A consumer may be a stopper too: its task failed, it
calls `Stop` and quits. `Stranded` is what can come of it: one consumer asleep,
all others gone without a last Pop. `fresh` makes each pushed value be pushed once, so that handing it out
twice can be seen.

`CloseableStack` is a stack whose operations take effect between their call and
their return; `CVecRefinement` lets a call commit at its reading of `done`.

### 2.3 WorkQ (`lib/workQ` with `lib/poller`)

| variable | in the code |
|---|---|
| `tasks`, `tdone` | the queue's stack and its `done` |
| `pip`, `wopen`, `pipetex` | the poller's pipe, whether its write end is open, the mutex of its writers |
| `pdone` | `poller->done` |
| `trackers`, `rev`, `at` | `poller->trackers`, the tasks with revents, the place of the scan |
| `loop` | where PollerLoop, then WorkQDe, is |
| `pc`, `held`, `arg` | per worker: its statement, the task it runs, the task it is pushing |
| `face` | whether a task's vptr is its own or the poller's `reface` |
| `born`, `destroyed` | tasks that were made, and how many times their `de` was called |
| `ready`, `wakes` | descriptors with an event; the bound on things that happen |

The worker's actions are `Pop`, `Doze` and `FallAsleep` (it has read `done`, and
only then sleeps), `WakeUp` (POSIX' spurious one), `PopNothing` (it passes the
stop's signal on and leaves), `Finish`, `Fail`, `Repoll`, `Requeue`, `Spawn`
(clientDonate), then PollerPush's `PushLock`, `PushCheck`, `PushWrite`,
`PushFull`, `PollFails`, which leaves without a Pop. A stopper's are `StopSwap`,
`StopWrite`, `StopClose`, `StopTasks`, `StopSignal` (the last two are
CTaskVecStop's, without the mutex), and any worker may become one (`Fail`): it
too leaves without a Pop. Signals wake one sleeper (`PCondSignal`), or nobody.
`Stranded` is as in `CVec`. The loop's are
`Poll`, `Timeout`, `DrainCheck`, `DrainTask`, `DrainStop`, `DrainEmpty`,
`DrainFails`, `ScanIdle`, `ScanFires`, `ScanDone`, `LoopFails`, and then
`WorkQDe`. The `revents` of a descriptor that was just added were never written
by poll(2): `DrainTask` chooses what they are.

### 2.4 HashTable (`lib/table`)

`slots` are the three arrays as one, `hash` is what the random parameters `a`
and `b` make of each key (any function: it is chosen anew at each growth),
`count` is an unsigned word modulo `Word`. `PushPlace` and `AtPlace` are the two
probing loops; `Grown` is what `Grow` leaves. The actions are the calls, which
are sequential code: `Push`, `PushReplace`, `AtFound`, `AtInserts`, `Rm`,
`Clear`. `program` is who uses the table, and fixes the calls that are made. The
instance has those of the repository (`Users` in `MCHashTable`): `lib/conf`,
which pushes, replaces and clears; `lib/table`'s test, which pushes what is
absent and removes; and the server, which inserts through `At` and removes
(`app/server/table.h:27,35`), in a table with and without room to grow. `KeyMap`
is the map. `AtOverwrites` is the step in which `At` comes full circle over
tombstones and inserts over a live entry; `moved` remembers that the table grew
under an `At`, which then put its entry in a place from before.

### 2.5 ChannelTable (`app/server/table.h`, with `channel.h`'s ends)

`table` maps a number to a channel, to `None` (no entry) or to `Null` (an entry
with a null pointer). Per worker: `pc`, the `client` it gives away, the `chan`
it makes or runs. Per channel: `life`, `idOf`, `pip`, `clients`, and whether it
is `polled`. A giver goes through `GiveLock`, `AtFound` or `AtInserts`,
`ChannelCreate`, `PollNew`, `SetEntry`, `Donate` under `tableMtx`, with the
failing variants; a run of a channel is `StartCB`, `NewClient` or
`NewClientFails` (a client that cannot be taken on board takes the whole channel
with it), `NewClientsDone`, `Serve` (reads, sends and pruning, seen from here:
some clients go, and the log may be empty), then `Repoll`, `RepollFails` or
`KillChannel`. Once a client would be donated to a null channel the program has
crashed and stops (`crashed`). `AtLoses` is the `At` of section 2.4 that misses
or overwrites an entry; after it nothing is followed (`astray`). An error of
`PipeRead` in `handleNewClients` (`channel.h:22`), whose `FAILED` destroys a
client that was never set or is already on board, is not modelled.

### 2.6 Session (`lib/tunnel`, `lib/sprot`, `lib/net`, `app/proxy`, `app/server/client.h`)

One connection. A message is a sequence of *units*, the first the size of the
length in front of a message; a chunk carries `Chunk` of them encrypted, and
crosses `net` in `Parts` pieces, any number of them per system call.

| variable | in the code |
|---|---|
| `net`, `up` | the kernel's buffers each way, whether the connection stands |
| `phase`, `at` | the state of `performHandshake` / `sendLogin` / `clientTaskCB`; the loop of `taskCB` the proxy is in |
| `inKey`, `outKey` | `SprotState` |
| `src`, `sndPlace`, `sndBuff`, `sndAt` | the message a `SendP` has not finished, the tunnel's place, its chunk, the socket's place in that |
| `rcvBuff`, `rcvPlace`, `dst` | the chunk being received, the place in the message and the message (the proxy's is `ws2`) |
| `sent`, `got`, `used`, `fault` | history |

Handshake: `ClientStart`, `HelloSent` or `HelloNotSent` (its result is ignored,
`app/proxy/server.h:21`), `HelloReceived`, `AnswerSent`, `AnswerReceived`,
`LoginSent`, `LoginReceived`. Tunnel: `SendP`, `RecvP`, with `FirstFill`,
`PRefill`, `parseRecvLen`, `parseRecv`; `ServerSend` begins a message of the
log, `ServerSendAgain` calls once more with the one that blocked;
`readFromClientCB` takes one from the chat client, `ClientIdle` and `ServerIdle`
leave the loops. `TCPSockSendPart` and `TCPSockRecvPart` move part of a chunk;
`parseBlockType` decides whether the call then comes back (NONE), does so only
if nothing has moved (POLL) or never (FULL). `Cut`, `TimesOut` and `Closed` break
the connection, `GiveUp` and `Die` are the failure paths. `Duplex` is the
promise: two queues.

### 2.7 EndToEnd, with Rprot and Oprot (`lib/rprot`, `lib/oprot`, `app/proxy/task.h`)

`Rprot` and `Oprot` are operators from state to state, one per function of the
two libraries. A key is the sequence of what was hashed into it; a secret is
fresh or zero. `EndToEnd` has two users behind proxies that use one protocol or
both: `rprot` and `oprot` are the states in memory, `file` what RprotDe last
wrote, `due` what was relayed and not read, `kept` what the server keeps. The
actions are a whole `readFromClientCB` (encrypt, send, finish), a whole
`readFromServerCB` (decrypt or discard), `Restart` (deInitData saves, and the
newcomer is sent all that is kept, its own messages too; what was not to be
logged may have been pruned, with `Vec`'s removal, and is then gone for good:
`Rejoin`), `Crash` (nothing is saved, but the pads have been cut) and
`SendFails` (the proxy ends with the state half way, the message delivered or
not).

### 2.8 CTool, with Base64 and Conf (`app/cTool`, `app/cToolGui`, `lib/base64`, `lib/conf`, `lib/file`)

Two machines. `file`, `keyFile`, `ratchet` and `pads` are the disk; `pt` and
`ct` the panes of the form; `proc` the tool that runs and how far it is: `conf`
(`ConfInit` parses what the form or the user wrote, character by character),
`load` (`main` and the command's function), `trunc` and `write` (fileSave, or a
key's file), `clean` (cleanupStatics writes the ratchet back), `exit`. Between
any two of these it may be `Killed`; `SaveFails`, `KeyFails` and `cleanupFails`
are writes that fail half way. The form's actions are `keyGen`,
`encryptAttempt`, `decryptAttempt` up to the tool's start, `Show` after its end
and `Closed`; the users' are `Copy`, `Edit`, `Command` (a configuration of their
own) and `Prompt`. What is encrypted is a handle of a few bytes; what is
encoded is encoded by the real alphabet.

### 2.9 Alloc (`lib/alloc/jcAllocImp*.h`)

`local` and `global` are the buckets, as sets; `ready` is how much of the global
arena has been built, `arena` whether a thread's own is, `live` how often the
program holds each block. A thread builds its arena (`ArenaInit`) and takes from
its bucket (`LocalGet`), or finds it empty (`LocalEmpty`) and goes through
`TryLock`, `GlobalArenaInit`, `GlobalGet`, `GlobalGot`, then `LocalMake` (a page
from the kernel) and `LocalCut` (all of its blocks but the first into the
bucket), or `MakeFails`; it frees by `RetNode`, and when its bucket is full by
`RetLock`, `GlobalRet` (publishes, and lets the mutex go) and `RetClear`; it
ends by `ExitLock` and `GlobalRetAll`, or `ExitEmpty`. `BlockPool` is the
promise.

What the arenas need for their own arrays is asked for in a loop until it is
there (`jcAllocImpImpGlobalArena.h:31-33,46-49,63-66,79-85`,
`LocalArena.h:49-52,65-68`). `Refused` is one more turn of any of these loops:
the thread sleeps and stays where it is, with the mutex if it has it; the kernel
may refuse for ever. `ArenaLost` is the turn that goes wrong: a thread's arena
is set inside the loop that builds it, so one that fails half way is freed and
stays set. What a program does with a freed arena is anything, and is not
followed (`Dangling`). `PLocalInit`'s own retry (`LocalArena.h:27-33`), which
runs once and before any arena is there, is not modelled.

### 2.10 Chat, with Adapter (`app/ElectronChat/ElectronicAlice01/src`)

`Adapter` is the framing: a stream is a sequence of pieces, a length is
`Prefix` of them. `nextPiece` is one turn of proxyRecvPacket's loops, over
`offset`, `size` and `data` (`incPacketSizeOffset`, `incPacketSize`,
`incPacketData`). `TCPRecvP` is the proxy's end of it. In `Chat`, per user, `ws`
is the web socket to the adapter, `toProxy` and `fromProxy` the streams, `inc`
the adapter's state, `tracker` the page's `userTrackerObject` with the time each
timer has left, `beatIn` the interval's; `log` is what the server keeps. Actions:
`login`, `onkeypress`, `keepHeartBeating`, `deleteUserTrackerName` and `Data`
(onmessage for whatever one read brings) of the page; `connect` and `Adapt` of
the adapter; `Join`, `Relay`, `ProxyFails` of proxy and server; `Close`; `Tick`.
A character outside ASCII adds a piece to the bytes of a message and none to the
length sent in front of it (`msg.length`, index.js:105).

## 3. The runs

Twelve configurations: ten must pass, two must fail and are the findings of
section 5. Deadlock is checked in `chat`, where time always goes on; elsewhere
the system may rightly stop: the bounded messages, values, events or runs are
used up, the queue, channel or connection is over, or what follows is not
followed (`astray`, `Dangling`).

| run | instance | question |
|---|---|---|
| `channel` | 2 clients, 2 messages of all 3 kinds, room for 1 in a socket, clock 0..1, failing allocations; fair | no place passes the log, backlog, nothing freed before its time; and until the log is torn, retention, broadcast with blocking, delivery |
| `channel_prune` | the same without failures | *fails*: ResumesSameMessage |
| `cvec_work` | 2 producers, 2 consumers that may quit, a stopper, 2 values, failing pushes; fair | no lost wakeup, no double hand-out, linearizability, nobody and nothing forgotten unless `Stranded` |
| `workq` | 2 workers, 2 tasks, SIGINT, pipe of 2, 2 wakes, failing allocations and callbacks; fair | one owner with the right face, nothing forgotten or freed twice, stop ends unless `Stranded`, events are run |
| `table_map` | 4 keys, 2 values, capacity 1 to 4; four programs | one entry, searches end, map, but for `AtOverwrites` and a table that grew under `At` |
| `chan_work` | 2 workers, 3 clients, 2 numbers, 3 channels, pipe of 1, failures; fair | one channel and nothing freed in use until `At` loses an entry, one place, givers return |
| `session` | 2 messages each way, proxy's of 1 to 3 chunks, 2 pieces a chunk, room for 3 in the network, cuts and time-outs; fair | handshake and tunnel keep the keys in step, no key used twice, two queues, arrival |
| `session_ws2` | the server's messages of 2 chunks, no faults | *fails*: DeliversAsSent |
| `e2e` | 2 users, 4 messages, 1 restart, crash or failed send, pad of 3; ratchet, pad or both | nothing lost or shown twice, ratchets in step, no pad used twice, every exchange mixes |
| `tool` | 2 users, 5 runs of the tool, 1 fault, pad of 2; 4 protocols and the commands without a key | own result shown, opens in order, keys used once, decodes what was encoded |
| `alloc` | 2 threads, 2 sizes, pages of 2 and 1 blocks, buckets full at 3 and 1, 2 pages, a kernel that refuses; fair | one place, pool, malloc returns unless it is refused itself |
| `chat` | 2 users, 1 login each, 1 message, a length of 2 pieces, heartbeat of 3 ticks, listed for 5 | shown as typed and nothing missed, stays listed, goes unlisted |

### 3.1 Bounds

- *Channel.* `MaxMsgs`, `SockCap`, `PipeCap`, `MaxTime` and `Duration` bound
  messages, socket, pipe, clock and retention. Two clients are enough for a
  message to have a sender and a receiver at different places in the log, for
  one to lag behind the other and for one to leave while the other stays. With
  room for one message a second send blocks, and with two messages one can be
  pruned in front of a client that is blocked in the other: the least instance
  in which the log is torn. `channel_prune` is this instance without the
  failures.
- *CVec.* Two consumers are needed for a signal to go to the wrong one, two
  values for the stack to have an order.
- *WorkQ.* `MaxWakes` bounds events, timeouts, spurious readiness, spurious
  wake-ups and requeues together; TLC checked three of them too, in three
  minutes. It also bounds starvation: the stack is last-in-first-out, and a
  task that is pushed again and again would keep an older one waiting for ever,
  in the code as in the model. `PipeCap` stands for the 16 packets an
  `O_DIRECT` pipe has on Linux; it is as large as the number of tasks, so that
  only the byte of the stop can fill it (section 5 says what a full pipe does
  to a task). All tasks have a `de`; a listener has none, and is lost when the
  queue cannot grow.
- *HashTable.* Capacity 1, 2 and 4 with four keys: every pattern of collision,
  wrap-around, tombstone run and two growths. `Word` is 32, more than twice the
  capacity plus one, as the code's word always is; removals after a growth take
  the count below zero, and it wraps. The server's program runs twice: with four
  slots, no room to grow and four keys, so that entries and tombstones fill the
  row, and with two slots that grow to four.
- *ChannelTable.* Three channels let a number get a second channel while the
  first is being destroyed; a pipe of one packet is full after one client.
- *Session.* Lengths in units of the size of the length's own field. With
  chunks of two units, the proxy's messages need one chunk that is exactly full
  (1), two of which the second is partial (2) and three (4); the server's fit in
  one, because a longer one meets the shared buffer (`session_ws2`). A length of
  0 is left out: with it TLC finds `OneChunkPerKey` violated (section 5). Two
  pieces a chunk and room for three in the network let a chunk be cut, two
  chunks touch, and both ends block on each other.
- *EndToEnd.* Four messages are two turns of the conversation, enough for two
  epochs of the ratchet, and for the flags of one to cross with the messages of
  the other; a pad of three runs out. One fault, a restart, a crash or a failed
  send of either side; TLC checked two of them over three messages of the
  ratchet, and all but `EveryExchangeMixes` is proved for any number (section 4).
- *CTool.* Five runs are two keys, two ciphertexts and an opening, or a file
  encoded twice and decoded; the texts end in a partial group of base64.
- *Alloc.* Two pages let one thread fill its bucket while the other takes from
  the global arena; a bucket of one block is full at once. How often the kernel
  refuses is not bounded. Threads end and start
  again without bound, and free without bound.
- *Chat.* The real numbers are 23 and 45 seconds; what matters is that a name
  outlives one heartbeat but not two (3 and 5). A tick waits until the streams
  are read, but for one page at a time that may be behind: that a message takes
  less than a tick is an assumption, that a page's timers drift against the
  others' is not. One login each and one message keep the run at 880 000 states:
  every order of login, hello, heartbeat, message and closing of the two.

Symmetry (`table_map`, `e2e`, `chat`) is used only without liveness.

### 3.2 Fairness

Liveness assumes of the code only that threads run: weak fairness of the
worker's, the poller's, the stopper's next step, because callbacks return and
no lock is held while waiting for a peer. `CVec` assumes strong fairness of
`Lock`: a mutex that is free again and again is got in the end (Linux' futexes
are not strictly fair, but a waiter is not overtaken for ever). Consumers come
back for more, or quit, because `qRunner` is a loop. `channel` also assumes that a
peer that stays connected reads (`PeerDrain`). `session` assumes that each end
sends and receives when its socket is ready, that a time-out is noticed
(`GiveUp`), and that the two loops of `taskCB` and of the channel turn: `poll()`
reports both sockets. `alloc` has only what a thread does inside its own call of
`malloc`, and only while it is not refused memory (`t \notin refused`): a thread
that holds the mutex may be preempted, or refused, for ever, which is the point
of `MallocReturns`, and one that frees or ends need never get on. Nothing is
assumed of the kernel: it may refuse for ever, and a call that is refused again
and again need not return. Nothing else is fair: nobody has to send, push, hang
up, stop, or fail. `e2e`, `tool` and `chat` are safety only; their clocks and
counts turn "in the end" into "by then" (`GoneUnlisted`).

## 4. The proofs

The theorems hold for every value of the constants that the modules' named
assumptions allow: any number of clients, messages, threads, values, any
capacity.

| theorem | module | property |
|---|---|---|
| `Typed` | ChannelProofs | `TypeOK` |
| `PlacesStayInLog` | ChannelProofs | `PlacesInLog` |
| `BacklogStaysArmed` | ChannelProofs | `BacklogArmed` |
| `FreesInTime` | ChannelProofs | `FreedInTime` |
| `LoggedMessagesStay` | ChannelProofs | `LoggedStays`, which holds until the log is torn |
| `VecRmWhole` | VecProofs | removal over a whole vector keeps what was not selected, in order |
| `Typed`, `MutualExclusion`, `NoLostWakeup`, `NoDoubleHandOut` | CVecProofs | `TypeOK`, `Exclusive`, `WorkIsSeen`, `HandedOnce` |
| `Refinement` | CVecProofs | `ImplementsStack` |
| `OneChannelPerId` | ChannelTableProofs | `OneChannel`, which holds until `At` has lost an entry |
| `ClientsInOnePlace` | ChannelTableProofs | `OnePlace` |
| `NoTaskInTwoHands` | WorkQProofs | `OneOwner` |
| `NoKeyTwice` | SessionProofs | `OneChunkPerKey` |
| `KeysMeet` | SessionProofs | `SameKeys`, a conjunct of `KeysInStep` |
| `KeysStayInStep`, `DuplexImplemented` | SessionProofs | `KeysInStep`, `ImplementsDuplex`, if the server's messages fit in one chunk |
| `UndisturbedKeys`, `UndisturbedDuplex`, `UndisturbedDelivery` | SessionProofs | the same and `DeliversAsSent`, for messages of any length, while `ws2` is `Undisturbed` |
| `PadNeverReused` | EndToEndProofs | `PadUsedOnce` |
| `NothingShownAgain` | EndToEndProofs | `ShownOnce`, a conjunct of `EachShownOnce` |
| `EachIsShownOnce` | EndToEndProofs | `EachShownOnce` |
| `RatchetsStayInStep` | EndToEndProofs | `RatchetsInStep` |
| `BlocksInOnePlace` | AllocProofs | `OnePlace` |
| `AllocImplementsPool` | AllocProofs | `ImplementsPool` |

`Channel`'s and `CVec`'s `TypeOK` and `Exclusive` are in no run: their theorems
say more. Each module's `IInv` was checked by TLC, over the instances of section
3 or smaller ones, before it was proved; `Invariance` is the theorem that it is
an invariant. Cardinalities in a property (`OneOwner`, `OnePlace`) become, in an
`IInv`, statements about two places at a time, which a step keeps or breaks one
by one, and are counted in the last theorem only.

**Channel.** `IInv` is `TypeOK`, `PlacesInLog`, `BacklogArmed` and two
strengthenings. `States`: who is in the vector is on board, blocked or, between
the step that finds it and the one that removes it, dead; nobody is dead while
the channel sleeps, and nobody blocked before the sends. `BacklogKnown`: from
the moment the send loop has passed a client, its place is the log's end or its
state is SNDBLK, until `resetChannelTriggers` turns that state into `OUT`.
Without it `BacklogArmed`, which speaks of the moment of sleeping only, is not
inductive. `PlacesInLog` needs that `pruneLog` takes away from each place
exactly what it took out in front of it, hence the cardinality lemmas of
`VecProofs` (`VecRmShortens`). These three results hold whatever `NAME##Rm`
leaves *in* the slots, so they also hold where pruning meets a client that is
behind; and so does `FreesInTime`: whatever the slots hold, what the two
predicates select, and nothing else, is freed (`PruneLogKeeps`).

That what is to be logged *stays in the log* does not hold there: the last
entries are cut off though nobody selected them. `LoggedMessagesStay` is the
property up to that point. It needs `Numbers`, that no message is twice in the
log and on the way to it, which is itself broken by the first removal that tears
the log, and `TornStays`, that nothing repairs it. That a blocked send finds its
message again is false of the code, and no theorem says it.

**CVec.** `LockInv` (types, which role may be at which statement, `Exclusive`)
carries everything else: only the holder of the mutex changes the vector.
`HandedOnce` needs that the values in hand, in the vector and still fresh are
disjoint, which it says itself. `WorkIsSeen` counts: while a consumer sleeps,
there are at most as many elements as consumers on their way to them and
producers that have yet to signal. That some consumer is on its way would not do,
since it may quit after the first. `LockInv` is enough for it, since a producer
signals while it still holds the mutex. The refinement shows that a
step is a stutter or one step of the stack, the call's step at its reading of
`done`; `OneCommits` is the lemma that no two calls are committed at once.

**ChannelTable.** `IInv` has two halves. `ChanInv` is the types and, as long as
`At` has lost no entry (`astray`), `Sound`, which says what a worker knows of
the entry it has looked up for as long as it holds `tableMtx` (`WorkerKnows`),
that an entry's channel is live and of its number (`TableKnows`), and that a
channel is polled or run by one worker (`OneRunner`) - but for its maker, who
has polled it before it is in the table. `Placed` says where the clients are:
pipes, channels and givers agree with `place`, each client in one. The second
half needs the first: a killed channel takes its clients with it, and must be
nobody else's. A step is either one in which the table is a map (`MapStep`), or
`AtLoses`, after which `Sound` is given up and nothing more happens; where the
clients are is told to the end. Assumed is a pipe that holds something and that
`None` and `Null` are nobody.

**WorkQ.** `Duties` says at which statement a worker has a task, `OneHand` that
no task is twice in a sequence, nor in two, nor in two hands, `Gone` that a
destroyed task is nowhere, `Faces` that a task on its way to the poller has the
poller's face. `Gone` must also say that a destroyed task was born: `Spawn`
makes a task that was never there, and without it this one might have been
destroyed before. The bounds on events, the pipe's size and allocation failures
are arbitrary, also a pipe that is full, where a task is destroyed twice
(section 5): that is `OwnedOrDestroyed`, which holds in the run only, since
neither a full pipe nor a listener without a `de` keeps it.

**Session.** The keys are the first thing: `KeysUsed` gives the key of a party's
i-th chunk by i alone, and `KeysDiffer` that these are all different. `Stages`
says for each phase how many chunks were made and which key is next, `Answers`
that what opens with the client's ephemeral key is the server's answer, so that
the keys in it are the server's. That is enough for `NoKeyTwice`, whatever
breaks. `KeysMeet` also needs `Counts`: while nothing goes wrong, the pieces on
the way (in the socket, in the network, in the receiver's buffer) are `Parts`
times the chunks that were encrypted and not opened; with no piece on the way
both have ratcheted equally often. The hypothesis `NoEmptyMessage` says that the
server sends no message of length 0; with one the theorem is false, as section 5
tells, and TLC finds the trace. `logMsg` keeps a message without its control
byte, the chat's messages are longer than that byte, and each cipher of
`e2eEncrypt` adds to them.

The refinement needs the contents of what is on the way. `Flow` puts the pieces
of one way in a row: received of a chunk that is not complete, in the network,
still to be sent. `Told` says three things of it. `Ordered`: the piece at place
`p` is the one that `p` says, of the chunk after the last opened, and has that
chunk's key, so that what is complete opens. `Chained`: each chunk is the part
of a message (`PartOf`) that follows the part in the chunk before (`After`), the
first the part that the receiver's place asks for. `Joined`: the last ends where
the sender goes on; and no piece is missing while the connection stands.
`Building` says that what is in `dst` is the beginning of the message, `Source`
that what is being sent is the last one given, `Begins` that the chunks of the
handshake are out of the way in the tunnel, `Broken` that only a connection that
broke is given up. `FirstParsed` and `LaterParsed` are what `parseRecvLen` and
`parseRecv` do with such a chunk. A hello that is not sent goes through
`HelloFails`: it takes a broken connection.

All this, `Stream`, is inductive but for one action: `readFromClientCB` writes to
`ws2`. `Undisturbed` says that it finds nothing there. With `[]Undisturbed` as a
hypothesis everything follows for messages of any length, also `DeliversAsSent`,
which `session_ws2` violates: so nothing else violates it. `ShortUndisturbed`
discharges the hypothesis where the server's messages fit in one chunk, as they
do in the run; longer ones can be cut off by the other direction, and then the
properties are false. TLC checked `Stream` on four instances before it was
proved, among them chunks of three units in three pieces, a network of two
pieces, and messages of several chunks each way.

**EndToEnd.** `Types` are the terms the two protocols build. `Relay` says that a
message has one text, whoever it is sent to and however often; `ShownPast` that
a logged message which was shown has been ratcheted past, or its place of the
pad, so that the same text does not open again - until a crash brings the old
keys back; `PadTaken` that the places used are those no longer on the pad. The
two protocols enter through lemmas about each of their functions (what it
returns, that it fails on a text behind its keys), the log's pruning through
`VecProofs`. There are two users: the assumption says so, and the code's peers
are two. These four are `Basis`, which needs nothing else to be inductive.

That no message is lost, and that the keys meet, needs to say where everything
on the way belongs. `Ratchets` does, in any state that only survived faults led
to (restarts, and sends that did not reach the server), for as many messages as
one likes. A key only grows, so a message's `Place` is the length of the key it
was encrypted with. Then: each `inKey` is a part of the peer's `outKey`
(`KeysFollow`), and so is every message's key, which the sender's has since
grown from as the message says (`MessagesFit`); one sender's messages are in the
order of their places (`Ordered`) and none is missing, from where the reader's
key is to where the sender's is (`NoneMissing`, `StillSent`), whatever the
server repeats in front of them; what has been passed was read (`OldSeen`). Why
the next message opens is the other half, `Exchange`: the three status flags of
the two sides and the messages with an offer or an answer on their way are in
one of four states, in which the secret that a user is about to mix in is the
one that the peer holds. A message that is sent or read moves each user's
exchange one step on or leaves it, whichever way the two directions cross; that
a restart sends old messages again changes nothing, as none of them opens.
`Pads` is the same for the one-time pad, where a count takes the place of the
key: the messages due to a user count without a gap from his `inKey` to the
peer's `outKey`, and the place of each on the pad is the rest.

The attempt to prove it corrected the model: a log pruned for one restart could
be whole again at the next, and so a message that was not to be logged came to
its reader when his key had moved past it. The server does not put back what it
removed; `Rejoin` now says so, and nothing is lost after any number of restarts.

**Alloc.** `Room` and `Indexed` say how full a bucket may be and what lies in
it, `Stages` which statement has what in hand, `Locking` who holds the mutex,
`ArenaReady` that nobody pushes to the global arena before it is built - either
somebody with the mutex is about to complete it, or no page was made and no
thread has come further than to ask. `Where` says of each block that exactly one
of the program, a thread and the global arena has it; between `GlobalRet` and
`RetClear` a thread's bucket lists blocks that are not `InHand` any more. The
refinement is a step each: `malloc` and `free` are those of `BlockPool`,
everything else leaves `live` alone.

Only model-checked:

- liveness, and with it what is said "in the end" (`StopEnds`, `Arrives`,
  `EventuallyDelivered`, `MallocReturns`...);
- `Channel`'s refinement of `Broadcast`, which selects from the log by an
  operator that is defined by induction on it;
- `OwnedOrDestroyed` of `WorkQ`, for the reason above;
- `HashTable`: that the probing ends, and what it finds, is an induction;
- `EndToEnd`'s `EveryExchangeMixes`, which counts the secrets in a key by an
  operator that is defined by induction on it;
- `CTool` and `Chat`; `Base64` and `Conf` have recursive operators.

## 5. Findings

Two runs fail, with a trace TLC prints.

`session_ws2`: **the proxy's two directions share one buffer.** When
`TunnelRecvP` (`app/proxy/task.h:74`) would block part way through a message of
the server, `taskCB` goes on with `readFromClientCB`, whose `TCPRecvP` (line 59)
writes the chat client's message and its length into the same `ws2`. The rest of
the server's message is then put behind the wrong part, against the warning of
`lib/net/net.h:50`.

`channel_prune`: **pruning in front of a client that is behind tears the log.**
`pruneLog` (`app/server/channel.h:169,171`) removes messages from the part of the
log every client has had, and lowers each place by their number. `NAME##Rm`
(`lib/vec/imp.h:60-83`) compacts only up to `finish` and shortens the whole
vector by the number removed: what lies behind `finish` stays where it is, the
last entries are cut off, and freed ones keep their slots, inside the log and at
the places the clients now have. In the trace a client is blocked part way
through a message to be logged, the transient one in front of it is pruned, and
the send is resumed with the freed one, against the same warning. A transient
message, a client that reads slowly and one more message are all it takes. From
then on a message may be lost, sent twice or sent from freed memory; that no
place leaves the log, that the backlog is waited for and that nothing is *freed*
early holds all the same, and is proved.

The following were seen while modelling; no run shows them by failing, because
nothing in the repository claims otherwise. Each one with a line of its own is a
hazard in `PROJECT.json` too.

Libraries of the server:

- *A stop can leave a worker asleep, and `WorkQDe` waiting for it* (`Stranded`).
  `CTaskVecStop` writes `done` and signals without the mutex
  (`lib/cvec/imp.h:70-73`): a worker between its test of `done` and `PCondWait`
  misses the signal. Each `Pop` that finds the queue done passes the signal on;
  but `qRunner` leaves without one when its task fails, after its own
  `WorkQStop` (`lib/workQ/imp.h:69`), or could not be polled (71). When all the
  others left so, or there is only one worker (one processor), nobody signals
  again and the join (108) does not end. `NobodyForgotten` and `StopEnds` say
  that this is the only order in which that happens.
- *`At` and `Rm` on one table lose entries* (`AtOverwrites`, `moved`). `At` goes
  past tombstones and inserts in the first empty slot (`lib/table/imp.h:165-188`).
  `Rm` leaves a tombstone wherever the next slot is taken, `count` goes down with
  it, and so a table may fill up with entries and tombstones before it grows:
  `At` then comes full circle and inserts where it began, over whatever is
  there. With growth, the place it found is one of the old table (178). The
  server's table of channels makes exactly these calls
  (`app/server/table.h:27,35`): a channel in use can drop out of the table, or
  a number be taken for absent though it has one, against `channel does not yet
  exist` in line 38. It needs numbers that collide and are given up and asked
  for in turn, or more channels at a time than half the table.
- *A full pipe destroys a task twice*: in `PollerPush`, in `WorkQPoll`, and by
  `clientDonate` once more.
- *Ctrl-c at the wrong instant aborts the server*: the stop byte is read as a
  task, and the assertion of `lib/poller/imp.h:104` fails (`loop = "aborted"`).
- *A key pushed again* after another one's removal can get a second entry
  (`lib/table/imp.h:114`); no user of `Push` removes and pushes present keys.
- *A client can be stranded*: donated after `handleNewClients` emptied the pipe
  and before `killChannel` took the mutex (`app/server/table.h:27`). A failed
  creation leaves an entry with a null channel.
- A listener task is lost for good when the queue cannot grow; `TunnelInit`
  reports success when it has no buffers.
- `Realloc` copies all the bytes the block had, also into a smaller one
  (`lib/alloc/imp.h:113`).
- *A thread's arena may be used after it was freed* (`ArenaLost`). It is set
  inside the loop that initialises its buckets (`jcAllocImpImpLocalArena.h:43`):
  when a later turn fails, `FAILED` frees the arena, which stays set, and the
  retry (52) returns it.
- *Loops under the mutex.* While the kernel refuses the global arena its memory,
  the thread that asks sleeps and tries again with the global mutex in hand
  (`jcAllocImpImpGlobalArena.h:31-33,63-66,79-85`): every thread that frees a
  full bucket, or ends, waits with it. `malloc` only tries the mutex
  (`MallocReturns`).

Protocols and programs:

- *An orderly restart puts a proxy with one-time pads behind its peer.* `OprotDe`
  writes the keys to the `key` file (`lib/oprot/imp.h:135-136`), `OprotInit`
  reads them from the heads of the pads (113-114), where they still are what they
  were at the start: messages after a restart do not open. `Survived` leaves
  restarts out for `oprot`.
- *cTool may use a ratchet key twice*: it saves the output before the key, and if
  it is killed between, or the second save fails, the next run starts from the
  old key. `KeyUsedOnce` leaves these two faults out for `dratchet`, not for
  the pad.
- A message of the server of length 0 that blocks is encrypted a second time
  when resumed (`lib/tunnel/imp.h:54`).
- The results of the handshake's parts are ignored (`app/proxy/server.h:21,24`);
  a failure shows later, as a chunk that does not open.
- `RprotMake` returns 0 when it fails too (`lib/rprot/imp.h:74`): cTool then
  reports keys it has not made.
- A character outside ASCII makes the length sent in front of a message too
  small (`index.js:105`): it is shown cut, and its tail is read as the next
  length. A hello sent before the adapter has connected is lost
  (`index.js:93-97`). Newcomers are sent the heartbeats of people who have left.
  `typingReady` is never declared (`chat.js:165`).

## 6. What is not modelled, and the plan

Not modelled because there is nothing for a model checker in it: the
cryptographic primitives (TweetNaCl), random bytes, the layout of the user
interfaces, string helpers and containers without state of their own, and the
earlier pollers (`lib/poller/back`, `epoll`, `_exp`), which no program includes.
Start-up and the clean-up after a failed start (`data.h:102-117`, which frees
before it stops) are sequential. The chat page's images travel as its messages do.
`lib/net`'s SOCKS client and its UDP part, and `lisCB` with `accept`, are the
next to model.

Order of the work, the most important behaviour of the server first:

1. *(done)* `Channel` with `Vec`, refined to `Broadcast`; `CVec` refined to
   `CloseableStack`; `WorkQ`; `HashTable` refined to `KeyMap`; `ChannelTable`.
   Theorems about `Channel`, `Vec` and `CVec`.
2. *(done)* `Session`: handshake, tunnel and proxy loop in one, refined to
   `Duplex`.
3. *(done)* `Rprot`, `Oprot` and their composition `EndToEnd`.
4. *(done)* `CTool` with its form, over the same `Rprot` and `Oprot`, with
   `Base64` and `Conf`.
5. *(done)* `Alloc`, refined to `BlockPool`.
6. *(done)* `Adapter` and `Chat`.
7. `lisCB` and `clientTaskCB`'s place in `WorkQ`: a connection is a task of the
   queue, a reader of `Session` and a giver of `ChannelTable`; SOCKS and connect.
8. *(done)* Theorems about `WorkQ`, `ChannelTable`, `Session`, `EndToEnd` and
   `Alloc`, `Alloc`'s refinement, and what `Channel`'s pruning keeps and frees.
9. *(done)* Proofs of `Session`'s refinement of `Duplex` and of `KeysInStep`.
10. *(done)* Proofs of `EndToEnd`'s `EachShownOnce` and `RatchetsInStep`.
11. Proofs: `Channel`'s refinement up to `torn`; `Chat`'s `StaysListed`.
