# A verification project for the network file system

The repository is a small distributed file system in C: a naming server, up to six
storage servers and up to six clients, all talking TCP. This directory holds TLA+
models of its control logic, TLC configurations that check them, and proofs checked
by TLAPS. Line numbers refer to the files under `src/`.

## 1. Inventory

### The processes and what they keep

| Component | State | Operations | Source |
|---|---|---|---|
| Client registration | `client_available[]`, `client_reciever_sock[]`, `client_lock`, `master_client_lock`, the loop's `x` | accept on the master port, pick a slot, tell the port, accept on it, start a thread; end of a client | `Naming_server.c` `client_master_starter`, `find_a_free_port_for_client`, `clientcommandtemporary` |
| Command processing | per client thread: the command, position in its handler | `Createfunctionality`, `Deletefilefunctionality`, `Readfunctionality`, `Writefunctionality`, `Infofunctionality`, `Lsfunctionality`, `copyfunctionality`, `copydirfunctionality`, `command_proccessor` | `Naming_server.c` |
| Storage server locks | semaphores `block_server[6]`, `red_lock` | wait, trywait, post | `Naming_server.c` |
| Redundancy | one thread per storage server; `server_available[]` | `redundant_copy`: every 120 s wipe two replicas, list, copy | `Naming_server.c`, `Storage_server.c` |
| Replica placement | none (arithmetic on the index) | host and folder of each replica | `redundant_copy`, `Readfunctionality` |
| Disconnection watcher | one thread per storage server connection | `empty_func`: notice EOF, lock, mark down, close | `Naming_server.c` |
| Storage server registration | `server_available[]`, sockets, `master_server_lock` | first connection, reconnection | `server_master_starter`, `Storage_server.c` `connect_to_naming_server` |
| Storage server, naming server's side | its files, replica folders `copy1`, `copy2` | `NM_runner`: create, delete, read, write, getMain, getsizdir, create/copy/delete RED | `Storage_server.c`, `SS_functions.c` |
| Storage server, client side | - | `C_runner`: read, write, info | `Storage_server.c` |
| Client program | one command at a time | connect, send a command, talk to a storage server, say `stop` | `Client.c` |
| Path trie | nodes with lists of ports | insert, search, delete, next entry, list | `Tries.c` |
| Lookup cache | recency list and hash chains over the same nodes | `get`, `put`, `removeForDelete` | `LRU.c` |
| Command queue, hash table, logging, error codes, message structs, `test.c` | - | unused, pure I/O, or data only | |

### How they interact

- A client connects to the master port, is told a port of its own, connects there, and
  gets a thread of the naming server that processes its commands one by one.
- A command that concerns a storage server is a request on the **one** connection the
  naming server has to it, and (mostly) a reply. All client threads and redundancy
  threads share these connections. `block_server[i]` is there to keep one exchange
  from mixing with another; `red_lock` to keep redundancy rounds apart from one another
  and from commands.
- For `read`, `write` and `info` the naming server gives the client the storage server's
  address and keeps `block_server` until the client says `stop` (or goes away).
- A redundancy thread takes `red_lock`, then `block_server` of the two hosts and of
  its own server, and rewrites two replica folders with requests nobody acknowledges.
- When a storage server goes away its watcher takes `block_server` and marks it down;
  reads then go to a replica.

### What is hard, and what would make each part correct

| Part | Hard behaviour | Property |
|---|---|---|
| Locks | early returns, closed connections, entries that are skipped: is every `sem_wait` matched by exactly one `sem_post`? | `NoLockLeak`, `LockConserved`, `ExclusiveAccess` |
| Exchanges | a reply read by the wrong thread | `CreateAnswerTrue`, `ExclusiveAccess` |
| Commands | one that waits for ever | `CommandAnswered` |
| Redundancy | three semaphores taken in different orders by different threads | `RoundEnds`, `RoundIsolated` |
| Watcher | a server that dies inside an exchange | `DeadServerMarkedDown` |
| Replicas | unacknowledged requests, crashes during a round, text without framing | `ReplicaExact`, `ReplicaUnmixed`, `ReplicaSurvives`, `ReplicasConverge` |
| Client slots | reuse of slots and sockets, a pointer to a loop variable | `OwnSocket`, `NeverCutOff`, `SlotForOne`, `JoinedIsServed`, `SlotFreed` |
| Exchanges, as a promise | whatever interleaves, a request is followed by its own answer | `OwnAnswers` (refinement of `Exchange`) |
| Registration, watchers | available before connected; descriptors closed by number; old threads after a reconnection | `RegisteredConnected`, `ClosesOnlyDead`, `ExitNoticed`, `StartedServes` |
| Trie | counters kept by hand, entries inserted and deleted by handlers without a common lock | `TrieCounts`, `CreatedIsListed` |
| Cache | recency list and hash chains share their links; lists shared by threads | `CachedWasThere`, `FoundExists` |
| Contents of files | a writer never waits for its text; one `temp.txt` for all copies; two runners of a storage server | `ReadLatest`, `CopyExact`, `CopyUntorn`, `CommandEnds` |

`PROJECT.json` lists the hazards one by one, each at its line, with the properties that
are about it or the reason why there is none.

## 2. Modules

| Module | Role |
|---|---|
| `Placement` | replica arithmetic; extended by the two modules that use it |
| `Exchange` | abstract: what the locks promise of a connection, told without a lock |
| `NamingServer` | client threads and their handlers, the locks, the storage servers' answers, the watchers, the conversation of the redundancy threads |
| `NamingServer_proofs` | type correctness, for all constants |
| `NamingServerLocks_proofs` | the inductive invariant, mutual exclusion, isolation of rounds, conservation of the locks; no handler leaves with a lock |
| `NamingServerExchange` | the mapping from `NamingServer` to `Exchange`, and the invariant that shows it |
| `NamingServerExchange_proofs` | `NamingServer` implements `Exchange`; what a create is answered is true |
| `Replication_proofs` | replicas are in places of their own; texts are never mixed; replicas are exact |
| `ClientPorts_proofs` | slots, sockets and threads stay together |
| `ServerRegistry_proofs` | available servers are connected and watched; no descriptor of anybody else is closed |
| `DataPath_proofs` | reads see the last write; copies are exact and never half a text |
| `NameSpace_proofs` | types; cached lists name servers that had the path; the trie's counters count; what was created stays listed |
| `Replication` | what a round writes to the replicas, and what the hosts make of it |
| `ClientPorts` | how a client gets a slot, a socket and a thread |
| `PathTrie` | operators on the trie of paths (`Tries.c`) |
| `LookupCache` | operators on the cache, link by link (`LRU.c`) |
| `NameSpace` | handlers over trie, cache and the storage servers' directories; composes the two above |
| `ServerRegistry` | joining, leaving and coming back of storage servers |
| `DataPath` | the contents of files in read, write and copyfile |
| `MCNamingServer`, `MCReplication`, `MCClientPorts`, `MCNameSpace`, `MCServerRegistry`, `MCDataPath` | the modules that the configurations check |

The modules are joined by what they assume of one another. `Replication` runs one
round at a time per group and keeps creates and deletes out of it: that is
`RoundIsolated`, a theorem of `NamingServer` (under the condition of section 6).
`ClientPorts` treats a command as one step and `NamingServer` treats each client thread
as existing: what is between them is `OwnSocket`. `NameSpace` takes its lock
`holder[s]` as exclusive, which is `ExclusiveAccess`, and decides what a lookup yields, which
is a free choice in `NamingServer`. `ServerRegistry` has a storage server's successive
connections, of which `NamingServer` has the last. `DataPath` has a file's contents in the
exchanges that `NamingServer` has only the order of.

### NamingServer and the code

| Model | Code |
|---|---|
| `sem[s]`, `red` | `block_server[i]`, `red_lock` |
| `available`, `open` | `server_available[i]`; `server_reciever_sock[i]` not yet closed by `empty_func` |
| `req[s]`, `rep[s]` | bytes on the way on server i's connection, one element per message |
| `cl[c]` | the thread of a client: where it is in its handler and its locals |
| `rd[s]`, `wpc[s]` | the threads of `redundant_copy` and `empty_func` |
| `holders`, `made` | history: who is past a `sem_wait`; whether this client's create has run |

The handlers differ in what they look up and what they do after an exchange, and are
alike in between, so they share their steps. `Lookup` is where each begins
(`CreateLookup`, `DeleteLookup`, `AccessLookup`, `CopyFileLookup`, `CopyDirLookup`, or
`AnswerAtOnce` when the lookup decides). `Lock`, `Send`, `Recv`, `Unlock` are
one exchange; `SendFails`, `RecvClosed`, `CreateRefused` and `CreateAccepted` are its
error paths as each handler has them. `Tell` and `Stop` are the wait for the client of
read, write and info. `After` goes on to the next entry, the next phase, or returns.
`Finish` is the `sem_post(&red_lock)` at the end of `command_proccessor`.

Peculiarities of the code that the model keeps: `sem_trywait(&red_lock)` without a look
at its result (`TryRed`), the `sem_post` in copyfile before the acknowledgement is read
(`Send`, `LateAck`), the second `sem_post` of a create that reads 0 (`RecvClosed`,
`Extra`), the `sem_post` of a copydir entry with nothing to write (`CopyDirNext`), the
returns with the lock held (`Tell`, `CreateRefused`). `Posted` keeps the limit of a
semaphore: `sem_post` at `SEM_VALUE_MAX` fails.

What a lookup finds is a free choice: any server or none, up to `MaxEntries` servers of
a path or entries of a directory. The trie and the cache can only narrow it down.

### NamingServer as an Exchange

`Exchange` has two variables per connection: who waits for an answer, and what is on the
wire (a request of somebody, an answer to somebody, or nothing). A user asks only on a
quiet connection, and hears its own answer or gives up because the connection is gone. There
are no semaphores in it. `NamingServerExchange` maps to it: `Waiting` is the threads in
`recv`, `OnWire` the oldest of the requests and replies on the connection. `OwnAnswers` is the
abstract specification under this mapping.

### PathTrie, LookupCache, NameSpace and the code

| Model | Code |
|---|---|
| `trie`: a function from nodes (paths letter by letter) to `count`, `end`, `ports` | `THP`, `struct Tries`; a child that is unlinked takes what is below it along |
| `InsertTries3`, `SearchWords`, `NextEntry`, `DeleteNode` | the functions of these names in `Tries.c`; `InsertTries3` takes a set of paths, since a create inserts all components of one and a returning server all it has, and their order makes no difference |
| `Pruned` | the loop of `Deletedirfunctionality` (446-464), as a recursive function of the number of deletions; `Dropped` is what it removes from the cache |
| `cache`: `head`, `tail`, `size`, `map`, and the nodes with `prev`, `next`, `freed` | `LRUCache`; `get`, `put`, `removeForDelete`, `evictLRUNode` are operators from a cache to a cache |
| `broken`, `up` | use of freed memory or of `NULL`: the naming server has crashed |
| `Chain`, `Find`, `Endless` | the search loop along `map[hash]` and `next`; `Endless` when it runs in a cycle (`Hang`) |
| `Reachable`, `Collect` | `malloc`: nodes that nothing points to are reused |
| `cl[c]` | the handler of a client between two places where it may wait: before and after `block_server`, before the last `put` of a create, before the deletions of a `deletedir` |
| `disk[s]` | what is in the directory `main` of server s |
| `GoesAway`, `ComesBack` | `empty_func`'s effect, and `tokenizeAndPrint`, which inserts all paths of a server that registers |

A path is a sequence of numbers for its letters, with 0 for `/`: the trie's order of letters
and the fact that `/` comes first decide what `nextentry` returns, and nothing else about
letters matters. One call on the trie or on the cache is one step; they are not locked either,
so two of them could also overlap inside, which is not modelled. What copydir creates and
what `ls` lists are not part of this module.

Peculiarities kept: a create caches its list under the first component of its path, since
`strtok` has cut the string (`FirstToken`); it does so after `sem_post` (`CreatePut`); write and
info cache that there is nothing, read only what it found; `deletefile` sends and deletes
`nextentry(path)`; `searchWords` leaves `currSize` -1 at a node without servers, which copyfile
does not notice; the refused create keeps its lock (`Lost`).

### ServerRegistry and the code

`ss[i]` is a storage server's program (its last run and how far it is in
`connect_to_naming_server`), `waiting` the kernel's queues of connections not yet accepted,
`fds` the naming server's descriptors with the connection behind each, `sock` the numbers that
`server_reciever_sock` and `server_reciever_sock2` hold, whether or not they are still open.
`MasterRead`, `MasterLock`, `MasterAccept`, `MasterStart` are the loop of
`server_master_starter`; `WatchRead`, `WatchHears`, `WatchLeaves` that of `empty_func`, of which
an index may have several threads, one per connection it has had. The kernel gives out the
lowest free descriptor, so a closed one soon belongs to somebody else (`OtherJoins`).

### DataPath and the code

`file[p]` is a sequence of texts, each named by the command that wrote it. For read and write
the handler is `Told` and `Stop`; in between the client program runs (`Connect`, `Write` or
`Exit`) and `C_runner` of the storage server (`Accept`, `ServeRead`, `OpenWrite`, `CloseWrite`),
one connection after the other. copyfile is `AskRead`, `KeepText`, `SendText`, `CopyDone`,
served by `NM_runner` (`NmServe`). `slock` is the semaphore the two runners share, `temp` the
naming server's `temp.txt`.

### Replication and the code

`main` and `copy` are the folders of the three servers of a group, `wire[h]` the
requests to host h that nobody waits for. A round is `Wipe` (`deletereddir`), `List`
(`getMain`), then `Entry` (`getsizdir`, `createREDdir` or `createREDfile`) and `Text`
(`copyfileread`, `copyREDfile` and the text) for each path. A text is a sequence of
pieces, so that appending to something that should have been empty shows. `Serve` is
a host processing its oldest request; with `"coalesce"` the `recv` that reads a text may
take the requests behind it along. `stale` and `kept` are history variables for the
properties.

### ClientPorts and the code

`acc` is the accepting loop, one action per step that can be interleaved; `thread[k]` the
thread created for session k. `x` is the loop's variable whose address each thread is
given. `sock[i]` names the client at the other end of `client_reciever_sock[i]`. A
session is one run of a client program; it connects once.

## 3. Runs

Passing runs.

| Run | Question | Instance |
|---|---|---|
| `locks` | `TypeOK`, `ExclusiveAccess`, and `IInv`, the invariant of the proofs | two clients, servers 0 and 1, every operation, refused creates, failing client sockets; directories of up to two entries |
| `answers` | `NoLockLeak`, `LockConserved`, `CreateAnswerTrue`, `CommandAnswered`, `OwnAnswers` when nothing goes wrong | two clients, one server, five operations |
| `redundancy` | `RoundIsolated`, `RoundEnds` | the three redundancy threads of one group, no client, no deadlock |
| `crash` | `DeadServerMarkedDown` | one client, one server that may exit at any point, rounds, copies with and without text |
| `replication` | `ReplicaExact`, `ReplicaUnmixed`, `ReplicasConverge` | rounds of servers 0 and 2, a file and a directory, server 1 may exit, three changes of files, late writes |
| `ports` | `OwnSocket`, `NeverCutOff`, `SlotForOne`, `JoinedIsServed`, `SlotFreed` | three sessions for two slots, clients that leave early, commands that arrive in part |
| `names` | `TypeOK`, `TrieCounts`, `CreatedIsListed`, `CachedWasThere` | two clients, two servers, one of which goes away and comes back, a directory with two files, cache of two, four commands |
| `registry` | `RegisteredConnected`, `ClosesOnlyDead`, `ExitNoticed`, `StartedServes` | two storage servers, three runs of their programs, a client that takes descriptors |
| `data` | `ReadLatest`, `CopyExact`, `CopyUntorn`, `CommandEnds` | two clients, one of them copying, a written file and its copies on the same and on another server, three commands |

Runs that find a disagreement between what the repository says and what the code does.

| Run | Violated | In short |
|---|---|---|
| `red_deadlock` | `RoundEnds` | a command during a round posts `red_lock` without having it (1495, 1530); two rounds of a group then wait for each other |
| `replica_lost` | `ReplicaSurvives` | a round wipes both replicas of a server that exited after the check at 1734 |
| `stale_hit` | `FoundExists` | create, read and delete of `d/x`: the node leaves the recency list and stays in `map[hash]` (`LRU.c:163`); the next create of `d/x` is told ALREADY |

### Bounds, and why they are enough

- **Clients: two.** Every property of the locks relates one thread to at most one other
  (a reply stolen, a lock entered twice, a lock never given back). The proofs have any
  number.
- **Servers: one group of three.** Rounds involve exactly one group; `NServers % 3 = 0`
  is the assumption `NServersAssumption` and the code has 6. `Up` says how many of them run.
- **MaxEntries 1 or 2.** A handler carries nothing from an entry to the next but the
  queue; two entries on different servers are the case in which it changes locks.
- **SemMax 2.** Far below the real limit; it makes the saturation of a semaphore that is
  posted too often reachable, and 2 is already one more than a binary semaphore
  may have.
- **Replication: two paths** (one file and one directory, or two files), three changes of
  files (`MaxVersion`), connections that buffer one or two requests (`BufMax`). Texts are
  appended chunk by chunk with requests of their own; one chunk per file and two
  rounds over the same folder show whether anything is appended that should not be.
- **Ports: two slots, three sessions.** The third session finds the slots taken or reuses
  one. Reuse is where a slot, its socket and its thread can come apart.
- **Names: three paths, cache of two, four commands.** A directory and two files are the
  smallest tree with a sibling that a delete must leave alone; three paths and room for two
  force evictions, and two of the paths share a bucket. `d` is the only directory that is made
  or deleted as such. Creates, accesses and deletes of two clients race in any order of four.
  `NNodes` (5) is how many nodes of the cache can be reached at once; it is never short.
  Longer sequences reach more of the cache's decay: at capacity 2 a node is used after it was
  freed after six commands, a search runs in a cycle after about nine.
- **Registry: three runs of programs, six descriptors.** An index that comes back twice, or
  two that come back once; a registration uses two descriptors, so six are never all taken.
- **Data: three commands.** A write, another write or copy, and a read. Texts are one chunk:
  what can go wrong between chunks of one connection is in `Replication`.
- The clients of `locks` and of `names` are interchangeable, and these runs have no temporal
  property, so they use `ClientSymmetry`.

Deadlock is checked where the modelled system may never stop (`answers`, `redundancy`,
`crash`, `replication`). It is not in `locks` (a refused create and a failed send leave a
lock held, and then every client may wait), not in `ports` (sessions end, and the
accepting loop stops for good when it finds every slot taken), not in `names`, `registry` and
`data` (their commands and programs are bounded, and `names` ends with a crash of the naming
server), nor in the runs that expect a violation.

### What the conditions in `Events` mean

A run lists the conditions under which it checks. Properties that pass under fewer
conditions than the code may meet are not claims about the rest:

- `NoLockLeak` and `CommandAnswered` pass in `answers` without failures. With `"refuse"` both
  fail: a refused create returns with `block_server` (line 333), and the next create there
  waits for ever. `"senderr"` breaks `NoLockLeak` in the same manner at lines 701,
  780 and 860. `Returning` (section 6) is the condition.
- `CreateAnswerTrue` and `OwnAnswers` pass in `answers`, which has no copyfile. With copyfile
  and `"refuse"` both fail: copyfile posts before it reads its acknowledgement (1127, 1130), and
  a create of another client takes it for its own. `OnePiece` (section 6) is the condition.
- `ExclusiveAccess` passes in `locks`, without `"crash"` and `"empty"`. With
  `"empty"` (copydir of an empty file) or `"crash"` and a create, a semaphore is posted
  once too often and two threads can be let in; `Balanced` (section 6) is exactly
  that condition.
- `OwnSocket` passes in `ports`, where a new thread runs before the accepting loop comes
  round again. With `"late"` it fails: two threads then read one slot.
- `ReplicaExact` passes for rounds of servers 0 and 2. With server 1 in `Sources` it fails:
  the text for the second host goes out with the first host's folder (1965), and for servers
  with index % 3 = 1 the folders differ. `ReplicaUnmixed` passes without `"coalesce"`: a text
  has no length, and with it `recv` may return the next request along (`Storage_server.c:398`).
- `registry` passes with `"reuse"`, clients that take closed descriptors. With `"soon"`, a
  storage server that is back before its old watcher has run, and with `"halfway"`, one that
  exits before both its connections were accepted, all four properties fail: the old watcher
  reads and closes the new connection (1600-1611), and the connection left in the queue of the
  port is accepted in place of the next (2031).
- `CopyExact` passes with one client that copies. With two in `Copiers` it fails, since
  all copies use the same `temp.txt`; a copy that finds it removed by another crashes the naming
  server in `fread(NULL)`.
- `CreatedIsListed` counts a path below a deleted one as deleted with it (`deletefile d` may
  delete `d/x`, its next entry). Of paths whose names only continue one another (`a`, `ab`) it
  is false: `deletefile a` deletes `ab` (560). `TrieCounts` is false of them as well: when the
  `a` that a `deletedir` looked up is deleted by another client before the deletions begin, and `ab/c` is
  created meanwhile, the handler finds the node of `a` on the way to `ab` and takes one from a count that is
  not its own (434-467). The run has no such names, which is the condition `NoContinuation`
  (section 6).

## 4. Fairness

- `NamingServer`: weak fairness of each thread's steps and of each storage server's
  answers: threads are scheduled, and a storage server's loop blocks only for its next
  request. `Stop` is among a handler's fair steps because the client program sends `stop`
  on every path after it was given an address (`Client.c:129`, `168-172`), and when it is
  gone `recv` returns. New commands (`Receive`) and
  crashes are not fair; the redundancy timer is, where a run has it, since it is a `sleep`.
- Strong fairness for waiting on a semaphore: a client thread sleeps a second after each
  command (`Naming_server.c`, end of the loop of `clientcommandtemporary`), a redundancy
  thread 120 s after a round, so whoever waits runs while the semaphore is free. Without
  it a thread could lose every race, which POSIX does not exclude and these sleeps do.
- `Replication`: weak fairness of a round's steps and of the hosts, strong fairness of
  starting a round that is due, for the same reason. Changes and crashes are not fair.
- `ClientPorts`: weak fairness of the accepting loop and of the threads; strong for
  `Drop`, which waits for `client_lock` while the loop takes it again and again;
  weak fairness of `Join`, as a client connects at once to the port it is told. A client
  that leaves instead is the event `"early"`.
- `ServerRegistry`: weak fairness of what a storage server has begun, of the watchers and of the
  registering loop; strong for those that wait for `block_server`. Starting, exiting and the
  clients are not fair, and neither is the timer of redundancy.
- `DataPath`: strong fairness of handlers and runners, which wait for semaphores; weak of the
  client program, which includes that its user types a line or leaves in the end. `Begin` is not
  fair.
- `NameSpace` has safety properties only.

## 5. What each passing run shows

`locks` has every handler racing with every other, and shows that on the paths without a
lost server the connections are never shared, even where handlers leave with a lock: the
cost of those is waiting, not mixing. `answers` shows the other half: without failures
nobody leaves with a lock, posts twice, or answers a create with another's reply, and all
commands come to their answer although both clients fight for one semaphore.
`redundancy` is the positive counterpart of `red_deadlock`: as long as `red_lock` is
respected, taking the three semaphores in three different orders is harmless. `crash` has
a server exit in the middle of exchanges and rounds; whoever holds its semaphore gets
through, and the watcher after it. `replication` shows that a wipe and a copy without
acknowledgements still end in the right contents, that a round run while a client
writes is made good by the next, and that a dead host does not hold the round up.
`ports` shows that slots are reused without a client being served on, or cut off by,
another's slot, and that the loop's long wait with `client_lock` is the only thing that
can keep a slot from being freed.

`names` shows what the unlocked structures still guarantee: whatever two clients do at once,
and although a storage server that returns inserts its paths again, a node's counter covers
what was inserted and not yet deleted, a path whose create was answered YES and that nobody deletes
is listed, and a cached list, though threads overwrite each other's, only names servers that had
the path. It does not show that the naming server survives: deleting a path twice at a time
walks through unlinked nodes, copyfile of a path typed with a slash at its end reads the first of
no servers, an evicted node may be used again; these are steps to `up = FALSE`. `stale_hit` shows
what the cache does not guarantee. `registry` shows that closing descriptors by number is
harmless as long as a watcher runs before its storage server is back. `data` shows
that a writer that does not wait is safe for readers, because `C_runner` serves connections in
order, and for copies only in that they never see half a text: a copy right after a write
may copy the old text.

Every property of a passing run is also checked to fail for at least one altered
definition: the operators commented `Mutant` in the modules are such alterations of the
definition that follows them, each a plausible mistake in the code it models.

## 6. Proofs

`NamingServer_proofs`, theorem `TypeCorrect`: `Spec => []TypeOK`, for every number of
clients and servers, every set of operations and every environment. `TypeOK` alone is not
inductive: a copy handler's next step reads the head of its queue, so the invariant is
`TypeInv == TypeOK /\ QueueInv`, where `QueueInv` says that a copyfile that is reading has
its source and its destination in the queue and that a copydir at work has an entry.

`NamingServerLocks_proofs`, theorems `Exclusion`
(`ASSUME Balanced PROVE Spec => []ExclusiveAccess`) and `RoundsIsolated` (the same for
`RoundIsolated`). Mutual exclusion needs to know that whoever posts has waited, which
depends on where each thread is. `IInv` therefore adds to `TypeInv`:

- `LockInv`: a semaphore's token is in it, or with its one holder;
- `HandlerInv`: a handler between its wait and its post is a holder of *its* server's
  semaphore, and never comes to a post without a wait;
- `RoundInv`: which of its three servers a redundancy thread holds at each point;
- `WatchInv`: the same for the watcher, and that without crashes an open connection has
  a live process behind it.

`Balanced` is the condition under which the second half of `HandlerInv` is true of the
code: no create (or copydir) loses its storage server half-way, and no copied directory
has an empty file. It is needed: each half names a place where the code posts without a
wait (lines 314 and 361; 1464). A leak, on the other hand, does not break exclusion, so
refused creates and failing client sockets are allowed. `Inductive` is `Spec => []IInv` under
`Balanced`; `Conserved` follows from `LockInv`: a semaphore and its holder have one token between
them.

`NamingServerLocks_proofs` also has theorem `Returns` (`ASSUME Returning PROVE Spec => []NoLockLeak`).
`IInv` says that who is inside holds, and exclusion lets it forget the rest; a leak is a holder
that is no longer inside. `HeldInv` adds the converse: whoever holds a server is `Inside` it
(between its wait and its post, with that server as its `srv`). `Returning` is `Balanced`
without refused creates and without failing client sockets, the two causes of a return with the
lock.

`NamingServerExchange_proofs`, theorems `Implements` (`ASSUME OnePiece PROVE Spec => OwnAnswers`)
and `CreateAnswered` (the same for `CreateAnswerTrue`). `OnePiece` is `Balanced` without
copyfile, whose second exchange is not in one piece. `ExchangeInv` strengthens `IInv`: at most one
message is on a connection, it belongs to the thread that waits there and is of the kind it
asked for; a closed or dead server has none; a YES on its way to a create comes from that
create having run. Each action of `NamingServer` is then a step of `Exchange` or leaves `Waiting`
and `Wire` alone: `Send` and `RedAsk` are `Ask`, `Serve` is `Answer`, the receiving steps are `Hear`
or `GiveUp`, `Crash` is `Lose`, and all else stutters. Which thread waits
is a set in the mapping, and exclusion makes it a set of one.

TLC checked each of these invariants on the instances of section 3 before it was proved (`Fate` there as
a fold over the queue).

Assumptions: those of the modules (`NServersAssumption`, `UpAssumption`,
`OpsAssumption`, `BoundAssumption`, `ThreadsAssumption` of `NamingServer`; `PortsAssumption`,
`RegistryAssumption`, `ReplicationBounds`, `NameSpaceAssumption`, `CacheAssumption`, those of
`DataPath`), which TLC evaluates in every run of the `MC` modules. `ThreadsAssumption` only says that clients are not named like the
model's own names for the naming server's threads. The bounds `MaxEntries` and `SemMax`
are arbitrary in the proofs.

`ClientPorts_proofs`, theorems `OwnSocketHolds`, `NeverCutOffHolds` and `SlotForOneHolds`
(`ASSUME "late" \notin Events`). Each of them speaks of a thread, its slot and its client; what
they depend on is the loop. `PortsInv` adds: a client is in the loop once (`OnceInv`); from
`find` to `start` the slot the loop has marked has nobody's socket until it gets its client's
(`LoopInv`); only that client is told a port or waits on one (`WaitInv`); a running thread's slot
is marked and has its client's socket (`ThreadInv`), and a client that is there is in one of these
two places (`HeldInv`). A thread that is created and has not run has the slot in `x`, and there
is one such thread: that is where `"late"` matters.

`Replication_proofs`, theorems `ReplicaUnmixedHolds` and `ReplicaExactHolds`
(`ASSUME "coalesce" \notin Events, 1 \notin Sources`). A round is over before the hosts have seen
its requests, so what it achieves is in the future of the hosts. `Fate(h, d)` says that host h has
folders d once it has got to everything on its way: there is a sequence of folders from the
present ones to d, each made from the one before by the oldest request, none of them with a text
of two servers or two rounds. `CopiesInv` says what the fate is at each point of a round: wiped,
then exact for the paths done so far. A request that is sent extends every fate by a step; one that
a host serves cuts the first off. Nothing is proved by induction over the queue, since the
witness is a sequence that one action changes at one end. `1 \notin Sources` is the condition under
which the text for the second host goes into the folder that was wiped for it (1965); `"coalesce"` is
discussed in section 3. `FoldersApart` and `ReadsReplica` are about the placement alone: two servers'
replicas never share a folder of a host, and a read of a server that is down is sent
to the folder that `redundant_copy` fills.

`ServerRegistry_proofs`, theorems `RegisteredConnectedHolds` and `ClosesOnlyDeadHolds`
(`ASSUME "soon" \notin Events, "halfway" \notin Events`). `RegisteredConnected` leaves out a
server that is registering, and the step that ends the registration must make it true at once. So
`RegInv` divides a storage server's life: it is joining (its index is in the queue or in
`server_master_starter`'s hands, and no watcher of it is left), or it is being watched by exactly one
thread, or it is off (`PhaseInv`); what waits on its ports in each of these (`WaitInv`); that its
watcher waits on the connection of its last run, and wants the lock only when that run is over
(`WatchInv`, `ByeInv`). `FdInv` ties the descriptors to this from both sides: one that is open is its
client's or that of a server that is joining or watched, and these find their connections at the
numbers they remember. `ClosesOnlyDead` follows: only a watcher that has the lock and a client that
leaves close a descriptor. `RegInv` is about a naming server that runs. That `Lowest` and `Runs`
(the lowest free descriptor, the last run) exist is shown with the library's well-founded induction
on a set of numbers.

`DataPath_proofs`, theorems `ReadLatestHolds` and `CopyUntornHolds` (`ASSUME OneCopier`) and
`CopyExactHolds` (`ASSUME OneCopier, Apart`). A write is over when the client says `stop`, which may be
long before `C_runner` gets to it. `QueueInv` says that of the connections `C_runner` has before it
only the last may be of a client it has not heard: that client has `block_server`. `LatestInv`: the last
write of the queue to a path has the text that was last sent for it, and when none is left the
file has it. A read is served when everything before it has been, so it reads that. `CopyInv` has
the requests, the replies and `temp.txt` of the copy. `OneCopier` says that one client at most
issues copyfile: with two, `temp.txt` and what a storage server reads on the naming server's
connection mix, and the model does not say how. `Apart` (no client writes to a path that is copied to)
is in the statement of `CopyExact` only: a write between the copy and its answer is in the file,
as it should be.

`NameSpace_proofs` has two invariants, and neither the trie nor the cache has a lock to lean on.

Theorems `NameSpaceTypes` (`Spec => []TypeOK`) and `CacheNamesCreators` (`Spec => []CachedWasThere`)
have no condition. `CachedWasThere` speaks of the cache alone and is not inductive: what is put
there comes from a handler's own list or from the trie, and a create changes a list that it found in
the cache long before. `LInv` (theorem `ListsHold`) therefore says of every list, wherever it
is, that it names servers which had the path: in the cache (`Listed`), in the trie (`Ported`), in a
create that is about to put it (`PutsWhatWas`); that the node a create found in the cache still
has its path's key (`HoldsItsNode`), although nodes that nobody points to are reused; and that
what is on a disk was created there (`Made`), for the servers that come back. No step of the cache
needs to be right about its links for this: `get`, `put`, `removeForDelete` and the eviction
move lists about, and never to another key.

Theorems `TrieCountsRight` (`ASSUME NoContinuation PROVE Spec => []TrieCounts`) and
`CreatedStaysListed` (the same for `CreatedIsListed`). A counter says nothing about which of the
insertions it counts are left, so an invariant on the counters themselves does not tell what
`DeleteNode` will unlink. `CInv` (theorem `CountsHold`) says that the trie stands for a
collection `L` of numbered insertions (`Counts(trie, L)`): its nodes are the prefixes of the
insertions in `L`, each counts those at and below it, and one that is an end has one at itself.
`L` has every path that was created and that nobody deletes (`Kept`); a path with a delete on its way, or
above which one is on its way, is no longer promised (`Spared`); and a handler that has been to
the storage server sent its own path or one below it (`SentBelow`). An insertion adds to `L`,
`DeleteNode` of an entry takes one of its insertions out, whichever handler calls it and in whatever
order, and `Own` is then the number of insertions at a node itself (`OwnIs`).

`NoContinuation` says that no name continues another except behind a `/`. It is needed in two
places (`SeparateNames`): the entry that `deletefile` finds with `nextentry` must be the path or below
it, and a `deletedir` must not find at its end that its path is a node only because a longer
name passes through it. Without it both properties are false (section 3).

Recursion and sums are reasoned about in first-order terms. `Smallest` (from the library's
well-founded induction) gives the least counterexample of a set of numbers; `Recursion` and
`Followed` derive from it that a function defined from its value one before exists and has its
equations, with the step as a function, not as an operator. `Pruned` and `Dropped` are
instances, and what they preserve (`PrunedIs`, `PrunedCounts`, `DroppedIs`) is shown by the
least number of deletions at which it would not hold. `SumIs` does the same for the sum over a
node's children.

`NameSpaceAssumption` asks for a finite set of paths (a command has a bounded length), for `Hash` to be
defined on every text that a handler looks up (`Texts`: the paths and their prefixes), and that
each path is one of its own components, that is, ends in a name. `Paths`, `Copies`, `Commands`, the hash, the
buckets and the capacity are otherwise arbitrary.

The proofs go action by action: one lemma per action or group of actions for the part of
the invariant it touches, lemmas on `P`, `V`, `Posted`, the trie's and the cache's operators and the
placement of replicas, and the temporal step at the end.

Only model-checked: every liveness property, as TLAPS does not reason about fairness or `ENABLED`
here, and the three violations, which are facts about single behaviours. Every safety
property of a passing run is a theorem. Nothing is
proved where the conditions above do not hold, that is with `"late"`, `"coalesce"`,
`"soon"` or `"halfway"` in `Events`, with server 1 in `Sources`, two clients in `Copiers` or names that
continue one another: section 3 says which properties are false there.

## 7. Not modelled

- **Two calls on the trie or the cache at the same instant.** They are data races in the code;
  here each call is one step.
- **Listings**: `ls`, copydir's list of entries and what it creates in the trie. Their lists
  come from functions without a return statement (`Tries.c:3`, `Tries.c:11`).
- **A path that is listed and not on the disk** when its contents are asked for: the storage
  server answers nothing (`Storage_server.c:253`) and the handler waits. `NameSpace` reaches such
  paths, but has no contents.
- **Registration with an index out of range**, failing `accept`, and what a command sent on a
  stale descriptor does.
- **A reader that exits** while its storage server sends (`SIGPIPE`), retries of a client's
  connection to a storage server, `info`'s data.
- **Message boundaries**, except in the events `"coalesce"` and `"short"`: a request or a reply
  is one message.
- **Signals and socket errors elsewhere**: `SIGPIPE`, a `send` returning 0, `accept` failing,
  `SIGINT`, and memory that runs out.
- `block_client[]`, which only its own client's thread ever waits for.
- Files of several chunks, nested replica paths, listings longer than their buffer.
- The command queue and the hash table (not used by the program), logging, printing, the
  client's parsing of its command line, `test.c`.

## 8. Plan

Done: everything in the table of section 2, with the theorems of section 6. To come, most important first:

1. Listings and copydir in `NameSpace`, and contents of paths that are gone in `DataPath`, so that
   the wait at `Storage_server.c:253` is reached.
2. An abstract cache (a bounded map with a recency order) and the conditions under which
   `LookupCache` implements it: no deletes, and no two paths in one bucket.
