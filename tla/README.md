# A TLA+ model of Wukong

Wukong is a distributed RDF store. It answers SPARQL queries from a graph kept
in the memory of all servers, over RDMA where there is RDMA and over TCP
otherwise. This directory models the parts of it that run concurrently and the
way of a query from its plan to its answer, checks them with TLC on small
instances, and proves six of them correct with TLAPS for every size: the ring
buffers that carry all messages, the hash table that all look-ups go through, the
console that keeps the proxies of all servers in step, the edges of a dynamic
store with the cache of remote readers, the keys and indexes of a store that
threads load into, and the flushes of the loader.

All paths below are relative to `src/core/`. `PROJECT.json` maps every
definition to the lines it models, and lists components, runs, mutants,
findings, hazards and theorems.

## 1. The system

A server is one process. It has `global_num_proxies` proxy threads, which talk
to users, and `global_num_engines` engine threads, which execute queries.
Proxy 0 of a server is its leader, and the leader of server 0 is the master.

| Part | State | Operations | Interacts with |
|---|---|---|---|
| Ring buffers (`rdma_adaptor.hpp`) | a ring of words per pair (thread, sending server), its tail, its head, the published copy of the head | `send`, `check`, `fetch`, `recv`, `tryrecv` | all threads |
| TCP adaptor (`tcp_adaptor.hpp`) | ZeroMQ sockets | `send`, `recv`, `tryrecv` | all threads |
| Console (`console.hpp`) | the barrier's counters, options | the command loop of each proxy | proxies, MPI |
| Proxy (`proxy.hpp`) | messages to send again, the emulator's counters | `run_single_query`, `run_query_emu`, `gstore_check`, `dynamic_load_data` | engines |
| Engine (`engine.hpp`) | messages to send again, the queue of runnable queries, the reply map | `run`, `execute_sparql_query`, the executors | engines, proxies, store |
| Query (`query.hpp`) | state, step, result table, pattern groups | `inherit_union`, `inherit_optional`, `merge_union`, `append_result`, ... | engine |
| Query IDs (`coder.hpp`) | a counter per thread | `get_and_inc_qid`, `sid_of`, `tid_of` | engine, proxy |
| Hash table (`gstore.hpp`) | buckets of keys, indirect headers, two kinds of locks | `insert_key`, `check_key_exist`, `get_vertex_local`, `get_vertex_remote` | store |
| Graph store (`gstore.hpp`) | edges, indexes | bulk insertion, `insert_vertex_edge`, `get_edges`, `gstore_check` | engine, loader |
| Statistics (`data_statistic.hpp`) | counts of predicates and types | `generate_statistic`, `gather_stat`, `load_stat_from_file` | store, planner, other servers |
| Planner (`planner.hpp`) | the path and records of its search | `generate_plan` | proxy, statistics |
| RDMA cache (`gstore.hpp`) | cached headers with leases | `lookup`, `insert`, `invalidate` | engine, store |
| Buddy allocator (`buddy_malloc.hpp`) | headers, free lists, two locks | `malloc`, `free`, `merge_freelists` | store |
| Loader (`dgraph.hpp`) | buffers per thread, pieces of memory per server, lists of triples | `load_data`, `aggregate_data`, ... | store, other servers |

The string server, parser, monitor, configuration, start-up and the data
generator are sequential, or only read. They are listed in `PROJECT.json` as not
modelled.

What makes these parts hard:

- **Ring buffers.** Several writers fill reservations at the same time. The reader
  polls words that arrive one by one. The writers see an old copy of the head.
- **Console.** Proxies wait for each other in three ways (MPI, a spinning
  counter, messages), and run ahead of each other.
- **Engines.** Engines send to each other over bounded queues. A query is divided
  into sub-queries that are divided again, and each division has to be joined
  exactly once. With work stealing two threads serve one queue.
- **Dynamic store.** Readers take no locks, also those on other servers, while
  edges are appended, moved and freed. A cached pointer may be out of date.
- **Hash table.** Threads extend chains under locks that several buckets share,
  while readers follow the chains without any.
- **Planner.** The search puts records on stacks and takes them back on every way
  out; it may declare a query empty, and that answer is never checked again.
- **Loader.** All threads write into the memory of all servers.

## 2. Modules

| Module | Models | State and actions |
|---|---|---|
| `RingBuffer` | one ring, word by word | A writer: `Send`, `Full`, `Retry`, `Reserve`, `WriteWord` (`send()`). The reader: `check`, `ReadHeader`, `CleanHeader`, `WaitFooter`, `CleanFooter`, `CopyData`, `Advance`, `Publish` (`check()`, `fetch()`). |
| `Channel` | what a ring promises: a FIFO channel | `Send`, `Receive`; `RingBuffer` implements it. |
| `Adaptor` | the rings of one thread, one per server, byte by byte | `Send` (the copies of `send()`, split where the ring wraps, local and remote), `Recv` and `TryRecv`: one round of the loops of `recv()` and `tryrecv()`, chosen in `Init`, with `fetch()` |
| `Console` | `run_console()` of every proxy | one action per blocking step of the loop and of the commands `config`, `load-stat` and the emulator; a command whose file is missing is one of its own |
| `Query` | the query object and the pure part of its execution | executors of patterns, FILTER, division, merging, the reply map, all as operators |
| `Meaning` | nothing in the code: the solutions of a group by definition | the reference for `Answered`, `PlanAnswers` and `Page` |
| `Engine` | engines and proxies of all servers | `EngineStep(e)`: sweep, receive, execute up to the next send; `ProxyStep(p)`: send, receive, new round |
| `Statistics` | `generate_statistic()` and `gather_stat()` on all servers | each server counts and sends its part, the master sums them up in the order they arrive and sends the sums |
| `Planner` | the depth-first search of `com_traverse()` | operators on a record that is the planner's mutable state; costs are exact ratios, or not a number |
| `Results` | `final_process()` | DISTINCT, ORDER BY, OFFSET, LIMIT and projection on sequences of rows |
| `SingleQuery` | `run_single_query()` | `Gather` (the statistics), `run_single_query` (the plan), `Execute(s)` (a server's part), `Finish` |
| `HashTable` | the header region of the store | `Lock`, one bucket per step of a holder of the lock, `ExtLock`, `Link`, `Fill`, `Unlock`; one slot per step of a reader without lock |
| `Buddy` | the allocator | `malloc` and `free` per thread with their critical sections, loading and `merge_freelists` |
| `EdgeStore` | edges of a dynamic store and the RDMA cache | every write of an insertion, every read of a local or remote reader, `Tick` |
| `StoreIndex` | normal keys and indexes of one server | the bulk load as a function, later insertions by critical sections; the integrity check as a predicate |
| `Loader` | loading on all servers | reading files, buffers, reservations, RDMA writes, barrier, aggregation |

`Engine` is the composition: it uses `Query` for what an engine computes, and
abstracts the queues of `RingBuffer` and of the TCP adaptor to bounded sequences
that may refuse a message. `RingBuffer` implementing `Channel` is what
justifies this. `SingleQuery` composes `Statistics`, `Planner`, `Query` and
`Results`; the messages between its steps are the subject of `Engine`.
`EdgeStore` leaves open which block the allocator returns; `Buddy` shows that it
is not in use. `EdgeStore` and `StoreIndex` take the header region for a map from
keys to values; `HashTable` is what justifies that.

The modules that end in `Invariant` have the inductive invariant of a component, those
that end in `Proofs` or `Steps` the theorems and lemmas (section 4).

The `MC` modules hold the inputs of the instances. Where one run covers several
configurations, a variable that never changes holds the configuration and `Init`
chooses it: `global` in `Engine` and `SingleQuery`, `blocking` in `Adaptor`,
`plan` in `Buddy`, `check_dup` and `files` in `StoreIndex`, `global_use_rdma` in `Loader`.

## 3. Runs

Sizes are the distinct states TLC finds.

| Run | States | Properties and what they show |
|---|---|---|
| `ring` | 93k | `NoOverwrite`: the cells of unread messages are never given to another one. `InOrder`: messages come out whole, in the order of the reservations. `FooterAssertion`: the assertion of `fetch()` that header and footer agree. `ImplementsChannel`: the ring is a FIFO channel, and what was sent is received. `PendingIsSent`: a message with room behind any head the reader may leave unpublished is eventually accepted. |
| `adaptor` | 23k | `Placed`: at all offsets and paddings, headers and footers lie where `fetch()` looks for them, and all bytes that belong to no message are zero, in the rings and behind them. `FetchedExact`: the oldest message comes out, byte for byte. `Served`: `recv()` serves every server however much the others send. |
| `console` | 381k | `LeadBounded`: how far a proxy can run ahead. `ConfigAlone`, `SameCommands`, `MergedRound`: settings and statistics change while no emulator runs, all proxies carry out the same commands, statistics of different rounds do not mix, all three until an emulation is begun whose input file is missing on some servers. `Quits`: the loop ends with "quit" on all servers, unless a load-stat or an emulation was begun without its file, where comments in the code say that it may hang. |
| `engine` | 113k | `Answered`: the reply to every query is the bag of its solutions, and blind replies report their number. `JoinCount`: the counter of a reply map entry is the number of its sub-queries that are still out. `NothingLeft`: when all users have their answers nothing remains in any queue or map. `AssertionsHold`: no `ASSERT` of an engine fails, so no reply misses its parent and no vertex of another server is read without RDMA. `InFlightBounded`: the emulator keeps its bound. `AllAnswered`: with full queues everywhere, all requests are answered. |
| `engine_slices` | violation | `Answered`, see section 6 |
| `buddy` | 319k | `Disjoint`: no unit is in two places, be they callers, free lists or the way between the allocators. `NoLeak`: blocks cover the heap. `Coalesced`: free buddies are merged. |
| `edge_store` | 139k | `Snapshot`: a read that ends within a lease of the time its pointer was read from the header returns the edges of its key as they were at some moment of the read; the one exception is a key that was cached before its first edge. `LeaseCovers`: for that lease the block of a cached pointer is not reused. `ReadReturns`: a reader does not retry for ever. |
| `index` | 144k | `NormalStored`, `PredicateIndex`: nothing is lost and the indexes are exact. `VersatileIndex`: the indexes of VERSATILE have nothing twice, lose nothing, and leave out nothing but `TYPE_ID` and what two threads bring in from different ends (section 6). `GsckExact`: `gsck` finds a fault exactly when an index vertex has one, but for one entry that it does not look for (section 6). |
| `load` | 352k | `FlushesDisjoint`: concurrent flushes do not overlap. `OutEdgesExact`: every engine gets the triples of its subjects, each once. `InEdgesComplete`: it gets those of its objects, no more often than the files have them. |
| `load_dedup` | violation | `InEdgesExact`, see section 6 |
| `plan` | 15k | `PlanAnswers`: every plan can be executed and gives each solution once; a query gets no plan only if no triple has one of its predicates. `ShortcutSound`: a query that is skipped as empty has no solution. `SearchRestored`: the search takes back all it noted and, with the same exception, finds a path. `Page`: FILTER, DISTINCT, ORDER BY, OFFSET and LIMIT select the right rows, in an order that `Meaning` defines by the values of the rows. |
| `hash` | 510k | `UniqueKeys`: no key is in two slots. `NoLostKey`: a key whose insertion has returned is found by every later look-up. `LinkedWhenFull`: indirect headers are linked once, from full buckets, and not left empty. |

Every property of a passing run has a mutant: a change of one definition, of the
kind a slip in the code would be, with which TLC finds the property violated.

### Bounds

- `ring`: a ring of 8 words, 4 messages of 1 to 3 words, 2 writers: every
  message position wraps, rings fill up, and both writers wait. The head is
  published after half a ring instead of an eighth, so that both a published and
  an unpublished head occur.
- `adaptor`: 2 servers, words of 2 bytes and rings of 6 words; messages of 1, 4
  and 5 bytes start at every word of a ring, with and without padding, and data
  wraps at every word. With smaller words there would be no padding.
- `console`: 2 servers with 2 proxies and 2 commands of any kind before `quit`. A proxy
  that ran ahead could meet another round, and the leaders wait for MPI. The input
  file of an emulation may be missing on server 1 (`NoFile`), that of a load-stat on
  the master.
- `engine`: settings `Forks` (2 servers, queues of one message, IDs that are used
  again after 4, nested forks), `Groups` (UNION, OPTIONAL, FILTER, co-running,
  blind replies), `Slices(4)` (an index divided between 2 of 4 engines) and
  `Rounds` (the emulator, 2 engines that steal, 3 requests of which 2 are in
  flight, over queues of one message). Queries have up to 3 patterns, one of which
  divides them.
- `buddy`: blocks of 1 to 8 units, 2 blocks of the largest size. Either two
  threads that hold 2 small blocks each, or one that holds 3 of any size.
- `edge_store`: 2 keys, one with an edge and one without, up to 3 edges, 2 ticks of
  time with leases of 2, so that blocks are freed and given to the other key. A local
  and a remote reader read any key, one at a time (`MaxReads`); time passes at any
  point of a read.
- `index`: one thread that loads any 3 of 5 triples, or two threads that load 2
  and 1 of 7, some of them in the store already; duplicates are checked or not.
- `load`: 2 servers with 3 threads, 4 files with 7 triples between vertices of the
  same and of different servers, buffers of one triple.
- `plan`: a graph of 12 triples over 2 servers, with 2 types and 3 predicates; all
  connected groups of up to 3 of 10 patterns (with constants at each end, cycles
  and types), 8 queries with a predicate or type that no triple has, all pages of one join, all filters and pairs of them, and 6
  queries with variable predicates, which are executed as written. The
  threshold below which the search stops is scaled from 350 to 4, so that
  searches stop early and go on. Three patterns are the first number at which a
  record is taken back while another one stays.
- `hash`: 3 threads and 4 calls; 3 full buckets of 2 slots, two of which share a
  lock, and 2 indirect headers: chains of both are extended at the same time, a
  chain gets a second key into a new header, and the headers run out.

### Fairness

Fairness is assumed of threads, which the operating system schedules: a writer
or reader of a ring whose step is enabled takes it (`RingBuffer`), and so do
proxies (`Console`, `Engine`), the inserting thread and readers (`EdgeStore`).
Nothing is assumed of users: no run relies on a new request or message.
Engines loop for ever without blocking, so they are assumed to take infinitely
many steps, which is weaker than it looks: `EngineStep` is always possible and
may find nothing to do. `Adaptor` assumes that the thread keeps reading.

### What holds by assumption of the runs

- One reader per ring (section 6 has the case of two).
- RDMA WRITEs are placed in increasing address order and each word at once, as
  the polling of the footer needs.
- The cache of remote readers is on (`Caching` in `EdgeStore`).
- Queries of the `engine` run that are stolen are not divided by UNION.
- Queries of the `plan` run are of the kinds the planner supports (section 5).
- The hash table starts with keys in its main buckets only, in order and each
  key once (`LoadedAssumption`; an empty table is one case). All chains come
  from `insert_key`, which the bulk load calls too.

## 4. Proofs

### Ring buffers

`RingBufferProofs` proves, for every ring size, every set of messages, every
number of writers and every length of behaviour, from `RingAssumption` (sizes are
positive, messages are not empty) and from the assumption of a single reader:

| Theorem | States |
|---|---|
| `Invariance` | the inductive invariant below always holds |
| `TypeCorrect` | `TypeOK` |
| `Ordered` | `InOrder`: what `fetch()` returned is a prefix of what was reserved |
| `Exclusive` | `NoOverwrite` |
| `FooterOK` | `FooterAssertion` |
| `Refinement` | every behaviour of the ring is one of `Channel` (its safety part) |

None of these is inductive: that no cell is overwritten depends on the words that
are still to be written, and on the head the writers see. The invariant

    Inv == TypeOK /\ InOrder /\ LogInv /\ WriterInv /\ RingInv /\ ReaderInv

adds a history of reservations and says

- `LogInv`: the reservations lie one behind the other from the start to `tail`,
  the head is at the start of the first unread one, the published heads are behind
  it, and no more than a ring's length lies between head and tail;
- `WriterInv`: each writer is filling a reservation of the history, and no two
  fill the same;
- `RingInv`: every cell of an unread reservation has the word it should have,
  or zero if its writer has not come so far; every other cell is zero;
- `ReaderInv`: what the reader has read and cleaned so far of its message.

The argument rests on one fact about residues (`ModInj`): two offsets less than a
ring apart lie in different cells. So a write to an unread reservation cannot
disturb another one (`LiveCells`), and `rbf_full`, evaluated on an old head,
refuses more than it must but never less. There is a lemma for each action,
and `Refinement` maps a reservation to `Channel!Send`, the return of `fetch()` to
`Channel!Receive` and everything else to a stutter. `RingInvariant` has the
invariant, `RingBufferProofs` all proofs.

### Hash table

`HashTableProofs` proves, for every number of threads, locks, buckets, indirect
headers, slots per bucket, keys and calls, every hash function and every initial
contents, from `HashTableAssumption` and `LoadedAssumption`:

| Theorem | States |
|---|---|
| `TableInvariance` | the inductive invariant below always holds |
| `KeysUnique` | `UniqueKeys` |
| `KeysFound` | `NoLostKey` |
| `BucketsLinked` | `LinkedWhenFull` |

`UniqueKeys` is not inductive: that a thread may store its key in the slot it has
found depends on what it saw in the buckets before. Chains are described without
recursion by two auxiliary variables that `Link` sets and nothing else depends on:
the main bucket of a chain (`home`) and the place of a bucket in it (`pos`). The
invariant `IInv` of `HashTableInvariant` adds

- `ChainInv`: one bucket at each place of a chain, and a link to the next;
- `SlotInv`: a key is in the chain of its hash value, the slots of a bucket are
  taken from the first one on, and a bucket with a link is full;
- `LockOf(t)`: who is between lock and unlock holds the lock of its bucket, and
  only one thread is about to link;
- `ScanOf(t)`: a holder of the lock has its key in no bucket before the one it is
  at, so that there is room for it where the chain ends;
- `FoundOf(t)`: a key that a reader is bound to find is ahead of it, although the
  chain grows.

The argument is that two threads in one chain have the same lock (`SameLock`), so
nobody else changes what a holder has seen; keys are never removed or moved, so
nothing that is ahead of a reader can get behind it. The steps that leave the table
alone come first, most of them by one lemma (`AlonePreserves`); `PutPreserves` is
shared by the two ways to store a key.

### Console

`ConsoleProofs` proves, for every number of servers, proxies and commands, from
`ConsoleAssumption` (there is a server and a proxy, and files are missing on servers):

| Theorem | States |
|---|---|
| `BarrierLead` | `LeadBounded` |
| `CommandsAgree` | `SameCommands` |
| `EmulationUndisturbed` | `ConfigAlone` |
| `StatisticsComplete` | `MergedRound` |

The barrier lets proxies run ahead of each other, so none of these follows from the
last barrier alone. The invariant `IInv` of `ConsoleInvariant` takes the commands
the master has given out for a log, and says

- `BarrierInv`: the counter of a server is the number of arrivals, and a proxy has
  passed all barriers it arrived at but the one it waits in;
- `LogInv`, `PhaseInv`, `QuitInv`: the commands of a proxy are a prefix of the log,
  where it is fits its last command, and a "quit" is the end of the log;
- `InboxInv`, `LeaderInv`: the queue of a proxy holds the rest of the log, in order.
  That of a leader holds at most one command, and then its settings;
- `MpiInv`: how often a leader has entered `MPI_Barrier` is a function of its
  place and of the commands it has begun (one each, and one more for an emulator);
- `EmuInv`, `MonitorInv`: the master closes no emulation before all proxies have
  sent their statistics, and it has those of a proxy at most once, in its queue or
  merged, and only of the round it is in.

Servers that disagree about the input file of an emulation leave the log: a proxy that
lacks the file does not call the barrier. The inductive invariant is therefore

    ConsoleInv == TypeOK /\ BarrierInv /\ LeadBounded /\ (Whole => IInv)

where `Whole` says that no such emulation was begun. Its first step ends `Whole`
(`MissingStep`), nothing brings it back (`WholeBefore`), and what is left still counts
the arrivals at the barrier of a server.

`LeadBounded` is a counting argument (`PassLead`): the counter of a server is the
number of arrivals of its proxies. When it lets a proxy pass for the k-th time,
either no proxy has arrived more than k times, and then there are too many
arrivals for one to be missing `NumProxies` times, or another one passed
before under the same condition. That a leader is at most one command behind the
master comes from `MPI_Barrier`, and is why a leader never takes settings for a
command. The parts of the invariant for which nothing is counted come first; they
assume `LeadersReady` (at a prompt all leaders have carried out the last command) and
`AllMerged` (as many messages as other proxies are one of each), which then follow
from `MpiInv` and `MonitorInv` by counting. What is used of finite sets is named
(`CountLaws`), a hypothesis of the counting lemmas, and proved at the end of the
module from the library's theorems (`CountHolds`); the theorems have no such
hypothesis.

### Edges of a dynamic store

`EdgeStoreProofs` proves, for all sets of keys and of readers, all sizes of the
memory and of leases, insertions of any keys at the same time (one of each key, as
the lock of the bucket has it), and every choice of blocks by the allocator, from
`EdgeStoreAssumption` (sizes are positive):

| Theorem | States | Condition |
|---|---|---|
| `LeaseOutlivesCache` | `LeaseCovers` | `Caching` |
| `ReadsAreSnapshots` | `Snapshot` | `Caching` |

Reads may take any time; the properties are about a lease from the moment a pointer was
read from the header (`born`), because that is what the pending free of its block
covers. `PowerAssumption` states facts of arithmetic, for which the provers have no
rules: powers of two are numbers, and larger than their exponents.

A reader's answer depends on cells that writers may have freed since it read the
pointer, so the invariant `IInv` of `EdgeStoreInvariant` is about all blocks:

- `WriterInv`: which steps of an insertion go with the room there is in the block;
- `OwnerInv`: a block has one owner, which is a key, an insertion that fills it, or
  the queue of pending frees; two owners share no cell, and the allocator takes
  their blocks to be in use;
- `ContentInv`: the block of a key has its edges and the right flag, given where the
  insertion is; a block that is being filled has the edges and the flag of the
  next size;
- `Safe(k, v, t)`: the block of pointer `v` is that of `k`, or it is pending until
  `t` at least, still has its edges, and its flag says that it is invalid;
- `CacheInv`, `ReaderInv`: the pointers in the cache and those of readers are safe for a
  lease from the time they were read, wherever they have been since;
- `KeyInv`: a key has edges, or a thread at work, only when it is in the header region;
- `SeenInv`: what a reader has copied, and how it compares with the edges that were
  there when it began.

The core is `SafeStep`: no insertion makes a safe pointer unsafe. One that publishes
a new block puts the old one into the queue, for a lease that ends no earlier than
that of any copy of the pointer, since all copies were read before, and only after its
flag is invalid; one that
needs cells takes those of blocks whose lease has ended. `ValidCurrent` is what
`edge_is_valid` is worth: if the flag has the size of the pointer, the pointer has
the size of the key. `EdgeStoreBlockProofs` has the sizes of blocks, types, the
effect of each step of a reader, the owners and the content of blocks.

### Keys and indexes of a store

`StoreIndexProofs` proves, for all sets of triples that are loaded in bulk, all files
that any number of threads load later, with and without VERSATILE and the check for
duplicates, from `StoreIndexAssumption` (the IDs of predicates, of types and of the
index are told apart, as `is_tpid` and `is_vid` have it, and a type has no type):

| Theorem | States |
|---|---|
| `IndexInvariant` | the inductive invariant below always holds |
| `NormalStoredInvariant` | `NormalStored` |
| `PredicateIndexInvariant` | `PredicateIndex` |
| `VersatileIndexInvariant` | `VersatileIndex` |
| `GsckExactInvariant` | `GsckExact` |

All four properties are about the store when no thread is loading. On the way there
a key may have been filled while the entries that follow from it are still to come,
and an index is then neither complete nor without faults. The invariant `IndexInv` of
`StoreIndexInvariant` makes up for that with what each thread still owes at its step
(`Due`), and says

- `ThreadInv`, `KeysInv`: the step of a thread suits its triple, and a key is in the
  header region when it has a value or a thread is between the two halves of its
  insertion;
- `NormalInv`: each triple is stored with its subject and its object or a thread has
  still to do it, and nothing else is stored;
- `OnceInv`: an entry of a derived key is present once, or owed by exactly one
  thread, and never both;
- `CauseInv`: it is present or owed exactly when its cause is there (the vertex has
  the predicate, the type is used, ...);
- `ListInv`: the lists of all vertices and of all predicates, whose entries have two
  causes, one for each direction. If the entry is present or owed while a thread is
  about to look at the buddy key, that key exists already;
- `FileInv`: the threads work on the triples of their files, and what the bulk load
  stored stays;
- `RacedInv`: an entry of these lists is present, or owed, or a thread is about to look
  at the buddy key, or two threads bring it in from different ends.

The first insertion into a key is made under the lock of its bucket, so only one
thread finds the key empty and owes what follows (`EdgeDues`, `MadeCaused`). The check
of the buddy key works like a flag of mutual exclusion: of two threads that fill the
two directions of a vertex or of a predicate, the one that looks second sees the key
of the other, so they do not both insert (`CheckInv`). They may both refrain, but only
then is an entry left out: a thread that finds the buddy key finds it filled by the bulk
load, by itself or by another thread, and `RacedInv` holds that on to the files. When all threads are done nothing is owed, and the
properties follow from the invariant; that the check counts an entry once is a fact
about sequences without duplicates (`InjectiveCount`). `StoreIndexSteps` has the steps
and what the invariant says of the keys at the end, `StoreIndexProofs` the bulk load,
the integrity check and the theorems. In `index` the invariant is not listed; TLC
has checked it on the instances of that run, and on stores loaded without TYPE
triples.

### Flushes of the loader

`LoaderProofs` proves `FlushesDisjointInvariant`, which states `FlushesDisjoint`, for every
number of servers and threads, all files and every size of the buffers, from
`LoaderAssumption`. The invariant `FlushInv` adds that a thread with a reservation has
its triples still in a full buffer for the server at hand (`Reserved`), and that the
counter of the piece is past the end of the reservation: then the next one, which
begins at the counter, cannot reach into it.

### What is only model-checked

- Liveness (`PendingIsSent`, the fairness of `Channel`, `Served`, `Quits`,
  `AllAnswered`, `ReadReturns`), because TLAPS does not prove liveness under
  fairness.
- Plans and answers of queries (`engine`, `plan`). They are computed by recursive
  operators and operators over bags of rows; what these compute for every input
  needs induction over data, which the provers do not do, and TLAPS has no SMT
  backend where there is a `RECURSIVE` operator.
- `Placed` and `FetchedExact` of `Adaptor`, and the results of the loader
  (`OutEdgesExact`, `InEdgesComplete`), which are folds over messages, lists of
  triples and sorted sequences: induction over data again.
- `Disjoint`, `NoLeak` and `Coalesced` of `Buddy`, which hold only for the plans of
  the run (section 6).

## 5. What is not modelled

- `gstore_check` and `dynamic_load_data` of the proxies: requests to all servers
  and a count of replies. What they do in a store is in `StoreIndex`.
- Attributes of vertices (their executors, columns and remote reads) and query
  templates.
- Queries the planner does not support: variable predicates (which have no counts),
  a variable as type, patterns between two constants, a variable at both ends
  of a pattern, and patterns that are not connected. UNION and OPTIONAL are
  not planned in `SingleQuery`; `Engine` executes them.
- The estimates of the planner beyond the choice they lead to: doubles are exact
  ratios, of which 0 / 0 is no number as in the code.
- The TCP adaptor beyond a queue that may refuse a message.
- The static build of the edges, which never move, and several keys in one item of
  the cache.
- Everything that is text: parser, string server, formats of files, options of
  commands, `store-stat`, printing. A string is its rank in the order of
  strings, a regular expression is the set of strings it matches.
- Failures: the code ends the process on a failed assertion and keeps nothing on
  disk, so there are no crashes to recover from.

## 6. Findings and known deviations

Two runs show that the code does not do what a comment in it says.

- **Index slices** (`engine_slices`, `engine.hpp:244`). A sub-query takes the part
  of the index that its thread ID gives modulo `mt_factor`. With 3 engines and a
  factor of 2, thread IDs wrap around and two sub-queries take the same part.
  Rows are counted twice and others are missing.
- **Duplicate in-edges** (`load_dedup`, `dgraph.hpp:454`). `aggregate_data()` removes
  duplicates from `triple_ops` before it is sorted, so a triple that is in the input
  twice may become two in-edges, although `dgraph.hpp:557` says that all triples are
  sorted and deduplicated. `InEdgesComplete` is what holds.

Other deviations were met with the same modules by changing the values of
constants, or while the code was translated. The passing runs leave these cases
out, as said in section 3.

- **Large messages** (`rdma_adaptor.hpp:139`). With a message longer than a ring
  minus the unpublished part of the head, an idle reader never publishes and the
  writer waits for ever, although the message passes the assertion at
  `rdma_adaptor.hpp:215`. `PendingIsSent` is therefore limited to messages that
  satisfy `FitsBehindHead`.
- **Two readers** (`engine.hpp:1760`). With work stealing a neighbour reads the
  queue that its comment (`rdma_adaptor.hpp:52`) gives to one thread. `Readers =
  {r1, r2}` breaks `FooterAssertion`.
- **`tryrecv()` is not round-robin** (`rdma_adaptor.hpp:288`), although the comment at
  line 69 says that each thread uses such a strategy. Its loop starts at server 0 in
  every call, so a server that keeps sending starves those behind it; `Served` is about
  `recv()` only.
- **First barrier** (`console.hpp:74`). The first `console_barrier()` does not
  wait; `LeadBounded` is what holds.
- **Stolen UNION** (`engine.hpp:1552`). The parent of a stolen query's UNION is in
  the neighbour's reply map, and the replies come back to the thief. Setting
  `Rounds` with the query `rich` breaks `AssertionsHold`.
- **UNION without RDMA** (`engine.hpp:1556`). The sub-query starts at a vertex of
  another server and reads it in place (`engine.hpp:798`, `gstore.hpp:577`).
  Setting `Single` without RDMA and the query `rich` breaks `AssertionsHold`.
- **Blind FILTER** (`engine.hpp:1291`). A query that is divided after it was made
  blind and filters afterwards reports no rows. `Filtered` with a blind result
  breaks `Answered`.
- **Buddy race** (`buddy_malloc.hpp:278`). A block that goes to the small
  allocator is marked free outside the large lock; a concurrent large `free` may
  merge it. A plan in which one thread uses small and the other large blocks breaks
  `Disjoint`; the run has no such plan.
- **Dynamic edges** (`gstore.hpp:213`, `386`). The lease of a cached item begins when it
  is inserted, not when its vertex was read, and that of the block's pending free may
  begin in between. The item then outlives the block by the time the reader took, and
  a read through it, or one that itself takes longer than a lease, may return edges of
  another key. `Snapshot` and `LeaseCovers` are about the lease from the read.
- **Keys without edges** (`gstore.hpp:452`). A key is visible before its first edge. A
  remote reader that caches it then has an item of size 0 with no flag to check, and
  finds no edges until the item expires, although the note at `gstore.hpp:337` says that
  cached edges are valid if and only if the flag agrees with the pointer. `Snapshot`
  excepts this answer.
- **No cache** (`gstore.hpp:362`). With `Caching = FALSE` nothing keeps a freed block
  alive for readers, and `Snapshot` fails.
- **VERSATILE indexes** (`gstore.hpp:1138`, `1154`, `1104`). The lists are described as
  all local vertices and predicates (`gstore.hpp:804`). Two threads that
  insert the two halves of a vertex or of a predicate at the same time may both skip the
  list, and a TYPE triple does not put its predicate there; `VersatileIndex` names
  these entries (`Raced`, `Overlooked`) and allows no others. `gsck` finds the former; that TYPE_ID
  is missing from the list of all predicates it does not (`gstore.hpp:1464`), which
  happens when TYPE triples are loaded into a store that had none. `GsckExact` leaves
  this entry out.
- **Success of a UNION** (`planner.hpp:561`). Each part of a UNION overwrites the
  success of what was planned before: an empty last part skips the whole
  query, and an empty first part is executed with its patterns unplanned.
- **Pruned search** (`planner.hpp:161`). When one way to use a pattern is too
  expensive, the other ways to use it are skipped too, although the comment at
  line 122 says that all valid orders are traversed. The plan is right, only
  perhaps not the cheapest.
- **Index vertices in the statistics** (`gstore.hpp:1617`). The comment says that
  index vertices are skipped; the condition skips the lists of predicates, and
  index vertices are counted. `ShortcutSound` holds in spite of it: the counts
  only get larger.
- **Self-loops** (`planner.hpp:415`). A pattern with the same variable at both ends
  puts two records on a stack made for two per pattern, beside the one of the
  index vertex.
- **Emulator and planner** (`proxy.hpp:332`). `run_query_emu` plans without looking
  at the result; a query found empty is executed as written.
- **ORDER BY with blanks** (`engine.hpp:1307`). `Compare` looks the string of the
  second row up under the ID of the first; with blank values it is no order.
- **DISTINCT** (`engine.hpp:1356`). Rows are sorted by all columns and only
  neighbours are compared, so rows stay twice unless the selected variables
  are the first columns. `Page` says so.
- **load-stat without a file** (`data_statistic.hpp:205`). The master returns, the
  other leaders wait for ever, as a comment in the code says ("HANG bug if master return
  here"). `Quits` excepts it.
- **Emulation without a file** (`console.hpp:491`). Proxies of a server that lacks the
  input file return before the barrier that the others call, which a comment at line
  524 says may hang. If the master lacks it, nothing need hang: the servers get out of
  step, and with `NoFile = {0}` and without the condition `Whole` TLC finds settings that
  change while an emulator runs (`ConfigAlone`), and statistics of another round that are
  merged (`MergedRound`).
- **Predicates without triples** (`planner.hpp:204`, `230`, `266`). Their counts are 0, so
  the cost of each path is 0 / 0, no path is accepted, and unless the shortcut for
  empty queries applies the query is sent without patterns: the assertion of `get_start`
  (`query.hpp:212`) fails. `PlanAnswers` and `SearchRestored` allow this for queries with
  such a predicate.
- **Commands to all servers** (`proxy.hpp:395`). A request of `gstore_check()` or
  `dynamic_load_data()` that did not fit is stashed, and not sent again while
  the proxy waits for the replies.
