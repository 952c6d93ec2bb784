# Verification of cloud-drive-demo

TLA+ modules, TLC configurations and TLAPS proofs for the server and the client of
cloud-drive-demo, written from the C sources under `src/`. `PROJECT.json` lists components, runs,
mutants, the map from definitions to source lines, findings, hazards and theorems.

## The system

- **Server, main thread** (`server/main.c`, `handler_event.c`): creates the pools, the wheel and
  the session table; then an epoll loop accepts clients, reads one request packet, authorizes it,
  takes the descriptor out of epoll and the timing wheel and hands a task to the pool. A timerfd
  drives idle expiry; SIGINT arrives by a pipe.
- **Thread pool** (`thread_pool.c`): bounded queue, one mutex, two condition variables.
- **Database pool** (`database_pool.c`): a stack of MySQL connections, one condition variable.
- **Task entry points** (`handler_basic.c`, `handler_transfer.c`): a short command runs and gives
  its descriptor back to the wheel and epoll; puts and gets keep theirs and close it.
- **Session table** (`session.c`): session ids, connection bindings and counters, under one mutex.
- **Timing wheel** (`timer_wheel.c`): idle deadlines of descriptors waiting in the loop.
- **Storage**: tables `paths` and `files` (`dao_*.c`, `database*.c`), content under
  `storage_root/<sha256>`, partial uploads in `<sha256>.part`.
- **Client** (`client/`): a main thread with a control connection, a session and a mirror of the
  remote directory; a transfer manager with one detached thread and one connection per transfer.
- **Common** (`common/`): packet framing, path normalization, hashing, logging.

## Modules

| Module | Models | State and actions |
|---|---|---|
| `TimerWheel` | `timer_wheel.c` | clock, cursor, deadlines, slots, and the clock readings threads hold; `Track`, `TouchRead/Apply`, `Remove`, `AdvanceRead/Lock/Slot/Unlock` |
| `SessionTable` | `session.c` | both indexes, lists, counters, cwd; one action per exported operation |
| `ServerLoop` | the loop of `main.c`, `handler_event.c`, task entry points | descriptors, epoll, wheel as a set, batch, queue, workers; instantiates `SessionTable` |
| `TaskQueue` | what the thread pool promises | bounded queue (abstract specification) |
| `WorkerThreads` | | the workers, shared by the two pools |
| `ThreadPool` | `thread_pool.c` | queue, shutdown, where each thread is, a creation that may fail half-way; implements `TaskQueue` |
| `DatabasePool` | `database_pool.c` | the stack, the handles, where each worker is with the pool; create, acquire, release, execute, destroy |
| `ServerPools` | `main.c` from start to exit | `ThreadPool` and `DatabasePool` together, what main has created and the order in which it undoes it |
| `ContentStore` | mkdir, rmdir, rm, puts and their SQL | rows, the `files` row of one content, inodes, what each worker is doing |
| `TransferStream` | `run_upload`/`run_download` with `handle_puts`/`handle_gets` | both ends, two bounded channels, the `.part` files, the table, the store, the local files |
| `TransferService` | what the transfer manager promises | running, ended and reported transfers (abstract specification) |
| `TransferManager` | the manager of `client/transfer.c` | list, events, cancel flags, descriptors the kernel reuses, the step of each thread; implements `TransferService` |
| `PathNormalize` | `normalize_cd_path` | an operator, and as reference the relation `LeadsTo` between tokens and the path they lead to |
| `Client` | `client/main.c`, `command.c`, `runtime.c`, `user_auth.c`, `connection.c` | the main thread, its session and mirror, packets under way, the server's end; extends `TransferManager` |
| `*Proofs` | | theorems |
| `MC*` | | instances for TLC |

How they compose: `ServerLoop` instantiates `SessionTable` and changes the table by its operations
only. `ServerPools` extends both pools, `Client` extends the transfer manager and uses
`PathNormalize`. The wheel and the queue of `ServerLoop` are abstractions of `TimerWheel` (an
advance may expire any tracked descriptor) and `ThreadPool` (a bounded sequence); these two are by
construction, not checked.

Names ending in `Mutant` are wrong variants of the definition that follows them; they are used
only to show that a property can fail.

### Abstractions worth knowing

- `TimerWheel`: `tv_nsec` has two values; a touching thread waits less than the timeout for the
  mutex (`MaxLag < Timeout`). `timer_wheel_touch` has no caller in the server, only in tests.
- `SessionTable`: a drawn id is never drawn again (it is random; collisions with a live session
  are retried by the code).
- `ServerLoop`: whole packets arrive, one outstanding request per connection. `conn`,
  `accepted` and `bound_by` are ghosts that number connections, so that reuse of a descriptor
  number is visible.
- `ThreadPool`, `DatabasePool`: what a thread does between taking the mutex and giving it up is one
  step; spurious wake-ups are steps of their own. A statement on a connection succeeds or fails.
  The code that `database_pool_execute` reads after its release has no value in the model: the
  task goes on whatever it is.
- `ContentStore`: one content hash; `rm` and `puts` are split at each SQL statement that another
  session can fall between and at the file-system calls, with two merges: fstat with ftruncate,
  and access with the unlink after it. The DELETE/UPDATE/SELECT part of `dao_rm_file` is one step.
  InnoDB's REPEATABLE READ and the unique keys are assumed. `Abort` ends a command anywhere
  (error, lost connection or crash); a crash that loses unsynced file data is not modelled. A new
  part needs a free inode (`FreeInodes`); `Inodes` is large enough in each run that one is free.
- `TransferStream`: a version is a sequence of blocks and stands for its SHA-256; a packet of data
  is one block; a socket's buffers hold `Cap` packets. One conversation at a time: an attempt starts
  when the server is done with the one before. Races between the handlers are in `ContentStore`.
- `TransferManager`, `Client`: what happens on a transfer's socket is `TransferStream`; here a
  transfer ends well or badly. The server's side of the control connection answers one request at a
  time, may answer late, may drop the connection, and answers rm twice when unlink fails. The client
  then goes on as the code does, taking each answer for that of the command before it; `MaxDoubled`
  bounds the sessions in which this happens and `MaxDrift` the commands after it. Names in cds are a
  few tokens.

## Runs

| Run | Instance | Shows |
|---|---|---|
| `timer_wheel` | 2 fds, timeout 2 (3 slots), half seconds, clock to second 7 | slots and hash agree; the cursor never passes a due node; one turn suffices; never early |
| `session_table` | 3 fds, 4 ids | indexes, lists, counters agree; a session lives while it has a connection; no connection changes session |
| `server_safety` | 2 fds, 2 ids, 2 workers, queue of 1, 2 connections | one owner per descriptor; events, bindings and tasks belong to the connection they name; a task keeps its session and its connection until its worker closes it |
| `server_liveness` | 4 connections of 1 session, 1 worker, queue of 1 | with the worker busy, the queue full and the loop waiting for room, tasks end, input is seen and shutdown completes |
| `thread_pool` | 3 workers, capacity 2, 3 tasks, 2 connections, 1 database call per task | both pools from a start-up that may fail to the exit: no lost wake-up of either; refinement of `TaskQueue`; add and destroy return; connections conserved; all that was created is destroyed, after its last user |
| `store_serial` | 1 worker, 3 paths, sizes 1 and 2, good and bad data | references exact, content present and verified, tree connected |
| `store_races` | 2 workers, all commands, good data | what survives races: references not over-counted, part is a prefix, nothing inside a file |
| `transfer_stream` | 3 contents (two blocks, one, none), buffers of 1 packet, 2 attempts, 2 changes | success is reported only for what was done; store and target hold whole contents only; no block is skipped or repeated; the two ends never wait for each other, and every attempt ends |
| `client` | an upload and a download, 3 descriptors, 2 sessions, 3 arguments of cd | memory and descriptors are safe against the stop; refinement of `TransferService`; session and mirror are right at each prompt; leaving ends |
| `rm_against_puts` | 2 workers | **violated**, see findings |
| `puts_against_puts` | 3 workers | **violated**, see findings |
| `refs_under_races` | 2 workers | **violated**, see findings |

Why the bounds are enough for the cases that matter: the clock covers two turns of the wheel; four
ids over three fds let sessions share connections, end, and be followed by others; two connections
on two fds include the second connection reusing the first one's number; a queue of one is often
full and often empty. `server_liveness` starts with four idle connections, since that many are
needed at once: one that the worker serves, one queued, one whose task the loop holds while it waits
for room, and one whose input must still be seen. Three workers let a signal go to one
of several sleepers, and two connections for them make one wait; two chunks allow an interrupted
upload; two rows beside the root in `store_races` are a directory and its entry, two paths of one
content, or a path that is removed and made again (its three properties are proved for any number);
with buffers of one packet an end blocks on nearly every send, and two attempts and two changes let
a part of one version be resumed with another; three descriptors are reused as soon as one is
closed, and the second session shows a re-login. One command after an rm that answered twice
(`MaxDrift`), in one session (`MaxDoubled`), is enough for the mirror to drift. In `client` both
transfers fit the limit and have different targets: that `MaxConcurrent` and one transfer per target
are respected in general is part of `ManagerIsService`. In `server_safety` and the two-worker stores
symmetric values are permuted; no liveness property is checked under symmetry. Deadlock is not
checked where the system may stop (exited server or client, destroyed pool) or where a bound ends
the run.

### Fairness

- `ServerLoop`: weak fairness of the loop and each worker (threads are scheduled), strong fairness
  of `Rearm` (a worker waiting for the wheel's mutex gets it although the loop takes it again every
  second). A failed allocation (`AddFails`) is possible before the loop waits for room, and never
  fair: a loop that waits is freed by a worker only. `EndTransfer` is part of the worker's fair
  step: liveness assumes that transfers end. A peer that stalls one keeps a worker busy, and a peer
  that sends half a packet blocks the loop in `recv_n`; both are outside the model.
- `ServerPools`: weak fairness of each worker and of main; spurious wake-ups, new tasks and the
  decision to stop are not fair.
- `TransferStream`: weak fairness of either end, which sends when there is room and receives when
  there is a packet. Timeouts, failures and the environment are not fair: `TransferEnds` holds
  without any timeout.
- `Client`: weak fairness of the main thread's own steps, the timeout of a waiting command included
  (`connection.c:136` sets one), and of each transfer's thread; the user and the server are not fair.

### Findings

1. `rm_against_puts`: `dao_rm_file` commits before `handle_rm` unlinks (`handler_basic.c:762`).
   An upload of the same content that creates the `files` row and the stored file in between loses
   the file: a listed path with no content. `docs/overview.md:13` promises removal only at
   reference count zero.
2. `puts_against_puts`: an upload verifies its descriptor but renames by name
   (`handler_transfer.c:374`). Two uploads that share and verify one part, and a third that opens a
   new one after the first rename: the second rename publishes the unfinished part.
   `docs/overview.md:166` and `docs/phase-3-database.md:510` promise verification first.
3. `refs_under_races`: `dao_link_existing_file` does not look whether its UPDATE of `refs`
   affected a row (`dao_transfer.c:40`). When `rm` deletes the row between the lookup by hash and
   the link, the new path leads to a file id that no longer exists. `docs/phase-3-database.md:227`
   defines `refs` as the number of paths. A second way to the same violation: two `rm` of one
   path both decrement `refs`, since the affected rows of the DELETE are not looked at either.

Two more properties of `store_serial` fail once two workers run, as TLC shows when they replace
the invariants of `MCContentStoreRaces.cfg`: `ContentPresent` (a consequence of finding 1) and
`TreeConnected` (an entry made between the emptiness check of rmdir and its DELETE is orphaned,
although `docs/phase-1-basic.md:209` says that rmdir "Removes an empty directory").

Met while modelling, not checked by a run:

- `handle_rm` answers twice when the unlink fails (`handler_basic.c:764`); every later reply on the
  connection then answers the request before it. `Client` goes on after such an rm, and the mirror
  of the directory may be wrong until the next connection; `MirrorAgrees` exempts it there.
- `database_pool_execute` reads the error code of a connection it has released
  (`database_pool.c:142`), so that a duplicate key may be taken for another error, or the reverse.
- A client's part that is not a beginning of the remote file (the file was replaced between two
  attempts) is kept after the failed verification (`client/transfer.c:439`): the target stays
  right, but every later download of it fails until the part is removed by hand.
- At the end of its input the menu of the client repeats "Invalid choice" (`user_auth.c:77`).
- `pool_size` is not checked (`config.c:43`); with 0 every task waits for a connection for ever.

## Proofs

The theorems hold for all values of the constants under the named assumptions of the modules, and
nearly each states a property that a run also checks. The bounds
(`MaxTasks`, `MaxConns`, `MaxAttempts`...) are constants too, and arbitrary.

- `TimerWheelProofs`: `WheelInv = TypeOK /\ SlotsMatch /\ NoneOverdue /\ ClockAhead` is inductive.
  `NoneOverdue` alone is not: a walk frees only the nodes of one slot, so a node due at the cursor
  must be in it (`SlotsMatch`), and a node linked now must lie ahead of a cursor that does not run
  ahead of the clock (`ClockAhead`). Theorems: `TypeCorrect`, `SlotsAlwaysMatch`, `NeverOverdue`,
  `SlotsSuffice`, `ExpiryNeverEarly`. Assumed: `Timeout` and `NanosPerSecond` positive,
  `MaxLag < Timeout`.
- `SessionTableProofs`: `TableInv = TableTypeOK /\ IndexesAgree /\ CountExact /\ LiveIffBound /\
  FreshIds`. Detaching frees a session by its counter, which is exact only if the indexes agree;
  creating one overwrites the list of an id that must be fresh. Theorems: `TableTypeCorrect`,
  `IndexesAlwaysAgree`, `CountAlwaysExact`, `LifetimeIsConnections`, `SessionsNeverSwitch`.
- `ServerLoopProofs`: `LoopInv` says that a task is in one of three places (main's hands, the queue,
  a worker), that no two tasks have one descriptor (`Distinct`), that a descriptor is watched by the
  loop or held by a task (`Owned`), and that tasks, events and bindings are of the connection they
  name (`Bound`, `Events`, `BindingsFresh`). `OwnedOnce` alone is not inductive: that a close
  disturbs nobody needs `Distinct`. Every step is an operation of the table or leaves it alone, so
  `TableInv` is taken over from `SessionTableProofs` by INSTANCE. That a task keeps its connection
  (`Kept`) follows because a step either leaves the number of a held descriptor as it is or takes
  the task off it: the loop closes only what it watches, and accept gives out only what is closed.
  Theorems: `DescriptorsOwnedOnce`, `EventsStayFresh`, `BindingsStayFresh`, `TasksStayAuthorized`,
  `TasksStayOnConnection`.
- `ServerPoolsProofs`, first for the pool: `PoolInv = TypeOK /\ Places /\ NoLostWakeup`.
  `NoLostWakeup` counts the workers on their way to the mutex against the queued tasks; `Places`
  ties the main thread's place to the flag, the queue and the workers that exist. Theorems:
  `PoolTypeCorrect`, `NeverLosesWakeup`, `JoinDrains`, `PoolIsQueue` (the safety half of
  `ImplementsQueue`). Then for the server: `PoolInv` carries over since each step of the server is
  one of the pool or leaves it alone. `MainInv` says how far main is with its resources, hence that
  nobody uses the database pool unless it is open, on which `ConnInv` rests: each connection in one
  place, and as many woken workers as free connections while any waits. Theorems:
  `ServerNeverLosesWakeup`, `ServerExitsClean`, `NeverLosesConnection`, `ConnectionsConserved`.
- `ContentStoreProofs`: `StoreInv` keeps of what a command has looked up what stays true although
  others act: a parent's id is never that of a file since ids are not given out twice, and a path to
  remove leads to the file it led to. `Disk` adds that every inode being written is a beginning of
  the content. Theorems: `NothingInsideFiles`, `RefsNeverOvercount`, and `PartIsPrefix`, the last
  for clients that send what they announced (`HonestClients`).
  The findings show that the other properties of the store fail when certain commands race; they are
  proved for every setting without that race, aborts at every step included:
  - `RefsStayExact`, `ContentStaysPresent` and `UnlinksOnlyUnreferenced` under `RmAlone` (one worker,
    or any number and no rm), from `Counted`: what a command that counts on the file has looked up
    still is so. An upload that links needs the row it found, one that creates the row needs the
    stored file, and rm needs both its path and the file's row between its statements.
  - `TreeStaysConnected` under `RmdirAlone` (one worker, or any number and no rmdir), from `Rooted`: a
    command inserts in a directory that is still there, rmdir deletes one that still is empty.
  - `StoredIsVerified` under `OneWorker`, from `Solo`: the part that was verified is the one renamed,
    and the stored file is never open for writing. Clients may send anything here.
- `TransferStreamProofs`: `StreamInv = Shape /\ Store /\ Download /\ Upload`. A channel is known by
  the set of its packets. The server's file is as long as the server believes, and verified only
  when it is as long as announced; the server's ACK is the last it says and implies that the path is
  linked. Theorems: `StoreStaysHonest`, `DownloadsAreWhole`, `UploadsAreLinked`.
  `ResumesAreSound` needs the order of the packets too. `OrderInv = Blocks /\ Receiving /\ Sending`
  says that the blocks under way follow, one by one, what the receiver has; that the sender is ahead
  by exactly their number; and which packets can be under way at each pair of places of the two
  ends. It assumes `SizesFit`: a size is below the range of the size field, which is 64 bits wide in
  the code (`protocol.h`) and four small digits in the model, so that a size is read as it was
  written (`RoundTrip`).
  `EndsNeverBothWait` (`NeverBothWait`) adds `TurnInv = Announced /\ UploadTurns /\ DownloadTurns`:
  both ends of an upload count to the size that was announced, and what an end still expects is,
  packet by packet, under way or still to be sent by the other one. A server that waits for data has
  then a client that is still sending, or as many packets under way as it needs; and so on for each
  pair of places; the last packet of an end, an error or the final acknowledgement, waits for room
  like any other. It holds for any `Cap`, even buffers of one packet, and also when the local file
  changes during an upload. `StepsAdvance` (`StepAdvances`) gives the measure: each step of an end
  moves it to a later place (`ClientRank`, `ServerRank`) or leaves it fewer blocks to send or
  receive. The two are what `TransferEnds` rests on beside fairness.
- `ClientProofs`: `TransferInv` says for each step of a transfer's life which fields are set
  (`Lives`), whose each descriptor is (`Owned`), what the stop has done (`Stop`), and what is in the
  list of events (`Queued`). Theorems: `TransfersOutliveNothing`, `StopReachesEverySocket`,
  `ManagerIsService` (the refinement of `TransferService`).
  `MirrorStaysTrue` rests on `MirrorInv`: with an open connection at most one request or one reply is
  under way, it belongs to the pending command, and the session is the one of the server's end; a
  reply to cd carries the server's directory, and before any other reply the mirror is right
  already. This is for connections on which rm has not answered twice. `SessionInv` holds on the others
  too: any number of requests may be under way, but all are the session's, so that its id and the
  server's directory stay right although the client's may not. Assumed of `Args` is their shape
  (`ClientAssumption`).
- `PathNormalizeProofs`: that the directory is where the cds lead needs more than `LeadsTo`: `Traces`
  also counts, for each name that stays, how many `..` it still withstands. `NormalizeIsReference` says
  that `normalize_cd_path` computes the path its argument leads to, for every argument, and that there
  is only one.

The library's induction theorems take an operator as parameter and cannot be used here; induction
over the tokens is done by the lemma `NatSet` (a set of naturals with 0 and closed under +1 is
Nat), which follows from the well-foundedness of < on Nat.

Only model-checked: every liveness property (`TaskFinishes`, `InputServed`, `ShutdownCompletes`,
`CallsReturn`, `TransferEnds`, `ExitCompletes` and the liveness half of `ImplementsQueue`), since
fairness and ENABLED are out of the prover's reach. What is proved of them is the part without
fairness: `NoLostWakeup` and `NoLostConnection` for the pools, `EndsNeverBothWait` and `StepsAdvance`
for a transfer; that an end which does not wait can take a step remains with TLC. Every safety
property of a passing run is proved; the ones of `store_serial` under the hypotheses above, without
which TLC refutes them.

## Not modelled

- The bytes of a packet and a packet that arrives in pieces: `protocol_recv_packet` is one step. The
  loop reads with blocking calls (`handler_event.c:95`), so a peer that sends part of a packet stops
  it; a timeout of that read is not in the code, and with the wait in the model every liveness
  property of the loop would only say so.
- Password hashing, SHA-256, the text of replies, and the lengths of paths and buffers: data that no
  property here tells apart.
- What gets makes of a directory's NULL columns (`dao_transfer.c:178`), which is up to the C library.
- Schema creation, configuration, logging, menus and terminal: start-up and input/output without
  protocol state.
- `server/event_handler.c`, which is not built.
