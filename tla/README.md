# Verification of the Copier clients

The repository holds programs that use *Copier*, an operating-system service
that copies memory on behalf of a process while the process goes on. The service
itself is a kernel thread that is not in the repository; what is there are its
clients: a demo, patched servers (Redis, tinyproxy, a protobuf key-value server,
a TLS server) and micro-benchmarks. All of them replace a copy or a receive that
was *complete when the call returned* by one that completes later. What can go
wrong is therefore the same everywhere: bytes are used before they are there,
changed before they were moved on, or freed while a copy still runs.

This directory models those clients in TLA+, checks the models with TLC and
proves part of what they show with TLAPS.

## 1. Inventory

| component | state | operations | interacts through |
|---|---|---|---|
| ring of copy tasks (`copier.c`/`copier.h` of every client, tinyproxy `buffer.c:58-75`) | `entries`, `write_index`, `thread_read_index`, in tinyproxy a mutex | post a copy; wait for equal indices | memory shared with the service |
| hello-world (`copier-main.c`, `copier.c`) | one `uint16_t` descriptor per block of 1024 bytes | clear descriptors, post the copy of an array, wait per block, unmap queues, delete the thread | ring; descriptors stored by the service |
| redis-6.2-copier-set, receive path | per client: query buffer, `qb_pos`, parser state, `bufferDescriptor`; the key space | receive, parse, execute, trim, block and unblock, close | the receive system call, ring, descriptor |
| redis-6.2-copier-multi-client | the same, ring of 512 | the same; `arecv` resets the descriptor before it drains the ring, the trim is a `memmove` | the same, and several clients |
| redis-6.2-copier-get, send path | per client a buffer, a list of reply blocks, `sentlen`; `clients_pending_write`, write handlers; the values | add a piece of a reply, copy a value into a block, send, free, leave | ring, send system call, event loop |
| libs/protobuf/copier | message buffer, offset, descriptor | receive a message in pieces, parse it in blocks of 64 bytes | the receive call, descriptor |
| libs/openssl/copier and `openssl.diff` | `asyncRecv`, `bufferDescriptor`, sync queue of 16 | receive a record, decrypt behind the descriptor, ask for a piece to be synchronised | the receive call, descriptor, sync queue |
| tinyproxy-copier-{size,threads}, a connection | two lists of buffer lines and their sizes, what is left of the response; the shared ring and heap | receive, append, send, relay between two sockets, flush | poll, ring, other threads through heap and ring |
| tinyproxy-copier-{size,threads}, main loop | list of children, two configurations, signal flags | accept, collect, reload, kill, close | signals, threads, the configuration the threads read |
| micro/syscall/{recv,send}, micro/tp/bench | a buffer | receive or send it, or copy it, in a loop | system calls, ring |
| zIO, redis-6.2-ZC, the baselines | - | third-party or upstream code, measured against | - |

Hard behaviours:

* **Concurrency.** Every program runs beside the service. Tinyproxy has a thread
  per connection, all posting to one ring.
* **Ordering.** A value is received into a query buffer by one copy and copied on
  by another, and the rest of the buffer is moved by a third; the programs rely
  on the service's taking them in order and on their own stores not getting
  between them.
* **Waiting.** Programs spin on a descriptor or on the two indices. A wait for
  something that need not happen stops a single-threaded server.
* **Bounds.** No program looks whether the ring is full.
* **Lifetime.** Buffers, reply blocks and values are reallocated, trimmed and freed
  while copies run; a configuration is freed while threads read it.
* **Failure.** Sends are taken in part or time out, peers reset, clients leave in the
  middle of a message, messages come in pieces, signals come at any moment.

What makes each component correct:

* ring: an exactly-once FIFO; pending entries are not overwritten; equal indices
  mean that all copies are done;
* hello-world: a block is read only when this round's copy of it is in; the end
  of the program does not interrupt a copy;
* Redis: a command runs with the arguments the client sent; a value read is the
  value stored; no copy runs into freed memory; everyone is answered;
* send path: a reply is the value at the time of the command; no copy into a reply
  block hits a value; no cell of a reply is lost or counted twice; every client
  gets all it asked for;
* key-value server: a message is stored as it was sent; the buffer is not used
  again under a copy; every client is served or given up;
* TLS: what `SSL_read` returns was sent, in order; a record does not fail because
  it is decrypted while it is copied;
* tinyproxy, a connection: every byte goes out in its place, of its connection;
  the lists hold what was received and not sent; nothing is kept back for good;
* tinyproxy, the main loop: the list of children is the set of the threads;
  connections are accepted again; signals end or reload, and nothing else.

`PROJECT.json` lists the hazards line by line with the properties that cover
them.

## 2. Modules

| module | what it is |
|---|---|
| `CopierFifo` | what a client may rely on: an unbounded queue of copies, done in order, each once |
| `CopierRing` | the ring with its producers' steps and the service; implements `CopierFifo` |
| `CopierRingProofs` | theorems about `CopierRing` |
| `SmartBuffer` | hello-world: descriptors, rounds, teardown |
| `SmartBufferProofs` | theorems about `SmartBuffer` |
| `RedisRecv`, `MCRedisRecv` | the receive path of the two Redis servers that receive through Copier |
| `RedisRecvProofs` | theorems about `RedisRecv` |
| `RedisSend`, `MCRedisSend` | the send path of the Redis server that copies values into replies |
| `RedisSendProofs` | theorems about `RedisSend` |
| `KvServer`, `MCKvServer` | the key-value server and its block-wise input stream |
| `KvServerProofs` | theorems about `KvServer` |
| `TlsRecv`, `MCTlsRecv` | the TLS server and the patched library |
| `TlsRecvProofs` | theorems about `TlsRecv` |
| `TinyproxyRelay`, `MCTinyproxyRelay` | a connection of tinyproxy: body, buffer lists, relay, flush |
| `TinyproxyRelayProofs` | theorems about `TinyproxyRelay` |
| `TinyproxyChild`, `MCTinyproxyChild` | the main loop of tinyproxy, its threads and signals |
| `TinyproxyChildProofs` | theorems about `TinyproxyChild` |

An `MC` module holds values of constants only. How the modules meet:
`CopierRing` implements `CopierFifo`, and every other client is written on top of
what `CopierFifo` promises, its `tasks` or `pending` being the queue.
`TinyproxyRelay` is what a thread of `TinyproxyChild` does between `dial` and
`finish`, and the heap in it is shared by all connections.

### CopierRing

The steps of `smartInputDescriptorBufferMemcpyAsyncSend` (tinyproxy
`buffer.c:58-75`) are actions: `Call`, `Lock`, `ReadIndex` (the local copy of
`write_index`), `Fill` (the stores to the entry), `Publish` (the store to
`write_index`), `Unlock`. The compiler could reorder the stores of `Fill`, which
are not volatile, with the volatile store of `Publish`; on x86, for which the
programs are built, the stores are in program order in the objects and are seen
in that order, so `Fill` precedes `Publish`. The stores of `Fill` are one action
since the service does not read an entry before it is published. The
single-threaded clients are the case of one producer, for whom the mutex changes
nothing.

`CopierTake` and `CopierFinish` are the service. That an entry is given back
(`thread_read_index` advanced) only when its copy is done is presumed: the
clients wait for equal indices in order to wait for the copies.

`RoomLeft` is the one guard that is not in the code: `buffer.c:64-71` advances
`write_index` without a look at the other index. It is an assumption on the callers,
marked external: they keep at most `MaxBacklog` copies incomplete. A full ring
(hazard `buffer.c:71`) is thus assumed away; its mutant `OneTooMany` shows what
becomes of a ring that is allowed to fill up.

### SmartBuffer

`main` is `Clear` (the `memset` of a round), `Post` (`memcpyAsync`), `Read` (wait
for a block, read it), `EndRound`, `Unmap`, `Delete`. The prewarming rounds and the
evaluation rounds differ in nothing modelled and are one count, `Rounds`. A unit
of the array remembers the round whose copy brought it in. The service
copies blocks in any order and stores to a descriptor any number of times;
`Stored` keeps the width of the descriptor. The array is a whole number of
blocks and has one at least.

### RedisRecv

Bytes are counted in *cells*. A request with a long argument is the cell `M` (the
line with the number of arguments), `S` (the short arguments: command and key),
`L` (the length line of the long argument), `ValueLen` cells `v` and the
line end `E`. A cell in memory remembers who sent it as what, so that a stale byte
can be told from the right one wherever it turns up. `Window` cells stand for
the 10 bytes the server waits for, `Chunk` for the service's granularity.

One action per step of the server's thread:

| action | code (redis-6.2-copier-set/src) |
|---|---|
| `ReadQuery` | `readQueryFromClient` up to the receive call: `sdsMakeRoomFor`, which reallocates in place or elsewhere, with copies into and out of the buffer pending |
| `Recv` | `recvWithsmartInputDescriptorBufferRedis`: wait for the ring, reset the descriptor, receive; `sdsIncrLen` |
| `ParseHead`, `ParseShort`, `ParseLength`, `ParseBulk` | `processInputBuffer`, `processInlineBuffer`, `processMultibulkBuffer`, one line or argument each |
| `StopParsing` | the loop's condition and early breaks |
| `Execute` | `processCommandAndResetClient`, with what SET, GET, EVAL and blocking commands do with the value |
| `Reset` | `resetClient` and the reply |
| `Trim`, `Terminate` | "Trim to pos": the move of the rest, then `s[len] = 0` and the new length |
| `Unblock` | `unblockClient`, `processUnblockedClients` |
| `Close` | a receive that returns 0; `freeClientAsync` |

`CopyCell` is the service, `ClientSend` a client. The ring is the sequence
`tasks`, which `CopierRing` is shown to implement. Received bytes and posted
copies go through one queue of the process; that is what the drain in the receive
call presumes.

`ResetFirst = TRUE`, `AsyncTrim = FALSE` make the module the multi-client server:
`arecv` resets the descriptor, then waits; the trim is `sdsrange`. (There the
reset comes just before the wait, after the reallocation; it is part of
`ReadQuery`.)

When the parser finds something else than it expects, it either takes it for an
incomplete line (a NUL: `strchr` stops there) and waits for more, or it sees a
request that the client did not send there; the connection is then `garbled` and
not followed any further. Whatever the server would do next (an error, or a wrong
command) a client of it is not answered as it should be.

### RedisSend

A reply is a sequence of *pieces*, the arguments of the calls of `addReplyProto`; a
header, a line end and a status are one cell, a value as many as `ValueLen` says.
`expected` and `ends` are history: what the commands promised when they ran. A reply
block keeps, as history too, its `place`: where in the stream its first cell belongs.
`NothingLost` says with it that what was sent, the buffer and the list are together
the whole reply, each block where the one before ends (`Gapless`).

| action | code (redis-6.2-copier-get/src) |
|---|---|
| `Execute` | the command up to its reply: `setKey` frees the old value, `prepareClientToWrite` schedules the client |
| `AddReply` | one piece: `_addReplyToBuffer`, or `_addReplyProtoToList`, which fills the last block by itself and posts the copy of what a new block begins with |
| `Finish` | the rest of the command: GETDEL deletes its key |
| `BeginWrites`, `EndWrites` | `handleClientsWithPendingWrites`, before the server sleeps |
| `BeginWriteTo`, `WriteToClient`, `EndWriteTo` | `writeToClient`: buffer, blocks, `sentlen`, the limit per event, the write handler |
| `Leave` | `freeClient` |

The memory of values and blocks is one heap: `Free` is what `zmalloc` may return,
as soon as it was freed. `SendWaits = TRUE` says that a send call returns when
its bytes were taken, as `send` does; the copies posted before it are then done.
A client in `Impatient` may leave at any time, with copies for it pending; `exposed`
is history: the pieces of heap that were given to a value while a copy into them waited.
`HeapAssumption` says that the heap is none of the other locations: the buffers in the
client structures, the stack, the shared objects. `SendAssumption` has a heap large
enough for the values the keys begin with.

### KvServer

A cell is a granule of a message. `Accept`, `ReceiveLength`, `ReceiveEpochs`,
`PollReadable`, `PollTimeout`, `Drop`, `ResetDescriptor`, `Receive` and
`ReceiveNothing` are the loop of `cpp-kv/kv-server.cc` (the one the Makefile
builds) with the receive call of `cpp-kv/copier.cc`; `StreamNext` is
`ArrayInputStreamCopier::Next`, which waits for the last byte of a block, and the
parser's reading of it; `Store` stores the message and replies.

A client and the server exchange two numbers first. The server's two `recv` have no
timeout, so `ReceiveLength` and `ReceiveEpochs` wait as long as the client is silent;
if it has gone the error is printed and the server goes on with variables that were
never set (`Garbage`), or dies of sending to it (`MayDie`). The buffer is at the same
place of the stack for every client: what is in it at first is what the client before
has left, or `Junk`. A receive that returns 0 or -1 is `ReceiveNothing`: either is added
to the offset.

### TlsRecv

A record is a header, `Length` cells and a tag. The server's loop (`PollReadable`,
`PollTimeout`, `server.c:282-310`), `bio_read` with its two ways of receiving
(`ReadHeader`, `BodyAsync` and `Arecv`, `BodySync`, `server.c:107-131`), and the patch:
`SetTag` asks for the tag with `csync`, `DecryptChunk` is one turn of the loop
in `generic_aes_gcm_cipher_update`, which awaits the *first* byte of a chunk,
`DecryptRest` what is behind the loop, and `SslRead` the check of the tag. The
order in which the library calls these (header, body, tag, update) is external.

### TinyproxyRelay

A thread per connection; `pc` names its place.

| action | code (tinyproxy-copier-threads/src) |
|---|---|
| `HeadIn`, `HeadOut` | the head of the request and of the response, by ordinary reads and writes, into memory of the same heap |
| `BodyIn`, `BodyOut` | `pull_client_data`, `safe_write_copier` |
| `Poll`, `Timeout`, `Interrupt` | `mypoll` of `relay_connection` with the interest set by the sizes of the lists, and its return of 0 and -1 |
| `WriteFreed` | a freed piece of heap is written, by `free` itself or by whoever gets it |
| `Read`, `Add` | `read_buffer_lazy`, `add_to_bufferCopier`; the buffer is freed behind the posted copy; `content_length.server` counts down |
| `Write` | `write_buffer_lazy`: one line after each read |
| `Flush`, `Destroy` | the two loops behind the relay, `conn_destroy_contents` |
| `Fail` | the errors before the relay |

`LazyRecv` and `LazySend` are not in the repository. They are presumed to put
their work into the queue of posted copies; a send reserves its places in the
stream (`out`) when it returns. There is one heap: buffers, lines and heads come from
`Free`, whatever is still to be copied into or out of a piece. A freed piece that a
task has still to read may be written by the processor at once (`WriteFreed`), and so
may one that is given to a head (`HeadIn`); `spoiled` is history, the units this
happens to. `SpoilLimit` bounds `WriteFreed`: it is not taken when as many units are spoiled.
A direction in `Slow` is one whose peer's
window may fill up: a send may then take a part (`SO_SNDTIMEO`, `sock.c:121-129`).

### TinyproxyChild

`Check`, `CollectThread`, `Collected`, the reload (`ReloadFile`, `FreeConfig`,
`SwapConfig`, `Reloaded`: `main.c:247-278`), `PollReturns`, `Accept`, `AcceptFails` and
`Create` are `child_main_loop`: the child is added to the list by `Accept`, and `Create`
makes its thread or, when that fails, takes it off again (`child.c:209-219`).
`KillThread`, `Nap`, `Gathered`, `Close` are the end of `main` with
`child_kill_children`. `SigTerm` and `SigUsr1` come between any two steps of the
main thread; one that comes while it is in `poll` ends the poll. A new configuration
has a `maxclients` of its own (1 to `MaxClients`; a 0, with which nothing is ever accepted,
is not modelled).

A thread goes from `new` over `head`, `dial` and `answer` to `poll`, `finish` and `done`.
It looks at `idletimeout` of the configuration that is in use when it gets to each of
these waits (`Goes`): `limited` says whether the wait it is in has a timeout. In the window
of a reload a read gets no timeout at all (`sock.c:121-129`), and a poll one of 0.
A signal may end a wait with an error or be missed (`Interrupted`). `late` counts the
connections accepted from the first SIGTERM on, `lost` says that a reload has thrown
the flag of one away.

The other variant (`tinyproxy-copier-size`) runs a connection within the main thread. It
also goes on behind the missing `pthread_create` (`child.c:215-220` there) and joins
a thread that was never created, which is undefined; it is not modelled.

## 3. Runs

Deadlock is not checked in any run: the scripts, posts, rounds and connections are
finite and the systems stop.

| run | instance | distinct states | shows |
|---|---|---|---|
| `ring` | 2 producers, 2 tasks, 3 entries, at most 2 incomplete, 5 posts | 47037 | type, exactly once in order, drain, pending entries, implements `CopierFifo`, which is fair: every post completes |
| `smart_buffer` | 3 blocks of 2 units, descriptors modulo 4, 3 rounds | 807 | reads are of this round, no copy at teardown, descriptors only grow, the program ends |
| `redis_set` | 2 clients (set, set, get / get, set), whole reads | 10388 | values read back as sent, no copy into a value that was freed, all answered |
| `redis_split` | 2 clients (set, set, get / empty), reads of any size, a buffer that grows with copies pending | 880650 | types and bounds, right key, nothing but NULs gets into a value |
| `redis_multi` | multi-client server, 2 clients (block, get, ping / get, block), two requests in flight | 8051 | all answered |
| `send` | GET server, 2 clients (getdel, set / two pipelined gets, slow, may leave), values of 2 to 4 cells, buffer of 3, 5 pieces of heap | 204875 | replies as promised, values kept, counters, all replied |
| `kv` | 3 clients, one in pieces, two that may leave, all of which may be silent, messages of 1, 2 and 5 granules, blocks of 2, 2 sockets | 24527 | stored as sent, reuse after copies, served |
| `tls` | 4 records in messages of 2, 7 cells in chunks and granules of 4, strides of 2, pieces of any size | 18660 | read as sent, only torn records fail, all are read |
| `relay` | one connection, body of 2, 3 and 4 units, lists up to 3, 3 pieces of heap, freed ones written, both peers slow, a client that resets | 979592 (with symmetry) | bytes in place, lists exact, flush complete |
| `relay_live` | the same relay, body of 1, 3 units each way, 2 pieces of heap, sends in parts, a client that goes away | 259736 | the server is heard, the connection ends, or a line is forgotten |
| `child` | 2 connections, `maxclients` of 1 or 2, one silent, two reloads and a SIGTERM | 168689 | list exact, one after SIGTERM, accepts again, SIGTERM ends |
| `child_reload` | the same, no SIGTERM | (violation) | a reload drops a connection |

Why the bounds are enough: the ring wraps almost twice in five posts, with both
threads at every step and the ring as full as it may get. Three rounds let a
descriptor of the first round be stale in the second and the queue be torn down
after that; three blocks give a first, a middle and a last one, in any order. In
the Redis runs the buffer holds the rest of a request behind a parsed one, values
are replaced while others are read, and in `redis_split` every cell boundary is
the end of a read and the buffer, with `Prealloc` of 2, moves in the middle of a
value. The properties of `redis_split` were also checked once with a buffer that has
room (values of 4, 310 thousand states) and with a further get of each client (4.0
million), and hold. The two Redis servers differ in two places, each of
which a run makes true and false. In `send` a reply is longer than the buffer and goes
on in the list, a second block follows a partial send, and a freed block or value
is used again for either. In `kv` a message has a whole, a further and a shorter last
block, a buffer is left to a longer and to a shorter message. In `tls` the body
ends within a chunk, a stride and a granule. In `relay` a list has one and several
lines, the limit is hit, and every piece of heap is used again while its old
content is on its way; two connections that share the heap (1 unit up, 2 down, no
body, 2 pieces) were checked once outside the runs, with 3.9 million states, and hold
the same properties. In `child` the
list is full, with one child and with two, empties from the front and the end, and each
signal comes at every step.

Two bounds carry weight, since the code relies on sizes of the service:

* `Chunk` in the Redis runs. The servers wait for ten bytes only and read the lines
  behind them without asking. That this is right depends on the service's
  reporting received bytes in granules of a kilobyte or two (`COPY_GRANULARITY`,
  `COPYLENGTH` in the headers), so that the ten bytes come with all the lines in
  front of a long argument, and short pipelined requests come as one. `Chunk` is
  therefore 3 (the cells `M`, `S`, `L`) in the runs of the SET server and 4 (two short
  requests) in `redis_multi`. TLC finds the properties violated when it is less:
  with 1 `KeyAsSent` in `redis_split`, with 1 or 2 `AllAnswered` in `redis_set`,
  with 1 to 3 `AllAnswered` in `redis_multi`, where the descriptor that was reset
  too early does the harm. Larger values hold.
* `Granule` in `tls`. Only the first byte of a chunk of 960 is awaited; the chunk is
  there as a whole when it does not lie across two granules, and `OnlyTornFail` holds.
  With granules of 1024 or 2048, as the other clients have them, the first chunk to do so
  ends beyond the first granule: records whose body is no longer than one granule are
  safe, and so are all records when a granule is a multiple of a chunk. For longer
  bodies TLC finds `OnlyTornFail` violated (with `Chunk` 3, `Stride` 3 a `Granule` of 5 does
  it, one of 8 holds). Nor may `Length` be a multiple of `Granule`: the tag then has
  a granule of its own that nothing waits for but `csync`; its copy may store to
  the descriptor after that was reset for the next record, and `OnlyTornFail` is
  violated again. A body of full messages and a type byte is no such multiple. The
  same holds for the rest of a torn body, where that is long enough for `arecv`.
  `Aligned` states these conditions; the sizes of the run meet them.

Passing runs keep to what the programs are used for, and where the code goes wrong
their properties name it. In Redis a request that is split in a long argument may
have NULs in the value that is read back, or lose part of it when the buffer moves
(`OnlyNulsIntrude` is about buffers that stay); long requests are not pipelined; the
empty request arrives with bytes behind it or with a window of one cell. In `send` no
SET follows a pipelined GET of the same key, and no header begins a block. In `kv` a
message in pieces is no longer than a block. In `relay` units are spoiled when freed memory is
written, and in `relay_live` a line may be forgotten. What happens is below.

### Disagreements between the code and its tests, comments or documents

`child_reload` is expected to fail: `reload_config` fills the configuration in use
with zeros (`main.c:268`, `conf.c:336`) before it puts the new one in its place
(`main.c:269`); a thread that polls in between has a timeout of 0 and drops its
connection. The manual says of SIGUSR1 that it reloads "without dropping active
connections". In the same window `set_socket_timeout` gives a new connection no
timeout at all, where `tinyproxy.conf` promises one; `AcceptsAgain` names the case
in which such connections take all the room (`Crowded`). A SIGTERM that comes in that
window is lost with the flag it sets.

The following were seen with the same modules and other constants; no run is kept
for them. All are for `RedisRecv` with `Clients = {c1}`, `CHECK_DEADLOCK FALSE`:

| script | constants (`ValueLen`, `Window`, `Chunk`, `Pipeline`, `MinRead`, `ReadLen`, `Prealloc`, `ResetFirst`, `AsyncTrim`) | violated |
|---|---|---|
| `EmptyScript` | 2, 2, 3, 2, 6, 6, 2, FALSE, TRUE | `AllAnswered` |
| `ReadBackScript` | 4, 2, 3, 1, 4, 8, 2, FALSE, TRUE | `GetReturnsSet` |
| `BlockingScript` | 2, 2, 3, 2, 6, 6, 2, FALSE, TRUE | `AllAnswered` |
| `EvalScript` | 2, 2, 3, 1, 6, 6, 2, FALSE, TRUE | `GetReturnsSet` |
| `SetSetScript` | 2, 2, 3, 1, 6, 6, 2, TRUE, FALSE | `KeyAsSent` |

* `EmptyScript`: the server waits for ten bytes of a request (`networking.c:2198`) and
  spins for ever on `"\r\n"`; the test "Handle an empty query" sends just that.
* `ReadBackScript`: `s[len] = 0` (`networking.c:2283`) is stored at once, the
  posted move and value copy read those bytes later; a value that comes in two
  reads gets a NUL ("Very big payload in GET/SET"). And when such a value, of one to
  sixteen megabytes, makes the query buffer grow, `sdsMakeRoomFor` moves the buffer
  (`networking.c:2337`) before the receive call waits for the copies into the old one
  (`copier.c:180`): what was on its way stays behind. `csync_all`, which could wait,
  does nothing (`copier.c:151`).
* `BlockingScript`: with two equal pipelined requests that byte is the
  first one of the second request ("Regression for a crash with blocking ops and
  pipelining").
* `EvalScript`: a command that uses its long argument at once reads it before
  the copy; the comment at `networking.c:1916` calls the command well formed and
  ready.
* `SetSetScript`: `arecv` resets the descriptor before it waits for copies
  that store to it (`redis-6.2-copier-multi-client/src/copier.c:127`); the next
  request is parsed from stale bytes ("Very big payload random access").

And in the other modules:

* `RedisSend`: a value is copied into a reply block later, from where it was. With
  `Slow = {}` and `Script <- Deleted` (GETDEL), `RepliesAsPromised` is violated:
  the value is freed and its memory is used before the copy. So it is with a SET
  behind a pipelined GET of the key, and with a header that begins a block: it is
  composed on the stack and posted from there (`networking.c:374-379, 766-792, 348`).
  With `SendWaits = FALSE` a block that is freed behind its send is used again. A client
  that leaves with copies pending makes a value be hit when its list's memory is given
  to the value (`freeClient`): `ValuesKept` says that these are the only ways, and the run
  has such a client.
* `KvServer`: with `Torn = {c2}`, a message in pieces that is longer than a block,
  `StoredAsSent` is violated: the descriptor is reset with copies of the piece
  before pending, and one of those sets it beyond what has come
  (`cpp-kv/copier.cc:94`). `Served` names the four ways in which a client waits
  for good, all of which the run reaches: another is silent in the exchange of numbers
  (`cpp-kv/kv-server.cc:80`, no timeout); one has left in the middle of a message, and the
  server receives nothing for ever, since `bytes_received` is unsigned; no socket is
  left, since that of a client that was served to its end is never closed; or the
  process has died of sending to a client that left.
* `TlsRecv`: a record whose body comes in two receives fails, or is read when the
  copies were fast enough: the second, short receive clears the flag that makes
  the cipher wait. The comment at `server.c:290` knows of clients that close only.
* `TinyproxyRelay`: the comment at `buffer.c:76-79` says of a new line "The data IS
  copied, so make sure if you allocated your data buffer on the heap, delete it because
  you now have TWO copies". The copy is only posted there; the caller does delete the
  buffer (`buffer.c:404`), and `WriteFreed` or a head that gets the memory spoil
  the units. Without the exception `RelayedInOrder` is violated.
* `TinyproxyRelay`: the comment at `reqs.c:1253-1257` says that the relay can "buffer a
  certain amount for slower connections". The loop polls for writability and never
  looks at the answer: what a partial send leaves in a list waits for the next bytes of the
  other side, and with the list at `MAXBUFFSIZE`, where nothing is read, for
  the idle timeout, which does not come while the peer can be written to: the loop turns
  without a pause.
  `ServerIsHeard` names this wait (`Forgotten`); without the exception TLC finds it
  violated.

## 4. Fairness

Weak fairness of the service, which polls its queues for ever, and of each server's
thread: it is blocked in nothing but the waits that are guards of the model,
and the scheduler runs it. Nothing obliges a producer of the ring to post, a client
to send, or a peer of a proxy to answer. In addition:

* `RedisRecv`: a client sends its next request when it may, and what a blocked
  client waits for happens.
* `RedisSend`: clients read on (`Drain`); strong fairness of `Execute` and
  `BeginWriteTo` per client, since the event loop goes round all ready sockets.
* `KvServer`: strong fairness of `Accept` per client: the kernel's queue is a FIFO,
  so each that connects comes to its front. Clients owe nothing.
* `TlsRecv`: the client writes and what it writes arrives.
* `TinyproxyRelay`: `Drain`, and the timeouts of the sockets and of `mypoll`.
* `TinyproxyChild`: weak fairness of each thread's own steps. What a `Silent`
  peer says is not among them; that a poll ends is, if only by its timeout. Strong
  fairness of `Accept`: it does not fail for want of a descriptor for ever.

## 5. Proofs

All proofs are for every value of the constants, under the named assumptions of the
modules, which TLC evaluates in the runs. The invariants were model-checked
before they were proved.

`CopierRingProofs`: `TypeCorrect`, `CopiesExactlyOnce`, `DrainIsBarrier`,
`PendingEntriesKept` and `RingImplementsFifo`. The properties are not inductive:
that `executed` is a prefix of `posted` follows only because the entries between
the indices are the tasks posted and not yet executed, in order, and a producer
that is between claim and publication holds the mutex and has the current
`write_index`. The invariant `RingInv` says this: `write_index` and
`thread_read_index` are the lengths of the histories modulo the length of the ring,
the backlog is below that length, slot `k mod QueueLen` holds the `k+1`st posted
task, at most the holder of the mutex is in the critical section, and
the service's current task is the oldest entry. Arithmetic modulo the ring's length
is put into lemmas. The refinement maps the queue to the entries between the
indices; every step is a `Post`, a `Complete` or a stutter. The fairness part of
the refinement is model-checked only.

`SmartBufferProofs`: `TypeCorrect`, `ReadsAreFresh`, `TeardownIsSafe`,
`DescriptorsOnlyGrow`. The invariant `SmartInv` says where the service can be when
`main` reads: still to retire the fully reported copy of the round before (all
descriptors are then 0, as `main` cleared them), at this round's copy (each
descriptor is what was reported), or through with it (all descriptors are full).
Reported is at most copied, the copied units carry the number of the copy in
service, the others that of the copy before. Between rounds only a fully reported
copy may be left. That a full block fits the descriptor (`Granularity < Modulus`)
is where the proof needs the width.

`KvServerProofs`: `TypeCorrect`, `StoredAsSentHolds` and `ReuseAfterCopiesHolds`, under
`TornAssumption`: a message in pieces is no longer than a block. The invariant
`KvInv` says that a client has one message under way, that between messages nothing
is left to copy, that the pending granules continue the cells that were copied,
in order, that the descriptor is the last cell copied for a message that came
whole, and for one that came in pieces is at the end only when all is copied
(`Told`), and that the parsed cells are those of the message. That a descriptor of
the piece before cannot mislead the parser is where the assumption is
needed: a single block is complete only with its last cell. The exchange of the numbers
adds what is known of a client that has not sent both: it has no message under way, and
if it is in service it has gone, so that a buffer of any length and content is never
completed. `TypeCorrect` follows from
the same invariant, joined with the values each variable may take (`Values`): that
a descriptor is never beyond its block needs the granules to continue the cells.

`TlsRecvProofs`: `ReadIsSent`. Whatever the sizes, and torn records included, what
`SSL_read` returns is what was sent. The invariant `TlsInv` says that what lies behind
the received cells is of earlier records (`Fresh`), that a pending cell of a body is of
the current record and its place not yet stored to (`Waiting`), that no two granules
share one (`Disjoint`), and that what `intact` vouches for is decrypted
(`Decrypted`). So nothing intact is overwritten by a late copy: the place of a late copy
was not intact when it was decrypted. The alignment is not needed here: a
chunk that was decrypted too early fails the tag. That such a failure does
not happen to whole records needs it.

In the same module, `TypeCorrect` and, under `Aligned`, `OnlyTornFails`. `Aligned` is no
more than what section 3 asks for: the chunks of a body do not lie across granules, which
bodies of one granule meet with the sizes of the repository, chunks of 960 and
granules of 1024 or 2048. The types need
no alignment: that the counters stay below the record's length is that what is
received, buffered and on its way adds up to the records sent (`Accounts`), of which
no more are read than were sent (`Fewer`). For the other theorem the invariant `WholeInv` says that no
granule holds a tag alone (`NoneAlone`), so that nothing is pending between the
records; that the granules of a body that came at once lie behind the descriptor,
each of `Granule` cells but the last (`Cut`); and that all cells in front of the
descriptor are stored and, behind `bulk`, as they were sent (`InFront`). A chunk starts at a
multiple of `Chunk`, and the descriptor is at the end of a granule: if the chunk's first
byte is in front of it, so is its last, or the body ends there
(`ChunkIsThere`). So `intact` stays true (`Sound`), and
the tag is the record's, whether it was copied before or by `csync`.

`RedisRecvProofs`: five theorems, for any clients, scripts and sizes that meet the
conditions they name.

| theorem | conditions | says |
|---|---|---|
| `Parsed` | `Setting` | the invariant `ParseInv` the others rest on |
| `TypeCorrect` | `Setting` | `TypeOK` |
| `KeyIsSent` | `Setting` | `KeyAsSent` |
| `NothingFreed` | `Setting`, `NoEval` | `NoCopyIntoFreedValue` |
| `ValuesAsSent` | `WholeSetting` | `GetReturnsSet` |

The conditions are those under which the code is right, each for a reason:

* `OneAtATime`: the descriptor is reset after the wait (`~ResetFirst`), and a client sends
  when it was answered (`Pipeline = 1`). With `ResetFirst` the next request is
  parsed from stale bytes (`SetSetScript` in section 3).
* `LinesTogether(n)`: the first report of the descriptor covers `n` lines, since the
  service reports in granules (`Chunk`) or the server waits for as many (`Window`).
  Two are the name and the key: with less, TLC violates `KeyAsSent`. Three are what lies in
  front of a value: with less, a request read as a whole may be misread at the length of
  its value and is then never answered (`redis_set`, section 3).
* `Fits`: a request is no longer than what one read asks for (`PROTO_IOBUF_LEN`, or
  16 MB for a long argument); it may come in any number of reads, and the query buffer may
  move at each of them, with copies into and out of it pending. `Setting` is the
  conjunction of these three.
* `WholeReads`: a read returns all of a request. For values it is needed: cut in the
  middle of a value, the request violates `GetReturnsSet` (`ReadBackScript`).
* `NoEval`: EVAL drops its object behind the posted copy into it.

`redis_split` meets `Setting` and `NoEval`, `redis_set` meets `WholeSetting`: what the
runs check is an instance of what is proved.

The argument has three layers, one lemma per action in each.

* `ParseInv`. One request of a client is owed at most, and what was received of it is
  parsed or lies behind `qbPos` (`Requests`); each place of the thread says what the parser
  holds (`Places`, `Arguments`); the buffer grows, but not without limit
  (`Room`), and no task leaves it (`Ring`). The
  buffer is described by what will be there: until the first line is read, the receive
  of the request is all the ring holds, into the buffer of the moment, and what the
  descriptor reports of it is there (`Fresh`, `FirstCopy`, `Copied`); where the second line
  is expected, there is a NUL or
  that line, and any receive that waits brings that line (`Expecting`, `Brings`), to
  this buffer or to the one before, which nobody reads. So a
  stale byte is never taken for a line: `head` and `short` are the request's own.
* `ObjectInv`. While a request is parsed no copy of a value waits; one that waits when
  a command runs is the command's own. What is dropped belongs to commands that have run.
  EVAL is where this fails: it drops its own object.
* `ValueInv`. A request that is being parsed is in the buffer or comes with one receive
  (`Whole`), and the buffer grows once, before anything is read into it (`Steady`); the
  cells of a posted copy of a value are in the buffer or come with
  the receive in front of it (`Sourced`); an object that is stored has its value
  when no copy to it waits (`Filled`), and the receive of a later GET drains the ring.

`RedisSendProofs`: `TypeCorrect`, `NothingIsLost`, `ValuesStay`, `AsPromised`, each on
top of the invariant of the one before, with one lemma per action.

* `CountInv`, for the first two, needs no assumption on scripts, sizes or clients: what
  the pieces still to be added cost (`ToAdd`; a reply has three at most) is what the
  list's end lacks of `expected` while a command is executed (`Places`), `sentlen` stays
  within the buffer or the first block (`Counters`), and a send within the places that
  are reserved for it (`SendsFit`).
* `ValueInv` has no assumption either. No two keys share a piece of heap and no block of a
  list is a value's (`Apart`). A copy that waits may go to the memory of a value only if
  that piece was freed and given out meanwhile, and is then in `exposed`
  (`CopiesExposed`); every other value is intact (`Intact`). While the send call waits for
  its bytes and nobody has left unanswered (`Waited`), a posted copy goes to a block that is in
  a list, or is read by the send that the server waits for (`CopiesInside`,
  `SendIsLast`), and nothing is exposed. That a client
  which leaves when it is answered has no list follows from the counts: a list that is
  not empty has cells that have not been sent (`Rising`).
* `ReplyInv`: `WillBe(x, j, cell)` says that location `x` will have this cell
  at `j` when all copies are done, since a copy that waits brings it, or none reaches `j`
  and it is there. What is in the buffer is what was promised (`BufferRight`), what is in a
  block (`ListRight`), is being sent (`SendRight`) or is still to be added (`TodoRight`)
  is, or will be. A block has one user (`OneUser`), is the target of one copy at most
  (`OneCopy`), and that copy is its first part (`CopyFits`), so what the server itself
  appends to the block is not overwritten. A send finds what it is to take because the copies
  are in front of it.
* `SourceInv`: no step writes to the source of a copy that waits. Whose turn it is has been
  sent all it was promised before (`Turns`), so its reply begins with an empty buffer and
  no header is composed on the stack for a block (`Heads`); every copy that waits is made
  from a shared object or from a value that only the client reads whose list it is for
  (`Sources`), and while that client has a list it is not executed, so the value stays.

`AsPromised` is `ReplyInv` and `SourceInv` together, under three conditions: `Patient`
(the send call waits for its bytes, no client may leave), `OneAsked` (no pipelining) and
`OwnKeys` (no GETDEL; what a client reads no other writes). They are conditions on
the workload because the code does nothing to ensure the source of a copy: section 3
has what violates `RepliesAsPromised` when the last two are not met. Within them
values are replaced and their memory used again with copies about, by the client that
reads them too. The script of `send` is outside: it has GETDEL and pipelining, in an
order that does no harm.

`TinyproxyRelayProofs`: `TypeCorrect`, `InOrder`, `ListsAreGaps`, `Flushed`. None of
them is inductive. A send is posted from a piece of heap that is freed in the same
step, so that its bytes are right when it is done cannot be read off the heap as it
is now; and the list is a gap only where the thread's place says what of its buffer
is counted. `RelayInv` has two halves besides types. The contents: `Holds(b, k, u)` says
that piece `b` *will* hold the units `u` when the tasks before the `k`-th are done, since
the last of them that writes to `b` brings `u`, or none does and `b` has them. Every task
in the queue finds what it is to move (`Sources`), every piece that a thread still
uses, its buffer and each of its lines (`Claims`), will hold its units when the queue
is empty (`Kept`), no piece has two users (`Distinct`), and a send stays within its
units and its place in the stream (`SendsFit`). A task that is appended changes `Holds` of
nothing but its own target, which no claim has; a task that is done changes the
heap and shifts the queue by one. So a freed piece needs no claim: the sends from it
are in front of any receive that uses it again. All of this is said but for the units in
`spoiled`, whose piece was written by the processor while a task was still to read it
(`WriteFreed`, `HeadIn`), and which may be anything from then on; no other unit suffers.
The counts: the list continues from what was sent to what was added, without a gap
(`GapOK`), before the relay both lists are empty (`Before`), and each place of the thread
says what its buffer holds (`InRelay`). There is one lemma per action.

`TinyproxyChildProofs`: `TypeCorrect`, `ListIsExact`, `OneIsLate`. The invariant
`ChildInv` adds that the backlog holds each waiting connection once (`Queued`), that
the list has room where `accept` is reached (`Room`), that `accept` is reached with
a connection (`Polled`), and that with a SIGTERM that is not lost the flag is set in the
configuration in use, so that the one connection it lets in is accepted before the next
check (`LastOne`). Lemmas on sequences without repetition carry
`Append`, `Tail`, `Front` and the deletion in the middle of the list.

Only model-checked:

* all liveness (`Ends`, `AllAnswered`, `AllReplied`, `Served`, `AllAreRead`,
  `ServerIsHeard`, `AcceptsAgain`, `TermEnds`) and the liveness half of the
  refinement, which need reasoning about ENABLED;
* `RedisRecv` outside the conditions above: the multi-client server (`ResetFirst`) and
  pipelined requests, for the sizes of `redis_multi`; with others the properties are
  false, as section 3 says;
* `RepliesAsPromised` for clients that pipeline or read what others write, with scripts
  in which no source is hit (`send`);
* `OnlyNulsIntrude`.

## 6. Not modelled

* The kernel service; its behaviour is presumed as described and marked external.
* In Redis: arguments of 17 MB and more, which `sdsrange` moves with a receive
  pending (`networking.c:2030`); a client closed with its receive's copy pending
  (`networking.c:2384`); the cron that shrinks buffers; errors after a garbled request;
  replication; io threads, which the measured configuration does not use; output
  limits and deferred lengths. The queue of `RedisRecv` and `RedisSend` is unbounded;
  that callers stay below its length is the assumption of `CopierRing`, and one read
  with many long arguments may break it (`copier.c:46`). A GET that is pipelined
  behind a SET in the SET server reads the value before its copy (`t_string.c:301`).
* In hello-world: an array that is not a whole number of blocks (`copier-main.c:114`).
* In the key-value server: the older copy `kv-server.cc`, which is not built, the
  Go server, and the protobuf parser, which is taken to read its blocks in order.
* In TLS: the handshake, the replies, the queue of 16 sync entries (one is in use at a
  time), a `msg_size` below the size of the handshake's records, and the terminator
  stored one byte behind a buffer of `msg_size` (`server.c:328`).
* In tinyproxy: chunked bodies, error pages, the parsing and rewriting of heads, the
  transparent and reverse modes, filters and access lists; the variant
  `tinyproxy-copier-size`, but for the ring and the buffers; a `maxclients` of 0;
  `DelCpThread (queue_fd)` (`main.c:422`), which tells the service to go before the
  children are signalled: what it does to copies that are pending is the service's;
  the structs of lines, whose use of the heap is a case of `WriteFreed`;
  a `content_length.server` of -1 that counts down (`reqs.c:1293`); the sockets, which
  comments at `reqs.c:1253` and `1606` call non-blocking and which never are. At the end,
  threads that nine rounds of signals did not end go on while list and
  configuration are freed, until the process is gone.
* `micro/syscall`: straight-line loops around one system call whose result is a time;
  what is received is never read. `micro/tp/bench`: one process fills a private array
  and hands it over before the kernel's side starts. Neither has a behaviour to
  check beyond `CopierRing`.
* zIO, `redis-6.2-ZC`, the baselines and the vendored libraries: third-party or
  upstream code without Copier, measured against. They are nearly all of
  the repository's lines, which is why the models cover few of these.

## 7. What is left

1. Conditions on scripts and sizes under which the multi-client server, which has
   requests pipelined, reads its keys as they were sent, and their proof.
2. Conditions on scripts with pipelining under which `RedisSend` keeps its promises.
3. Redis over the bounded ring instead of the unbounded sequence.
