------------------------------ MODULE RedisRecv ------------------------------
(***************************************************************************)
(* The receive path of the Redis servers that read their sockets through   *)
(* Copier: readQueryFromClient, the receive call of copier.c,              *)
(* processInputBuffer with processMultibulkBuffer and processInlineBuffer, *)
(* and the commands as far as they use what was received.                  *)
(*                                                                         *)
(* The receive call returns before the bytes are in the query buffer.      *)
(* Copier brings them in behind the server's back and advances the         *)
(* client's bufferDescriptor (the offset of the last byte present); the    *)
(* server waits for the first ten bytes of a request and reads on.  Long   *)
(* arguments are not copied by the parser either: it posts a copy from the *)
(* query buffer into the new string object.  All these copies go through   *)
(* one ring, here the sequence tasks (CopierRing implements such a queue), *)
(* and the receive call waits for the ring to be empty before it reuses    *)
(* the buffer.                                                             *)
(*                                                                         *)
(* Two servers of the repository are instances: redis-6.2-copier-set       *)
(* (ResetFirst = FALSE, AsyncTrim = TRUE) and redis-6.2-copier-multi-client*)
(* (ResetFirst = TRUE, AsyncTrim = FALSE).                                 *)
(*                                                                         *)
(* Bytes are counted in cells.  A request with a long argument is the line *)
(* "M" with its number of arguments, "S" its short arguments with their    *)
(* length lines, the line "L" with the length of the long argument,        *)
(* ValueLen cells "v" of the argument and its line end "E".  A cell in     *)
(* memory remembers which client sent it as what, so a stale cell shows.   *)
(***************************************************************************)
EXTENDS Integers, SequencesExt

CONSTANTS
    Clients,        \* the connections
    Script,         \* for each client, the kinds of the requests it sends
    NUL,            \* the content of a cell that holds no sent byte
    NoObject,       \* no string object
    NoClient,       \* the server handles no client
    ValueLen,       \* cells of a long argument (more than 44 bytes)
    Window,         \* cells that stand for the 10 bytes the server waits for
    Chunk,          \* cells Copier moves between two stores to a descriptor (1 or
                    \* 2 KB: the lines of a request and more)
    Pipeline,       \* requests a client leaves unanswered at a time
    MinRead,        \* a read returns so many cells, or all that were sent
    ReadLen,        \* PROTO_IOBUF_LEN: the most one read returns
    Prealloc,       \* SDS_MAX_PREALLOC: spare room left by a reallocation
    ResetFirst,     \* the receive call resets the descriptor, then waits
    AsyncTrim       \* "Trim to pos" posts a copy instead of moving the data

ASSUME RedisAssumption ==
    /\ Script \in [Clients -> Seq({"set", "get", "eval", "block", "ping", "empty"})]
    /\ {ValueLen, Window, Chunk, Pipeline, MinRead, ReadLen} \subseteq Nat \ {0}
    /\ Prealloc \in Nat
    /\ {ResetFirst, AsyncTrim} \subseteq BOOLEAN
    /\ NoClient \notin Clients
    /\ NUL \notin Clients \X Nat \X Nat
    /\ NoObject \notin Clients \X Nat

\* The cells of a request of each kind.
Shape ==
    LET long == <<"M", "S", "L">> \o [i \in 1 .. ValueLen |-> "v"] \o <<"E">>
    IN [set |-> long, eval |-> long, get |-> <<"M", "S">>, block |-> <<"M", "S">>,
        ping |-> <<"M", "S">>, empty |-> <<"E">>]

HasValue(kind) == kind \in {"set", "eval"}

\* The cell number i of the request number j of client c.
Cell(c, j, i) == <<c, j, i>>
Request(c, j) == [i \in 1 .. Len(Shape[Script[c][j]]) |-> Cell(c, j, i)]
ValueOf(o) == [i \in 1 .. ValueLen |-> Cell(o[1], o[2], i + 3)]

\* What the parser takes a cell for.
Kind(cell) == Script[cell[1]][cell[2]]
Type(cell) == IF cell = NUL THEN "NUL" ELSE Shape[Kind(cell)][cell[3]]

\* Objects are named after the request that creates them.
Objects == UNION {{<<c, j>> : j \in 1 .. Len(Script[c])} : c \in Clients}
BufMax == 2 * ReadLen + Prealloc
Positions == 0 .. BufMax

VARIABLES
    sent,           \* requests each client has sent
    stream,         \* the cells of these requests
    answered,       \* requests each client has been answered
    received,       \* cells of each client's stream the receive call returned
    buf,            \* c->querybuf
    len,            \* sdslen(c->querybuf)
    room,           \* the allocated length of c->querybuf
    owner,          \* which allocation c->querybuf is, counted
    qbPos,          \* c->qb_pos
    stage,          \* what processMultibulkBuffer expects next
    head,           \* the first line it read of the current request
    short,          \* the short arguments in c->argv
    long,           \* the long argument in c->argv
    descriptor,     \* c->descriptor.bufferDescriptor
    status,         \* open, blocked, garbled or closed
    tasks,          \* the ring of copies, oldest first
    progress,       \* cells of the oldest copy that are moved
    objects,        \* contents of the string objects
    freed,          \* objects that were freed
    db,             \* the value of the key all clients use
    used,           \* history: each client's last use of a value
    pc,             \* where the server's thread is
    cur             \* the client it handles

clientVars == <<buf, len, room, owner, qbPos, stage, head, short, long, descriptor, status>>
taskVars == <<tasks, progress>>
storeVars == <<objects, freed, db, used>>
wireVars == <<sent, stream, answered, received>>
vars == <<wireVars, clientVars, taskVars, storeVars, pc, cur>>

-----------------------------------------------------------------------------
Init ==
    /\ sent = [c \in Clients |-> 0]
    /\ stream = [c \in Clients |-> <<>>]
    /\ answered = [c \in Clients |-> 0]
    /\ received = [c \in Clients |-> 0]
    /\ buf = [c \in Clients |-> [p \in Positions |-> NUL]]
    /\ len = [c \in Clients |-> 0]
    /\ room = [c \in Clients |-> 0]
    /\ owner = [c \in Clients |-> 0]
    /\ qbPos = [c \in Clients |-> 0]
    /\ stage = [c \in Clients |-> "new"]
    /\ head = [c \in Clients |-> NUL]
    /\ short = [c \in Clients |-> NUL]
    /\ long = [c \in Clients |-> NoObject]
    /\ descriptor = [c \in Clients |-> -1]
    /\ status = [c \in Clients |-> "open"]
    /\ tasks = <<>>
    /\ progress = 0
    /\ objects = [o \in Objects |-> [i \in 1 .. ValueLen |-> NUL]]
    /\ freed = {}
    /\ db = NoObject
    /\ used = [c \in Clients |-> [object |-> NoObject, value |-> <<>>]]
    /\ pc = "idle"
    /\ cur = NoClient

-----------------------------------------------------------------------------
(* The clients and the service.                                            *)

\* A client sends its next request.
ClientSend(c) ==
    /\ sent[c] < Len(Script[c])
    /\ sent[c] - answered[c] < Pipeline
    /\ sent' = [sent EXCEPT ![c] = @ + 1]
    /\ stream' = [stream EXCEPT ![c] = @ \o Request(c, sent[c] + 1)]
    /\ UNCHANGED <<answered, received, clientVars, taskVars, storeVars, pc, cur>>

\* Post a copy: it joins the end of the ring.
Posted(t) == Append(tasks, t)

\* A copy into or out of an old allocation of the query buffer.
Stale(t) == status[t.client] = "closed" \/ owner[t.client] # t.owner

\* Copier moves the next cell of the oldest copy.  A received piece is
\* reported in the descriptor when Chunk cells of it are in, or all.
CopyCell ==
    /\ tasks # <<>>
    /\ LET t == Head(tasks)
           c == t.client
           k == progress
           source == IF t.type = "recv" THEN stream[c][t.from + k + 1]
                     ELSE IF Stale(t) THEN NUL ELSE buf[c][t.from + k]
           last == k + 1 = t.size
       IN /\ buf' = IF t.type = "value" \/ Stale(t) THEN buf
                    ELSE [buf EXCEPT ![c][t.to + k] = source]
          /\ objects' = IF t.type = "value" /\ t.object \notin freed
                        THEN [objects EXCEPT ![t.object][k + 1] = source] ELSE objects
          /\ descriptor' = IF t.type = "recv" /\ (last \/ (k + 1) % Chunk = 0)
                           THEN [descriptor EXCEPT ![c] = t.to + k] ELSE descriptor
          /\ tasks' = IF last THEN Tail(tasks) ELSE tasks
          /\ progress' = IF last THEN 0 ELSE k + 1
    /\ UNCHANGED <<wireVars, len, room, owner, qbPos, stage, head, short, long, status,
                   freed, db, used, pc, cur>>

-----------------------------------------------------------------------------
(* readQueryFromClient                                                     *)

\* The cells of c that were sent and not received.
Waiting(c) == Len(stream[c]) - received[c]

\* buffer->bufferDescriptor = offset - 1: nothing of the next read is there.
KeptDescriptor(c) == descriptor     \* without the assignment
ResetDescriptor(c) == [descriptor EXCEPT ![c] = len[c] - 1]

\* What sdsMakeRoomFor allocates for a full read.
EnlargedRoom(c) == len[c] + ReadLen + Prealloc

\* The event loop finds c readable: sdsMakeRoomFor enlarges the query buffer
\* when it lacks the room for a full read, in place or by moving what memory
\* holds now to a new allocation.
ReadQuery(c) ==
    /\ pc = "idle"
    /\ status[c] \in {"open", "blocked"}
    /\ Waiting(c) > 0
    /\ IF room[c] - len[c] >= ReadLen
       THEN UNCHANGED <<buf, room, owner>>
       ELSE /\ room' = [room EXCEPT ![c] = EnlargedRoom(c)]
            /\ \/ UNCHANGED <<buf, owner>>
               \/ /\ owner' = [owner EXCEPT ![c] = @ + 1]
                  /\ buf' = [buf EXCEPT ![c] =
                              [p \in Positions |-> IF p < len[c] THEN @[p] ELSE NUL]]
    /\ descriptor' = IF ResetFirst THEN ResetDescriptor(c) ELSE descriptor
    /\ pc' = "drain"
    /\ cur' = c
    /\ UNCHANGED <<wireVars, len, qbPos, stage, head, short, long, status, taskVars, storeVars>>

\* while (thread_read_index != write_index)
Drained == tasks = <<>>

\* The receive call: wait until the ring is empty, set the descriptor to
\* offset - 1 (unless done before the wait) and enter the kernel, which posts
\* the copies of the n cells it returns.  Then sdsIncrLen.
Recv(c, n) ==
    /\ pc = "drain" /\ cur = c
    /\ Drained
    /\ descriptor' = IF ResetFirst THEN descriptor ELSE ResetDescriptor(c)
    /\ tasks' = Posted([type |-> "recv", client |-> c, owner |-> owner[c], from |-> received[c],
                        to |-> len[c], size |-> n])
    /\ received' = [received EXCEPT ![c] = @ + n]
    /\ len' = [len EXCEPT ![c] = @ + n]
    /\ buf' = [buf EXCEPT ![c][len[c] + n] = NUL]
    /\ pc' = "loop"
    /\ UNCHANGED <<sent, stream, answered, room, owner, qbPos, stage, head, short, long, status,
                   progress, storeVars, cur>>

ReadSizes(c) ==
    LET most == IF Waiting(c) < ReadLen THEN Waiting(c) ELSE ReadLen
    IN {n \in 1 .. most : n = most \/ n >= MinRead}

-----------------------------------------------------------------------------
(* processInputBuffer                                                      *)

\* The loop goes on: something is left, and the client is neither blocked nor
\* to be closed.
Parsing(c) ==
    /\ pc = "loop" /\ cur = c
    /\ qbPos[c] < len[c]
    /\ status[c] = "open"

FirstCell(c) == buf[c][qbPos[c]]

\* One line is consumed: the parser goes on behind it, expecting st.
Consume(c, st) ==
    /\ qbPos' = [qbPos EXCEPT ![c] = @ + 1]
    /\ stage' = [stage EXCEPT ![c] = st]

\* Nothing more can be done with the data at hand ("break").
Break(c) ==
    /\ pc' = "trim"
    /\ UNCHANGED <<qbPos, stage, head, short, long, status, tasks>>

\* The parser does not find what it expects.  At a NUL it takes the line for
\* incomplete and breaks off, to go on from stage st; anything else it takes
\* for a request the client did not send there, and the model does not follow
\* the connection any further.
Unexpected(c, st) ==
    /\ pc' = "trim"
    /\ stage' = [stage EXCEPT ![c] = st]
    /\ status' = [status EXCEPT ![c] = IF Type(FirstCell(c)) = "NUL" THEN @ ELSE "garbled"]
    /\ UNCHANGED <<qbPos, head, short, long, tasks>>

parseFrame == <<wireVars, buf, len, room, owner, descriptor, progress, storeVars, cur>>

\* smartInputDescriptorBufferGet(qb_pos, 10), then the type of the request and
\* its first line.  An empty inline request is skipped; without a line end the
\* request stays one of the inline protocol.
ParseHead(c) ==
    /\ Parsing(c)
    /\ stage[c] \in {"new", "inline"}
    /\ stage[c] = "new" => descriptor[c] >= qbPos[c] + Window - 1
    /\ LET type == Type(FirstCell(c))
           multibulk == stage[c] = "new" /\ type = "M"
       IN \/ /\ multibulk \/ type = "E"
             /\ Consume(c, IF multibulk THEN "short" ELSE "new")
             /\ head' = [head EXCEPT ![c] = FirstCell(c)]
             /\ pc' = IF multibulk THEN "loop" ELSE "reset"
             /\ UNCHANGED <<short, long, status, tasks>>
          \/ ~multibulk /\ type # "E" /\ Unexpected(c, "inline")
    /\ UNCHANGED parseFrame

\* The short arguments are copied by createEmbeddedStringObject, here and now.
ParseShort(c) ==
    /\ Parsing(c)
    /\ stage[c] = "short"
    /\ \/ /\ Type(FirstCell(c)) = "S"
          /\ short' = [short EXCEPT ![c] = FirstCell(c)]
          /\ IF HasValue(Kind(head[c]))
             THEN Consume(c, "len") /\ UNCHANGED pc
             ELSE Consume(c, "new") /\ pc' = "exec"
          /\ UNCHANGED <<head, long, status, tasks>>
       \/ Type(FirstCell(c)) # "S" /\ Unexpected(c, "short")
    /\ UNCHANGED parseFrame

\* The length line of the long argument.
ParseLength(c) ==
    /\ Parsing(c)
    /\ stage[c] = "len"
    /\ \/ /\ Type(FirstCell(c)) = "L"
          /\ Consume(c, "bulk")
          /\ UNCHANGED <<head, short, long, status, tasks, pc>>
       \/ Type(FirstCell(c)) # "L" /\ Unexpected(c, "len")
    /\ UNCHANGED parseFrame

\* bulklen + 2
BareBulk == ValueLen                \* the line end forgotten
BulkSize == ValueLen + 1

\* Where the argument begins: read before c->qb_pos moves on.
LateStart(c) == qbPos[c] + BulkSize \* read after it moved on
BulkStart(c) == qbPos[c]

\* The long argument: once all of it is received (not: copied), a new object
\* is made and a copy out of the query buffer posted (createStringObjectCopyer).
ParseBulk(c) ==
    /\ Parsing(c)
    /\ stage[c] = "bulk"
    /\ \/ len[c] - qbPos[c] < BulkSize /\ Break(c)
       \/ /\ len[c] - qbPos[c] >= BulkSize
          /\ long' = [long EXCEPT ![c] = <<c, answered[c] + 1>>]
          /\ tasks' = Posted([type |-> "value", client |-> c, owner |-> owner[c],
                              from |-> BulkStart(c), to |-> 0, size |-> ValueLen,
                              object |-> <<c, answered[c] + 1>>])
          /\ qbPos' = [qbPos EXCEPT ![c] = @ + BulkSize]
          /\ stage' = [stage EXCEPT ![c] = "new"]
          /\ pc' = "exec"
          /\ UNCHANGED <<head, short, status>>
    /\ UNCHANGED parseFrame

\* Nothing is left to parse, or the client may not be served now.
StopParsing(c) ==
    /\ pc = "loop" /\ cur = c
    /\ ~Parsing(c)
    /\ Break(c)
    /\ UNCHANGED parseFrame

\* The objects whose last reference goes with the command: the value that SET
\* replaces, the script of EVAL.
DroppedWithNew(c) ==                \* without the reference that setKey takes
    IF Kind(head[c]) \in {"set", "eval"} THEN ({db} \ {NoObject}) \cup {long[c]} ELSE {}
Dropped(c) ==
    CASE Kind(head[c]) = "set" -> {db} \ {NoObject}
      [] Kind(head[c]) = "eval" -> {long[c]}
      [] OTHER -> {}

\* processCommandAndResetClient: the command runs with the arguments at hand.
\* A blocking command is answered, and the client reset, when it is unblocked.
Execute(c) ==
    /\ pc = "exec" /\ cur = c
    /\ LET kind == Kind(head[c])
       IN /\ db' = IF kind = "set" THEN long[c] ELSE db
          /\ freed' = freed \cup Dropped(c)
          /\ used' = CASE kind = "get" /\ db # NoObject ->
                            [used EXCEPT ![c] = [object |-> db, value |-> objects[db]]]
                       [] kind = "eval" ->
                            [used EXCEPT ![c] = [object |-> long[c], value |-> objects[long[c]]]]
                       [] OTHER -> used
          /\ IF kind = "block"
             THEN /\ status' = [status EXCEPT ![c] = "blocked"]
                  /\ pc' = "loop"
             ELSE /\ pc' = "reset"
                  /\ UNCHANGED status
    /\ UNCHANGED <<wireVars, buf, len, room, owner, qbPos, stage, head, short, long, descriptor,
                   taskVars, objects, cur>>

\* resetClient, and the reply: the client counts the request as answered.
\* An empty request is skipped without a reply.
Reset(c) ==
    /\ pc = "reset" /\ cur = c
    /\ answered' = [answered EXCEPT ![c] = @ + 1]
    /\ head' = [head EXCEPT ![c] = NUL]
    /\ short' = [short EXCEPT ![c] = NUL]
    /\ long' = [long EXCEPT ![c] = NoObject]
    /\ pc' = "loop"
    /\ UNCHANGED <<sent, stream, received, buf, len, room, owner, qbPos, stage, descriptor,
                   status, taskVars, storeVars, cur>>

\* ssize_t start = c->qb_pos;
OnePastRest(c) == qbPos[c] + 1      \* one byte is lost
RestStart(c) == qbPos[c]

\* "Trim to pos": the rest moves to the start of the query buffer; the posted
\* copy does so later, the memmove of sdsrange now.
Trim(c) ==
    /\ pc = "trim" /\ cur = c
    /\ LET pos == RestStart(c)
           rest == len[c] - qbPos[c]
       IN IF qbPos[c] > 0 /\ rest > 0
          THEN IF AsyncTrim
               THEN /\ tasks' = Posted([type |-> "move", client |-> c, owner |-> owner[c],
                                        from |-> pos, to |-> 0, size |-> rest])
                    /\ UNCHANGED buf
               ELSE /\ buf' = [buf EXCEPT ![c] =
                                [p \in Positions |-> IF p < rest THEN @[p + pos] ELSE @[p]]]
                    /\ UNCHANGED tasks
          ELSE UNCHANGED <<buf, tasks>>
    /\ pc' = "terminate"
    /\ UNCHANGED <<wireVars, len, room, owner, qbPos, stage, head, short, long, descriptor, status,
                   progress, storeVars, cur>>

\* Where the rest of the query buffer ends.
RestEnd(c) == len[c] - qbPos[c]

\* s[len] = 0; sdssetlen(s,len); c->qb_pos = 0; and back to the event loop.
Terminate(c) ==
    /\ pc = "terminate" /\ cur = c
    /\ IF qbPos[c] > 0
       THEN /\ buf' = [buf EXCEPT ![c][RestEnd(c)] = NUL]
            /\ len' = [len EXCEPT ![c] = @ - qbPos[c]]
            /\ qbPos' = [qbPos EXCEPT ![c] = 0]
       ELSE UNCHANGED <<buf, len, qbPos>>
    /\ pc' = "idle"
    /\ cur' = NoClient
    /\ UNCHANGED <<wireVars, room, owner, stage, head, short, long, descriptor, status,
                   taskVars, storeVars>>

-----------------------------------------------------------------------------
\* What a blocked client waits for happens: it is answered and reset, and
\* processUnblockedClients goes on with its query buffer.
Unblock(c) ==
    /\ pc = "idle"
    /\ status[c] = "blocked"
    /\ status' = [status EXCEPT ![c] = "open"]
    /\ answered' = [answered EXCEPT ![c] = @ + 1]
    /\ head' = [head EXCEPT ![c] = NUL]
    /\ short' = [short EXCEPT ![c] = NUL]
    /\ long' = [long EXCEPT ![c] = NoObject]
    /\ pc' = IF len[c] > 0 THEN "loop" ELSE "idle"
    /\ cur' = IF len[c] > 0 THEN c ELSE NoClient
    /\ UNCHANGED <<sent, stream, received, buf, len, room, owner, qbPos, stage, descriptor,
                   taskVars, storeVars>>

\* A client that has all its answers closes; the receive call waits for the
\* ring before it returns 0, and freeClientAsync has the buffer freed.
Close(c) ==
    /\ pc = "idle"
    /\ status[c] = "open"
    /\ answered[c] = Len(Script[c])
    /\ tasks = <<>>
    /\ status' = [status EXCEPT ![c] = "closed"]
    /\ UNCHANGED <<wireVars, buf, len, room, owner, qbPos, stage, head, short, long, descriptor,
                   taskVars, storeVars, pc, cur>>

Handler(c) ==
    \/ ReadQuery(c)
    \/ \E n \in ReadSizes(c) : Recv(c, n)
    \/ ParseHead(c)
    \/ ParseShort(c)
    \/ ParseLength(c)
    \/ ParseBulk(c)
    \/ StopParsing(c)
    \/ Execute(c)
    \/ Reset(c)
    \/ Trim(c)
    \/ Terminate(c)
    \/ Close(c)

Next ==
    \/ CopyCell
    \/ \E c \in Clients : ClientSend(c) \/ Handler(c) \/ Unblock(c)

\* The service and the server's thread keep running, clients send on when
\* they may, and what a blocked client waits for happens some day.
Fairness ==
    /\ WF_vars(CopyCell)
    /\ \A c \in Clients : WF_vars(ClientSend(c)) /\ WF_vars(Handler(c)) /\ WF_vars(Unblock(c))

Spec == Init /\ [][Next]_vars /\ Fairness

-----------------------------------------------------------------------------
\* The values each variable may take; the parser never passes the end of the
\* query buffer, and the buffer never outgrows its allocation.
TypeOK ==
    /\ \A c \in Clients :
        /\ answered[c] <= sent[c] /\ sent[c] <= Len(Script[c])
        /\ received[c] \in 0 .. Len(stream[c])
        /\ qbPos[c] \in 0 .. len[c]
        /\ len[c] \in 0 .. room[c]
        /\ room[c] \in Positions
        /\ owner[c] \in Nat
        /\ stage[c] \in {"new", "inline", "short", "len", "bulk"}
        /\ {head[c], short[c]} \subseteq Range(stream[c]) \cup {NUL}
        /\ long[c] \in Objects \cup {NoObject}
        /\ descriptor[c] \in -1 .. BufMax
        /\ status[c] \in {"open", "blocked", "garbled", "closed"}
        /\ buf[c] \in [Positions -> Range(stream[c]) \cup {NUL}]
    /\ \A i \in 1 .. Len(tasks) : progress < tasks[i].size \/ i > 1
    /\ db \in Objects \cup {NoObject}
    /\ freed \subseteq Objects
    /\ pc \in {"idle", "drain", "loop", "exec", "reset", "trim", "terminate"}
    /\ cur \in Clients \cup {NoClient}

\* A value that a command reads (GET its key's, EVAL its script) is, byte for
\* byte, the one a client sent, although it was stored by copies nobody waited
\* for.
GetReturnsSet ==
    \A c \in Clients : used[c].object # NoObject => used[c].value = ValueOf(used[c].object)

\* A command runs with the name and the key of the request whose turn it is,
\* never with those of an earlier request left in the buffer.
KeyAsSent ==
    pc = "exec" => /\ head[cur] = Cell(cur, answered[cur] + 1, 1)
                   /\ short[cur] = Cell(cur, answered[cur] + 1, 2)

\* The copy of a value into its string object, posted and not waited for, is complete before the
\* object is freed: by a SET that replaces the value, or with the command that brought it.
NoCopyIntoFreedValue ==
    \A i \in 1 .. Len(tasks) : tasks[i].type = "value" => tasks[i].object \notin freed

\* However a request is cut into reads, the terminators that the server stores into a query
\* buffer with moves and copies out of it pending do no more than leave a NUL in place of a byte
\* of the value: no byte of it comes to another place, and no other byte into it.  This is so
\* while the buffer stays where it is: one that moves leaves what is on its way behind.
OnlyNulsIntrude ==
    \A c \in Clients :
        LET o == used[c].object
        IN o # NoObject /\ owner[o[1]] = 0 =>
               \A i \in 1 .. ValueLen : used[c].value[i] \in {ValueOf(o)[i], NUL}

\* Every request of every client is answered some day.
AllAnswered == \A c \in Clients : <>(answered[c] = Len(Script[c]))
=============================================================================
