----------------------------- MODULE RedisSend -----------------------------
(***************************************************************************)
(* The send path of redis-6.2-copier-get.  A reply is put together from    *)
(* pieces: the first ones are copied to a buffer in the client structure,  *)
(* what does not fit goes to a list of blocks.  The piece a block begins   *)
(* with is copied by a posted copy, what is appended to the block later by *)
(* the server itself.  Before the server sleeps, and when a socket can be  *)
(* written again, the buffer and the blocks are sent and the blocks freed. *)
(*                                                                         *)
(* Bytes are counted in cells.  A header, a line end or a status is one    *)
(* cell, a value is as many as ValueLen says.                              *)
(***************************************************************************)
EXTENDS Integers, Sequences, FiniteSets, SequencesExt

CONSTANTS Clients,      \* the clients
          Script,       \* Script[c]: the commands c sends
          Pipeline,     \* Pipeline[c]: commands c sends ahead of their replies
          Impatient,    \* clients that may leave before they are answered
          Slow,         \* clients whose window may be full
          Keys,         \* the keys
          Values,       \* the values
          ValueLen,     \* their lengths
          InitialDb,    \* the value of each key at first
          Blocks,       \* pieces of heap, for values and reply blocks
          NoBlock,      \* no piece of heap
          NoClient,     \* no client
          BufSize,      \* the size of the buffer in the client structure
          ChunkSize,    \* PROTO_REPLY_CHUNK_BYTES, the least size of a block
          MaxWrites,    \* NET_MAX_WRITES_PER_EVENT
          SendWaits     \* the send call returns when its bytes are taken

Command ==
    [op : {"get", "getdel"}, key : Keys] \cup [op : {"set"}, key : Keys, value : Values]

ASSUME SendAssumption ==
    /\ Script \in [Clients -> Seq(Command)]
    /\ Pipeline \in [Clients -> Nat \ {0}]
    /\ Impatient \subseteq Clients
    /\ Slow \subseteq Clients
    /\ ValueLen \in [Values -> Nat \ {0}]
    /\ NoBlock \notin Blocks
    /\ NoClient \notin Clients
    /\ InitialDb \in [Keys -> Values]
    /\ \E f \in [Keys -> Blocks] : \A k, l \in Keys : k # l => f[k] # f[l]
    /\ BufSize \in Nat \ {0}
    /\ ChunkSize \in Nat \ {0}
    /\ MaxWrites \in Nat
    /\ SendWaits \in BOOLEAN

VARIABLES db,           \* the piece of heap and the value of each key
          mem,          \* what is in each location
          tasks,        \* the queue of posted copies and sends
          asked,        \* commands each client has sent
          left,         \* the clients that have gone
          full,         \* full[c]: the window of c is full
          out,          \* out[c]: the places of the stream to c
          phase,        \* "events", or "writes" before the server sleeps
          now,          \* the client whose command is executed
          todo,         \* the pieces of its reply that are not added yet
          bufpos,       \* bufpos[c]: used part of the buffer
          reply,        \* reply[c]: the list of blocks
          sentlen,      \* sentlen[c]: what was sent of the buffer or first block
          pendingWrite, \* clients_pending_write
          handler,      \* the clients with a write handler
          writer,       \* the client writeToClient is at
          written,      \* totwritten
          expected,     \* history: the cells of the replies to c
          ends,         \* history: where each of them ends
          exposed       \* history: pieces of heap given to a value while a copy to
                        \* them was waiting

clientVars == <<asked, left, full>>
bufferVars == <<bufpos, reply, sentlen>>
loopVars == <<phase, pendingWrite, handler, writer, written>>
history == <<expected, ends, exposed>>
vars == <<db, mem, tasks, clientVars, out, now, todo, bufferVars, loopVars, history>>

Cell(v, i) == <<v, i>>
Header(n) == <<"length", n>>
LineEnd == <<"crlf", 0>>
Ok == <<"ok", 0>>
Null == <<"null", 0>>
Junk == <<"junk", 0>>
Pending == <<"pending", 0>>

\* Where cells may be: pieces of heap, the buffers, the frames of the functions
\* that add a reply, the shared objects (which are their own names here).
Static(c) == <<"buf", c>>
Stack == <<"stack", 0>>
SharedObjects == {LineEnd, Ok, Null}
Locations == Blocks \cup {Static(c) : c \in Clients} \cup {Stack} \cup SharedObjects

ASSUME HeapAssumption ==
    Blocks \cap ({Static(c) : c \in Clients} \cup {Stack} \cup SharedObjects) = {}

ValueCells(v) == [i \in 1 .. ValueLen[v] |-> Cell(v, i)]
Absent(k) == db[k].block = NoBlock

Larger(m, n) == IF m > n THEN m ELSE n
Smaller(m, n) == IF m < n THEN m ELSE n

\* n cells of s behind the first p.
Piece(s, p, n) == [i \in 1 .. n |-> IF p + i <= Len(s) THEN s[p + i] ELSE Junk]

\* s with the cells of d stored behind the first p.
Stored(s, p, d) ==
    [i \in 1 .. Larger(Len(s), p + Len(d)) |->
        IF i - p \in DOMAIN d THEN d[i - p] ELSE IF i <= Len(s) THEN s[i] ELSE Junk]

\* At first every key has its value in a piece of heap of its own.
Init ==
    /\ db = CHOOSE f \in [Keys -> [block : Blocks, value : Values]] :
                /\ \A k \in Keys : f[k].value = InitialDb[k]
                /\ \A k, l \in Keys : k # l => f[k].block # f[l].block
    /\ mem = [x \in Locations |->
                IF \E k \in Keys : db[k].block = x
                THEN ValueCells(InitialDb[CHOOSE k \in Keys : db[k].block = x])
                ELSE IF x \in SharedObjects THEN <<x>> ELSE <<>>]
    /\ tasks = <<>>
    /\ asked = [c \in Clients |-> 0]
    /\ left = {}
    /\ full = [c \in Clients |-> FALSE]
    /\ out = [c \in Clients |-> <<>>]
    /\ phase = "events"
    /\ now = NoClient
    /\ todo = <<>>
    /\ bufpos = [c \in Clients |-> 0]
    /\ reply = [c \in Clients |-> <<>>]
    /\ sentlen = [c \in Clients |-> 0]
    /\ pendingWrite = {}
    /\ handler = {}
    /\ writer = NoClient
    /\ written = 0
    /\ expected = [c \in Clients |-> <<>>]
    /\ ends = [c \in Clients |-> <<>>]
    /\ exposed = {}

-----------------------------------------------------------------------------
(* The clients                                                             *)

\* The replies that have come in whole.
Answered(c) ==
    Cardinality({i \in 1 .. Len(ends[c]) :
        /\ ends[c][i] <= Len(out[c])
        /\ \A j \in 1 .. ends[c][i] : out[c][j] # Pending})

Ask(c) ==
    /\ c \notin left
    /\ asked[c] < Len(Script[c])
    /\ asked[c] - Answered(c) < Pipeline[c]
    /\ asked' = [asked EXCEPT ![c] = @ + 1]
    /\ UNCHANGED <<db, mem, tasks, left, full, out, now, todo, bufferVars, loopVars, history>>

\* The client reads on.
Drain(c) ==
    /\ full[c]
    /\ full' = [full EXCEPT ![c] = FALSE]
    /\ UNCHANGED <<db, mem, tasks, asked, left, out, now, todo, bufferVars, loopVars, history>>

-----------------------------------------------------------------------------
(* The service                                                             *)

CopyBack(b, from, pos, n) ==            \* source and destination swapped
    [op |-> "copy", to |-> from, from |-> b, pos |-> pos, n |-> n]
CopyTask(b, from, pos, n) == [op |-> "copy", to |-> b, from |-> from, pos |-> pos, n |-> n]
SendTask(c, from, pos, n) ==
    [op |-> "send", conn |-> c, place |-> Len(out[c]), from |-> from, pos |-> pos, n |-> n]

CopyWaits(b) == \E i \in 1 .. Len(tasks) : tasks[i].op = "copy" /\ tasks[i].to = b

\* One task is carried out.
CopierStep ==
    /\ tasks # <<>>
    /\ tasks' = Tail(tasks)
    /\ LET t == Head(tasks)
           cells == Piece(mem[t.from], t.pos, t.n)
       IN IF t.op = "copy"
          THEN /\ mem' = [mem EXCEPT ![t.to] = Stored(@, 0, cells)]
               /\ UNCHANGED out
          ELSE /\ out' = [out EXCEPT ![t.conn] = Stored(@, t.place, cells)]
               /\ UNCHANGED mem
    /\ UNCHANGED <<db, clientVars, now, todo, bufferVars, loopVars, history>>

\* The server is not inside a send call.
Running == SendWaits => \A i \in 1 .. Len(tasks) : tasks[i].op # "send"

-----------------------------------------------------------------------------
(* Commands                                                                *)

InUse ==
    {db[k].block : k \in Keys} \cup
    UNION {{reply[c][i].block : i \in 1 .. Len(reply[c])} : c \in Clients}

\* What zmalloc may return.
Free == Blocks \ InUse

\* A piece of a reply: n cells of a location, or a header that is composed on
\* the stack first.
Object(x, n) == [from |-> x, n |-> n, header |-> Null]
OnStack(cell) == [from |-> Stack, n |-> 1, header |-> cell]

\* addReplyBulk, or the null of a key that is absent.
BulkPieces(k) ==
    IF Absent(k) THEN <<Object(Null, 1)>>
    ELSE LET n == ValueLen[db[k].value]
         IN <<OnStack(Header(n)), Object(db[k].block, n), Object(LineEnd, 1)>>
BulkCells(k) ==
    IF Absent(k) THEN <<Null>>
    ELSE <<Header(ValueLen[db[k].value])>> \o ValueCells(db[k].value) \o <<LineEnd>>

\* The reply a command promises, and the calls that add it.
Promise(cmd) ==
    IF cmd.op = "set" THEN <<Ok>> ELSE BulkCells(cmd.key)
Pieces(cmd) ==
    IF cmd.op = "set" THEN <<Object(Ok, 1)>> ELSE BulkPieces(cmd.key)

HasReplies(c) == bufpos[c] > 0 \/ reply[c] # <<>>

\* prepareClientToWrite: the first output of a client puts it in the list.
ScheduledByList(c) == IF reply[c] = <<>> THEN pendingWrite ELSE pendingWrite \cup {c}
Scheduled(c) == IF HasReplies(c) THEN pendingWrite ELSE pendingWrite \cup {c}

Idle == now = NoClient /\ writer = NoClient

\* A command is executed up to its reply.  SET stores its value in memory of
\* its own and frees the old one.  GETDEL frees the value behind the reply.
Execute(c) ==
    /\ Running
    /\ phase = "events"
    /\ Idle
    /\ c \notin left
    /\ Len(ends[c]) < asked[c]
    /\ LET cmd == Script[c][Len(ends[c]) + 1] IN
          /\ now' = c
          /\ todo' = Pieces(cmd)
          /\ expected' = [expected EXCEPT ![c] = @ \o Promise(cmd)]
          /\ ends' = [ends EXCEPT ![c] = Append(@, Len(expected'[c]))]
          /\ IF cmd.op = "set"
             THEN \E b \in Free :
                     /\ db' = [db EXCEPT ![cmd.key] = [block |-> b, value |-> cmd.value]]
                     /\ mem' = [mem EXCEPT ![b] = Stored(@, 0, ValueCells(cmd.value))]
                     /\ exposed' = IF CopyWaits(b) THEN exposed \cup {b} ELSE exposed \ {b}
             ELSE UNCHANGED <<db, mem, exposed>>
          /\ pendingWrite' = Scheduled(c)
    /\ UNCHANGED <<tasks, clientVars, out, bufferVars, phase, handler, writer, written>>

Finish ==
    /\ Running
    /\ now # NoClient
    /\ todo = <<>>
    /\ LET cmd == Script[now][Len(ends[now])]
       IN db' = IF cmd.op = "getdel" THEN [db EXCEPT ![cmd.key].block = NoBlock] ELSE db
    /\ now' = NoClient
    /\ UNCHANGED <<mem, tasks, clientVars, out, todo, bufferVars, loopVars, history>>

-----------------------------------------------------------------------------
(* Adding a piece                                                          *)

\* _addReplyToBuffer: only while the list is empty, and only as a whole.
FitsAlone(c, n) == n <= BufSize - bufpos[c]
FitsBuffer(c, n) == reply[c] = <<>> /\ n <= BufSize - bufpos[c]

\* The part of n cells that the last block takes.
WholeRoom(c) == IF reply[c] = <<>> THEN 0 ELSE Last(reply[c]).size
Room(c) == IF reply[c] = <<>> THEN 0 ELSE Last(reply[c]).size - Last(reply[c]).used
TailPart(c, n) == Smaller(Room(c), n)

BlockSize(n) == Larger(n, ChunkSize)

\* A header is on the stack while its call runs; the frame is then used again.
Composed(piece) ==
    [mem EXCEPT ![Stack] = IF piece.from = Stack THEN <<piece.header>> ELSE <<Junk>>]

\* What is appended to the list besides: what is left of the piece, from pos on.
\* The place in the stream of its first cell is history.
Behind(c) == Len(out[c]) + bufpos[c] - sentlen[c]
AddedSoFar(c) == IF reply[c] = <<>> THEN Behind(c) ELSE Last(reply[c]).place + Last(reply[c]).used
NewBlock(b, pos, n) ==
    [block |-> b, size |-> BlockSize(n - pos), used |-> n - pos, place |-> AddedSoFar(now) + pos]

\* addReply: to the buffer, or else _addReplyProtoToList.
AddReply ==
    /\ Running
    /\ now # NoClient
    /\ todo # <<>>
    /\ todo' = Tail(todo)
    /\ LET c == now
           piece == Head(todo)
           memory == Composed(piece)
           cells == Piece(memory[piece.from], 0, piece.n)
           part == TailPart(c, piece.n)
           old == reply[c]
           grown == IF old = <<>> THEN <<>>
                    ELSE [old EXCEPT ![Len(old)].used = @ + part]
       IN IF FitsBuffer(c, piece.n)
          THEN /\ mem' = [memory EXCEPT ![Static(c)] = Stored(@, bufpos[c], cells)]
               /\ bufpos' = [bufpos EXCEPT ![c] = @ + piece.n]
               /\ UNCHANGED <<reply, tasks>>
          ELSE /\ mem' = IF old = <<>> THEN memory
                         ELSE [memory EXCEPT ![Last(old).block] =
                                 Stored(@, Last(old).used, SubSeq(cells, 1, part))]
               /\ IF part = piece.n
                  THEN reply' = [reply EXCEPT ![c] = grown] /\ UNCHANGED tasks
                  ELSE \E b \in Free :
                          /\ reply' = [reply EXCEPT ![c] = Append(grown, NewBlock(b, part, piece.n))]
                          /\ tasks' = Append(tasks, CopyTask(b, piece.from, part, piece.n - part))
               /\ UNCHANGED bufpos
    /\ UNCHANGED <<db, clientVars, out, now, sentlen, loopVars, history>>

-----------------------------------------------------------------------------
(* Sending                                                                 *)

\* beforeSleep: handleClientsWithPendingWrites.
BeginWrites ==
    /\ Running
    /\ phase = "events"
    /\ Idle
    /\ pendingWrite # {}
    /\ phase' = "writes"
    /\ UNCHANGED <<db, mem, tasks, clientVars, out, now, todo, bufferVars,
                   pendingWrite, handler, writer, written, history>>

EndWrites ==
    /\ Running
    /\ phase = "writes"
    /\ Idle
    /\ pendingWrite = {}
    /\ phase' = "events"
    /\ UNCHANGED <<db, mem, tasks, clientVars, out, now, todo, bufferVars,
                   pendingWrite, handler, writer, written, history>>

\* writeToClient begins: for a client of clients_pending_write, or because its
\* socket can be written.
BeginWriteTo(c) ==
    /\ Running
    /\ Idle
    /\ \/ phase = "writes" /\ c \in pendingWrite
       \/ phase = "events" /\ c \in handler /\ ~full[c]
    /\ pendingWrite' = IF phase = "writes" THEN pendingWrite \ {c} ELSE pendingWrite
    /\ writer' = c
    /\ written' = 0
    /\ UNCHANGED <<db, mem, tasks, clientVars, out, now, todo, bufferVars, phase, handler, history>>

\* What is sent next: the buffer, or the first block.
Source(c) == IF bufpos[c] > 0 THEN Static(c) ELSE Head(reply[c]).block
Extent(c) == IF bufpos[c] > 0 THEN bufpos[c] ELSE Head(reply[c]).used

\* sentlen behind a send of n cells.
KeptSent(c, n) == sentlen[c] + n
NextSent(c, n) == IF sentlen[c] + n = Extent(c) THEN 0 ELSE sentlen[c] + n

\* connWrite takes all, or, of a slow client, a part; what was sent in whole is
\* given back: the buffer is empty, the block freed.
WriteToClient(c) ==
    /\ Running
    /\ writer = c
    /\ HasReplies(c)
    /\ written <= MaxWrites
    /\ ~full[c]
    /\ LET rest == Extent(c) - sentlen[c] IN
       \E n \in IF c \in Slow THEN 1 .. rest ELSE {rest} :
          /\ tasks' = Append(tasks, SendTask(c, Source(c), sentlen[c], n))
          /\ out' = [out EXCEPT ![c] = @ \o [i \in 1 .. n |-> Pending]]
          /\ full' = [full EXCEPT ![c] = n < rest]
          /\ written' = written + n
          /\ sentlen' = [sentlen EXCEPT ![c] = NextSent(c, n)]
          /\ IF n < rest THEN UNCHANGED <<bufpos, reply>>
             ELSE IF bufpos[c] > 0
             THEN bufpos' = [bufpos EXCEPT ![c] = 0] /\ UNCHANGED reply
             ELSE reply' = [reply EXCEPT ![c] = Tail(@)] /\ UNCHANGED bufpos
    /\ UNCHANGED <<db, mem, asked, left, now, todo, phase, pendingWrite, handler, writer, history>>

\* The write handlers behind a write to c.
Handlers(c) == IF HasReplies(c) THEN handler \cup {c} ELSE handler \ {c}

\* writeToClient ends: nothing is left, the socket takes no more, or it is
\* another client's turn.  What is left is for the write handler.
EndWriteTo(c) ==
    /\ Running
    /\ writer = c
    /\ ~HasReplies(c) \/ full[c] \/ written > MaxWrites
    /\ handler' = Handlers(c)
    /\ writer' = NoClient
    /\ written' = 0
    /\ UNCHANGED <<db, mem, tasks, clientVars, out, now, todo, bufferVars, phase, pendingWrite, history>>

\* The client has closed its side: freeClient.
Leave(c) ==
    /\ Running
    /\ phase = "events"
    /\ Idle
    /\ c \notin left
    /\ c \in Impatient \/ Answered(c) = Len(Script[c])
    /\ left' = left \cup {c}
    /\ bufpos' = [bufpos EXCEPT ![c] = 0]
    /\ reply' = [reply EXCEPT ![c] = <<>>]
    /\ sentlen' = [sentlen EXCEPT ![c] = 0]
    /\ pendingWrite' = pendingWrite \ {c}
    /\ handler' = handler \ {c}
    /\ UNCHANGED <<db, mem, tasks, asked, full, out, now, todo, phase, writer, written, history>>

Server ==
    \/ Finish \/ AddReply \/ BeginWrites \/ EndWrites
    \/ \E c \in Clients :
          Execute(c) \/ BeginWriteTo(c) \/ WriteToClient(c) \/ EndWriteTo(c) \/ Leave(c)

Next ==
    \/ \E c \in Clients : Ask(c) \/ Drain(c)
    \/ Server
    \/ CopierStep

\* The service copies and the server runs for ever; its loop comes to every
\* client that can be read from or written to.  The clients read on.
Fairness ==
    /\ WF_vars(CopierStep)
    /\ WF_vars(Server)
    /\ \A c \in Clients :
          /\ WF_vars(Drain(c))
          /\ SF_vars(Execute(c))
          /\ SF_vars(BeginWriteTo(c))

Spec == Init /\ [][Next]_vars /\ Fairness

-----------------------------------------------------------------------------
\* The values each variable may take.
TypeOK ==
    /\ \A k \in Keys : db[k].block \in Blocks \cup {NoBlock} /\ db[k].value \in Values
    /\ left \subseteq Clients /\ pendingWrite \subseteq Clients /\ handler \subseteq Clients
    /\ phase \in {"events", "writes"}
    /\ now \in Clients \cup {NoClient} /\ writer \in Clients \cup {NoClient}
    /\ \A c \in Clients :
          /\ asked[c] \in 0 .. Len(Script[c])
          /\ bufpos[c] \in 0 .. BufSize
          /\ \A i \in 1 .. Len(reply[c]) :
                /\ reply[c][i].block \in Blocks
                /\ reply[c][i].used \in 1 .. reply[c][i].size

\* What a client gets is, place by place, what its commands promised at the
\* time they were executed, although values are copied later, and blocks are
\* freed and used again.
RepliesAsPromised ==
    \A c \in Clients : \A i \in 1 .. Len(out[c]) :
        out[c][i] \in {Pending, expected[c][i]}

\* The client left before it was answered.
Hasty(c) == c \in left /\ Answered(c) < Len(Script[c])

\* A copy into a reply block hits the value of a key only when the block was
\* freed with the copy waiting and then given to the value (freeClient lets the
\* list go with its copies); and if send returns when its bytes are taken, that
\* happens only after a client has left before it was answered.
ValuesKept ==
    /\ \A k \in Keys : ~Absent(k) /\ db[k].block \notin exposed =>
          Piece(mem[db[k].block], 0, ValueLen[db[k].value]) = ValueCells(db[k].value)
    /\ exposed # {} => ~SendWaits \/ \E c \in Clients : Hasty(c)

\* The list holds the part of the stream from start to end, in order, without a gap.
Gapless(start, list, end) ==
    IF list = <<>> THEN start = end
    ELSE /\ list[1].place = start
         /\ \A i \in 2 .. Len(list) : list[i].place = list[i - 1].place + list[i - 1].used
         /\ list[Len(list)].place + list[Len(list)].used = end

\* What is sent, then what waits in the buffer, then what waits in the list, is
\* the whole reply: the counters neither lose a cell nor count one twice,
\* across partial sends and the change from the buffer to the list.
NothingLost ==
    \A c \in Clients \ left : now # c => Gapless(Behind(c), reply[c], Len(expected[c]))

\* Every client that stays has, again and again, all it asked for, however
\* slowly it reads.
AllReplied ==
    \A c \in Clients : []<>(Answered(c) = asked[c] \/ c \in left)
=============================================================================
