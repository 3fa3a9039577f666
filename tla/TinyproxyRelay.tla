--------------------------- MODULE TinyproxyRelay ---------------------------
(***************************************************************************)
(* The connections of tinyproxy and the heap they share.  A thread per     *)
(* connection forwards the head of the request and of the response by      *)
(* ordinary reads and writes, pulls the body of the request through one    *)
(* buffer with LazyRecv and LazySend, and then relays between the two      *)
(* sockets: what is received goes to a buffer of 16 kB, is copied to a     *)
(* line of a list by a posted copy, and the head of the list is sent with  *)
(* LazySend.  Buffers and lines are freed at once, with the receive, the   *)
(* copy and the send of their bytes pending.                               *)
(*                                                                         *)
(* LazyRecv, LazySend and the service are not part of the repository.      *)
(* They are presumed to put their work into the queue of posted copies;    *)
(* LazySend gives its bytes their place in the stream when it returns, and *)
(* the service fills the place later.                                      *)
(*                                                                         *)
(* The stream that goes up (to the server) and the one that comes down are *)
(* counted in units; a unit is named by its stream and its number.         *)
(***************************************************************************)
EXTENDS Integers, Sequences, FiniteSets

CONSTANTS Conns,        \* the connections
          Blocks,       \* the pieces of the heap
          NoBlock,      \* no piece of heap
          Length,       \* Length[d]: units the source of direction d may send
          BodyLength,   \* units of the request's body
          ContentLength,\* content_length.server; -1 when there is none
          ReadSize,     \* READ_BUFFER_SIZE
          MaxSize,      \* MAXBUFFSIZE
          Slow,         \* directions in which a send may take fewer units than it is given
          Breaks,       \* directions whose destination may reset the connection
          SpoilLimit    \* bound: with so many units spoiled no freed piece is overwritten

Dirs == {"up", "down"}

ASSUME RelayAssumption ==
    /\ NoBlock \notin Blocks
    /\ Length \in [Dirs -> Nat]
    /\ BodyLength \in Nat
    /\ ContentLength \in Nat \cup {-1}
    /\ ReadSize \in Nat \ {0}
    /\ MaxSize \in Nat \ {0}
    /\ Slow \subseteq Dirs
    /\ Breaks \subseteq Dirs
    /\ SpoilLimit \in Nat

VARIABLES pc,           \* where each connection's thread is
          arrived,      \* arrived[c][d]: units the source has sent
          over,         \* over[c][d]: the source has sent its last unit
          full,         \* full[c][d]: the destination's window is full
          gone,         \* gone[c][d]: the destination has reset the connection
          got,          \* got[c][d]: units received
          held,         \* the piece of heap the thread reads into, and its units
          lines,        \* lines[c][d]: the list of cbuffer (up) or sbuffer (down)
          size,         \* size[c][d]: buffer_size of that list
          left,         \* content_length.server
          ready,        \* fds[0].revents & MYPOLL_READ
          out,          \* out[c][d]: the places of the outgoing stream
          mem,          \* what is in each piece of heap
          tasks,        \* the queue of the service
          spoiled       \* history: units whose piece of heap was written too early

sourceVars == <<arrived, over, gone>>
peerVars == <<sourceVars, full>>
threadVars == <<pc, got, held, lines, size, left, ready>>
vars == <<peerVars, threadVars, out, mem, tasks, spoiled>>

Junk == <<"junk", 0>>          \* bytes of no one
Pending == <<"pending", 0>>    \* a place that is not filled
Unit(c, d, i) == <<c, d, i>>
Run(c, d, first, n) == [i \in 1 .. n |-> Unit(c, d, first + i - 1)]

\* The n units of s behind the first p.
Piece(s, p, n) == [i \in 1 .. n |-> IF p + i <= Len(s) THEN s[p + i] ELSE Junk]

UnitsIn(s) == {s[i] : i \in 1 .. Len(s)}

Hold(b, d, first, n) == [block |-> b, dir |-> d, first |-> first, length |-> n]
NotHeld == Hold(NoBlock, "up", 1, 0)

Init ==
    /\ pc = [c \in Conns |-> "request"]
    /\ arrived = [c \in Conns |-> [d \in Dirs |-> 0]]
    /\ over = [c \in Conns |-> [d \in Dirs |-> FALSE]]
    /\ full = [c \in Conns |-> [d \in Dirs |-> FALSE]]
    /\ gone = [c \in Conns |-> [d \in Dirs |-> FALSE]]
    /\ got = [c \in Conns |-> [d \in Dirs |-> 0]]
    /\ held = [c \in Conns |-> NotHeld]
    /\ lines = [c \in Conns |-> [d \in Dirs |-> <<>>]]
    /\ size = [c \in Conns |-> [d \in Dirs |-> 0]]
    /\ left = [c \in Conns |-> ContentLength]
    /\ ready = [c \in Conns |-> FALSE]
    /\ out = [c \in Conns |-> [d \in Dirs |-> <<>>]]
    /\ mem = [b \in Blocks |-> <<>>]
    /\ tasks = <<>>
    /\ spoiled = {}

-----------------------------------------------------------------------------
(* The two peers of a connection                                           *)

\* A unit that the source of direction d has sent comes in.  A server answers once it has the
\* request: the head and the body.
Arrive(c, d) ==
    /\ pc[c] \notin {"destroy", "done"}
    /\ ~over[c][d]
    /\ arrived[c][d] < Length[d]
    /\ d = "down" =>
          /\ Len(out[c]["up"]) > BodyLength
          /\ \A i \in 1 .. BodyLength + 1 : out[c]["up"][i] # Pending
    /\ arrived' = [arrived EXCEPT ![c][d] = @ + 1]
    /\ UNCHANGED <<over, full, gone, threadVars, out, mem, tasks, spoiled>>

\* It closes its side, with all sent that it had to send.
Over(c, d) ==
    /\ ~over[c][d]
    /\ arrived[c][d] = Length[d]
    /\ over' = [over EXCEPT ![c][d] = TRUE]
    /\ UNCHANGED <<arrived, full, gone, threadVars, out, mem, tasks, spoiled>>

\* The destination resets the connection.
Gone(c, d) ==
    /\ d \in Breaks
    /\ gone' = [gone EXCEPT ![c][d] = TRUE]
    /\ UNCHANGED <<arrived, over, full, threadVars, out, mem, tasks, spoiled>>

\* The destination reads on.
Drain(c, d) ==
    /\ full[c][d]
    /\ full' = [full EXCEPT ![c][d] = FALSE]
    /\ UNCHANGED <<sourceVars, threadVars, out, mem, tasks, spoiled>>

\* Nothing more comes from the source of direction d.
Other(d) == IF d = "up" THEN "down" ELSE "up"
Closed(c, d) == got[c][d] = arrived[c][d] /\ (over[c][d] \/ gone[c][Other(d)])

-----------------------------------------------------------------------------
(* The service                                                             *)

\* A task brings units to a piece of heap or to places of a stream.  What a
\* copy or a send is meant to find in its source, units, is history: the
\* service takes what is there.
RecvTask(b, units) == [op |-> "recv", to |-> b, units |-> units]
CopyTask(b, from, units) == [op |-> "copy", to |-> b, from |-> from, units |-> units]
SendTask(c, d, from, units, pos, n) ==
    [op |-> "send", conn |-> c, dir |-> d, place |-> Len(out[c][d]),
     from |-> from, units |-> units, pos |-> pos, n |-> n]

Filled(t) ==
    [i \in 1 .. Len(out[t.conn][t.dir]) |->
        IF i - t.place \in 1 .. t.n
        THEN Piece(mem[t.from], t.pos, t.n)[i - t.place]
        ELSE out[t.conn][t.dir][i]]

\* The service carries out one task.
CopierStep ==
    /\ tasks # <<>>
    /\ tasks' = Tail(tasks)
    /\ LET t == Head(tasks) IN
          CASE t.op = "recv" ->
                  /\ mem' = [mem EXCEPT ![t.to] = t.units]
                  /\ UNCHANGED out
            [] t.op = "copy" ->
                  /\ mem' = [mem EXCEPT ![t.to] = Piece(mem[t.from], 0, Len(t.units))]
                  /\ UNCHANGED out
            [] t.op = "send" ->
                  /\ out' = [out EXCEPT ![t.conn][t.dir] = Filled(t)]
                  /\ UNCHANGED mem
    /\ UNCHANGED <<peerVars, threadVars, spoiled>>

-----------------------------------------------------------------------------
(* The buffers                                                             *)

InUse ==
    {held[c].block : c \in Conns} \cup
    UNION {{lines[c][d][i].block : i \in 1 .. Len(lines[c][d])} :
              c \in Conns, d \in Dirs}

\* What malloc may return, whatever is still to be copied into it or out of it.
Free == Blocks \ InUse

\* The units that a pending task is still to read in the piece b, and whether
\* one is still to write there.
ReadLater(b) ==
    UNION {UnitsIn(tasks[i].units) : i \in {k \in 1 .. Len(tasks) :
              tasks[k].op \in {"copy", "send"} /\ tasks[k].from = b}}
WrittenLater(b) == \E i \in 1 .. Len(tasks) : tasks[i].op \in {"recv", "copy"} /\ tasks[i].to = b

\* A freed piece is written at once: free links it into a list of its own, or it
\* is given out for something else, like the struct of a line or a header.
WriteFreed(b) ==
    /\ b \in Free
    /\ ReadLater(b) # {}
    /\ Cardinality(spoiled) < SpoilLimit
    /\ mem' = [mem EXCEPT ![b] = [i \in 1 .. Len(@) |-> Junk]]
    /\ spoiled' = spoiled \cup ReadLater(b)
    /\ UNCHANGED <<peerVars, threadVars, out, tasks>>

Goto(c, label) == pc' = [pc EXCEPT ![c] = label]

\* LazyRecv(fd, buffer, ..., 0) into the new or current buffer b: n units.
LazyRecv(c, d, b, n) ==
    /\ n \in 1 .. arrived[c][d] - got[c][d]
    /\ held' = [held EXCEPT ![c] = Hold(b, d, got[c][d] + 1, n)]
    /\ got' = [got EXCEPT ![c][d] = @ + n]
    /\ tasks' = Append(tasks, RecvTask(b, Run(c, d, got[c][d] + 1, n)))

\* LazySend from pos on in a piece of heap (of a line or buffer), of all units
\* or, when the window fills up and the send times out or is interrupted, of
\* fewer: n.
LazySend(c, d, source, pos, all, n) ==
    /\ ~gone[c][d]
    /\ ~full[c][d]
    /\ n \in 1 .. all
    /\ n < all => d \in Slow
    /\ full' = [full EXCEPT ![c][d] = n < all]
    /\ tasks' = Append(tasks, SendTask(c, d, source.block, Run(c, d, source.first, source.length), pos, n))
    /\ out' = [out EXCEPT ![c][d] = @ \o [i \in 1 .. n |-> Pending]]

\* buffptr->size >= MAXBUFFSIZE keeps read_buffer_lazy from reading.
Room(c, d) == size[c][d] < MaxSize

\* The receive of read_buffer_lazy.  It fails at the end of the stream, or
\* when there is no memory.
ReadFails(c, d) ==
    /\ Room(c, d)
    /\ \/ Free = {}
       \/ Closed(c, d)

ReadBuffer(c, d) ==
    /\ Room(c, d)
    /\ \E b \in Free, n \in 1 .. ReadSize : LazyRecv(c, d, b, n)

\* add_to_bufferCopier: the copy of the units is posted, the buffer freed.
Prepended(c, d, line) == <<line>> \o lines[c][d]
Appended(c, d, line) == Append(lines[c][d], line)

AddToBuffer(c, d) ==
    /\ \E b \in Free :
          LET line == [block |-> b, first |-> held[c].first,
                       length |-> held[c].length, pos |-> 0]
          IN /\ lines' = [lines EXCEPT ![c][d] = Appended(c, d, line)]
             /\ tasks' = Append(tasks, CopyTask(b, held[c].block,
                                            Run(c, d, held[c].first, held[c].length)))
    /\ size' = [size EXCEPT ![c][d] = @ + held[c].length]
    /\ held' = [held EXCEPT ![c] = NotHeld]

\* Where in the line LazySend begins, and how much it is given.
SendFrom(line) == line.pos
Whole(line) == line.length
Rest(line) == line.length - line.pos

\* What remove_from_buffer takes off buffer_size.
RestOfLine(line, n) == n
LineLength(line, n) == line.length

\* write_buffer_lazy of a list that is not empty, to a peer that takes units.
WriteBuffer(c, d) ==
    /\ size[c][d] > 0
    /\ LET line == Head(lines[c][d])
           rest == Rest(line)
       IN \E n \in 1 .. rest :
             /\ LazySend(c, d, line, SendFrom(line), rest, n)
             /\ IF n = rest
                THEN /\ lines' = [lines EXCEPT ![c][d] = Tail(@)]
                     /\ size' = [size EXCEPT ![c][d] = @ - LineLength(line, n)]
                ELSE /\ lines' = [lines EXCEPT ![c][d][1].pos = @ + n]
                     /\ UNCHANGED size

-----------------------------------------------------------------------------
(* A connection's thread before the relay                                  *)

\* A line is read and kept in the heap (readline, the table of headers).
HeadIn(c, d, from, to) ==
    /\ pc[c] = from
    /\ got[c][d] < arrived[c][d]
    /\ \E b \in Free :
          /\ held' = [held EXCEPT ![c] = Hold(b, d, got[c][d] + 1, 1)]
          /\ mem' = [mem EXCEPT ![b] = Run(c, d, got[c][d] + 1, 1)]
          /\ spoiled' = spoiled \cup ReadLater(b) \cup
                (IF WrittenLater(b) THEN {Unit(c, d, got[c][d] + 1)} ELSE {})
    /\ got' = [got EXCEPT ![c][d] = @ + 1]
    /\ Goto(c, to)
    /\ UNCHANGED <<peerVars, lines, size, left, ready, out, tasks>>

\* It is written from there (write_message).
HeadOut(c, d, from, to) ==
    /\ pc[c] = from
    /\ ~gone[c][d]
    /\ out' = [out EXCEPT ![c][d] = @ \o Piece(mem[held[c].block], 0, 1)]
    /\ held' = [held EXCEPT ![c] = NotHeld]
    /\ Goto(c, to)
    /\ UNCHANGED <<peerVars, got, lines, size, left, ready, mem, tasks, spoiled>>

BodyLeft(c) == BodyLength + 1 - got[c]["up"]

\* pull_client_data: all of the body goes through one buffer.
BodyIn(c) ==
    /\ pc[c] = "body"
    /\ \E b \in IF held[c].block = NoBlock THEN Free ELSE {held[c].block} :
       \E n \in 1 .. BodyLeft(c) :
          LazyRecv(c, "up", b, n)
    /\ Goto(c, "bodyHeld")
    /\ UNCHANGED <<peerVars, lines, size, left, ready, out, mem, spoiled>>

\* safe_write_copier: again and again until all is taken.
BodyOut(c) ==
    /\ pc[c] = "bodyHeld"
    /\ LET sent == Len(out[c]["up"]) + 1 - held[c].first
           rest == held[c].length - sent
       IN \E n \in 1 .. rest :
             /\ LazySend(c, "up", held[c], sent, rest, n)
             /\ IF n < rest THEN UNCHANGED <<pc, held>>
                ELSE IF BodyLeft(c) > 0 THEN Goto(c, "body") /\ UNCHANGED held
                ELSE /\ Goto(c, "response")
                     /\ held' = [held EXCEPT ![c] = NotHeld]
    /\ UNCHANGED <<sourceVars, got, lines, size, left, ready, mem, spoiled>>

GiveUp(c) ==
    /\ held' = [held EXCEPT ![c] = NotHeld]
    /\ Goto(c, "destroy")
    /\ UNCHANGED <<peerVars, got, lines, size, left, ready, out, mem, tasks, spoiled>>

\* An error before the relay (HC_FAIL).
Fail(c) ==
    /\ \/ pc[c] \in {"request", "body"} /\ Closed(c, "up")
       \/ pc[c] = "response" /\ Closed(c, "down")
       \/ pc[c] = "body" /\ held[c].block = NoBlock /\ Free = {}
       \/ pc[c] \in {"request", "response"} /\ Free = {}
       \/ pc[c] \in {"requestHeld", "bodyHeld"} /\ gone[c]["up"]
       \/ pc[c] = "responseHeld" /\ gone[c]["down"]
    /\ GiveUp(c)

-----------------------------------------------------------------------------
(* relay_connection                                                        *)

Readable(c, d) ==
    /\ Room(c, d)
    /\ got[c][d] < arrived[c][d] \/ Closed(c, d)

\* mypoll returns because there is something to read.  That it also returns,
\* again and again, while a list is not empty and its peer takes bytes, has no
\* consequence: the loop does not look at MYPOLL_WRITE.
Poll(c) ==
    /\ pc[c] = "poll"
    /\ Readable(c, "down") \/ Readable(c, "up")
    /\ ready' = [ready EXCEPT ![c] = Readable(c, "up")]
    /\ Goto(c, IF Readable(c, "down") THEN "readDown" ELSE "readUp")
    /\ UNCHANGED <<peerVars, got, held, lines, size, left, out, mem, tasks, spoiled>>

\* A time limit is over: that of the sockets before the relay, that of mypoll
\* in it, when there is nothing to read and no peer to write to.
Timeout(c) ==
    /\ \/ pc[c] \in {"request", "body"} /\ got[c]["up"] = arrived[c]["up"]
       \/ pc[c] = "response" /\ got[c]["down"] = arrived[c]["down"]
       \/ pc[c] = "bodyHeld" /\ full[c]["up"]
       \/ /\ pc[c] = "poll"
          /\ \A d \in Dirs : ~Readable(c, d) /\ (size[c][d] > 0 => full[c][d])
    /\ GiveUp(c)

\* mypoll fails with EINTR: the thread was signalled at the shutdown.
Interrupt(c) ==
    /\ pc[c] = "poll"
    /\ GiveUp(c)

Read(c, d, from, to) ==
    /\ pc[c] = from
    /\ IF ReadFails(c, d)
       THEN Goto(c, "flushDown") /\ UNCHANGED <<got, held, tasks>>
       ELSE ReadBuffer(c, d) /\ Goto(c, to)
    /\ UNCHANGED <<peerVars, lines, size, left, ready, out, mem, spoiled>>

\* The line is added; the server's announced length may be reached with it.
\* Without memory for the line what was received is lost.
Add(c, d, from, to) ==
    /\ pc[c] = from
    /\ IF Free = {}
       THEN /\ held' = [held EXCEPT ![c].block = NoBlock]
            /\ Goto(c, "flushDown")
            /\ UNCHANGED <<lines, size, tasks, left>>
       ELSE /\ AddToBuffer(c, d)
            /\ left' = IF d = "down" THEN [left EXCEPT ![c] = @ - held[c].length] ELSE left
            /\ Goto(c, IF d = "down" /\ left'[c] = 0 THEN "flushDown" ELSE to)
    /\ UNCHANGED <<peerVars, got, ready, out, mem, spoiled>>

\* One line is written after each read; a full window is no error.
Write(c, d, from, to) ==
    /\ pc[c] = from
    /\ \/ WriteBuffer(c, d) /\ Goto(c, to)
       \/ full[c][d] /\ ~gone[c][d] /\ Goto(c, to) /\ UNCHANGED <<full, lines, size, tasks, out>>
       \/ gone[c][d] /\ Goto(c, "flushDown") /\ UNCHANGED <<full, lines, size, tasks, out>>
    /\ UNCHANGED <<sourceVars, got, held, left, ready, mem, spoiled>>

NextReader(c) == IF ready[c] THEN "readUp" ELSE "poll"

\* A list is written out after the loop; an error ends that, a full window
\* does not.
Unflushed(c, d) == FALSE
MoreUntilEmpty(c, d) == size[c][d] > 0
More(c, d) == size[c][d] > 0 /\ ~gone[c][d]

Flush(c, d, from, to) ==
    /\ pc[c] = from
    /\ IF More(c, d)
       THEN WriteBuffer(c, d) /\ UNCHANGED pc
       ELSE Goto(c, to) /\ UNCHANGED <<full, lines, size, tasks, out>>
    /\ UNCHANGED <<sourceVars, got, held, left, ready, mem, spoiled>>

\* conn_destroy_contents: the sockets are closed, both lists freed.
Destroy(c) ==
    /\ pc[c] = "destroy"
    /\ lines' = [lines EXCEPT ![c] = [d \in Dirs |-> <<>>]]
    /\ size' = [size EXCEPT ![c] = [d \in Dirs |-> 0]]
    /\ Goto(c, "done")
    /\ UNCHANGED <<peerVars, got, held, left, ready, out, mem, tasks, spoiled>>

Thread(c) ==
    \/ HeadIn(c, "up", "request", "requestHeld")
    \/ HeadOut(c, "up", "requestHeld", IF BodyLength > 0 THEN "body" ELSE "response")
    \/ BodyIn(c)
    \/ BodyOut(c)
    \/ HeadIn(c, "down", "response", "responseHeld")
    \/ HeadOut(c, "down", "responseHeld", "poll")
    \/ Fail(c)
    \/ Poll(c)
    \/ Read(c, "down", "readDown", "addDown")
    \/ Add(c, "down", "addDown", "writeDown")
    \/ Write(c, "down", "writeDown", NextReader(c))
    \/ Read(c, "up", "readUp", "addUp")
    \/ Add(c, "up", "addUp", "writeUp")
    \/ Write(c, "up", "writeUp", "poll")
    \/ Flush(c, "down", "flushDown", "flushUp")
    \/ Flush(c, "up", "flushUp", "destroy")
    \/ Destroy(c)

Peer(c, d) == Arrive(c, d) \/ Over(c, d) \/ Gone(c, d) \/ Drain(c, d)

Next ==
    \/ \E c \in Conns, d \in Dirs : Peer(c, d)
    \/ \E c \in Conns : Thread(c) \/ Timeout(c) \/ Interrupt(c)
    \/ \E b \in Blocks : WriteFreed(b)
    \/ CopierStep

\* The threads run and the service copies for ever.  The peers owe nothing
\* but to read what was sent to them.
Fairness ==
    /\ \A c \in Conns : WF_vars(Thread(c)) /\ WF_vars(Timeout(c))
    /\ \A c \in Conns, d \in Dirs : WF_vars(Drain(c, d))
    /\ WF_vars(CopierStep)

Spec == Init /\ [][Next]_vars /\ Fairness

-----------------------------------------------------------------------------
Labels == {"request", "requestHeld", "body", "bodyHeld", "response", "responseHeld",
           "poll", "readDown", "addDown", "writeDown", "readUp", "addUp", "writeUp",
           "flushDown", "flushUp", "destroy", "done"}
Relaying == {"poll", "readDown", "addDown", "writeDown", "readUp", "addUp", "writeUp",
             "flushDown", "flushUp"}

Units == {Unit(c, d, i) : c \in Conns, d \in Dirs, i \in 1 .. Length["up"] + Length["down"]}

\* The values each variable may take; a list takes one buffer more than
\* MAXBUFFSIZE - 1 at most.
TypeOK ==
    /\ pc \in [Conns -> Labels]
    /\ \A c \in Conns, d \in Dirs :
          /\ arrived[c][d] \in 0 .. Length[d]
          /\ got[c][d] \in 0 .. arrived[c][d]
          /\ <<over[c][d], full[c][d], gone[c][d], ready[c]>> \in BOOLEAN \X BOOLEAN \X BOOLEAN \X BOOLEAN
          /\ size[c][d] \in 0 .. MaxSize + ReadSize - 1
          /\ Len(out[c][d]) <= got[c][d]
          /\ \A i \in 1 .. Len(out[c][d]) : out[c][d][i] \in Units \cup {Pending, Junk}
          /\ \A i \in 1 .. Len(lines[c][d]) : lines[c][d][i].block \in Blocks
    /\ \A c \in Conns : left[c] \in Int /\ held[c].block \in Blocks \cup {NoBlock}
    /\ \A b \in Blocks : \A i \in 1 .. Len(mem[b]) : mem[b][i] \in Units \cup {Junk}
    /\ spoiled \subseteq Units

\* Whatever is in place in an outgoing stream is the unit that the other side
\* sent as this one of its stream: no unit is lost in between, doubled, out of
\* order, or of another connection, although buffers and lines are freed and
\* given out again while receives, copies and sends of their old contents are
\* still to be done.  The exception is a unit whose piece of heap was written by
\* the processor before the task that reads it; no other unit suffers by that.
RelayedInOrder ==
    \A c \in Conns, d \in Dirs : \A i \in 1 .. Len(out[c][d]) :
        Unit(c, d, i) \in spoiled \/ out[c][d][i] \in {Pending, Unit(c, d, i)}

\* Units that were received and have no line: on their way to one, or lost for
\* want of memory.
NotAdded(c, d) == IF held[c].dir = d THEN held[c].length ELSE 0

\* In the relay the list of a stream holds just what was received and not
\* sent, in order, and buffer_size counts whole lines, so that it is 0 just
\* when there is no line, as add_to_bufferCopier asserts.
ListIsTheGap ==
    \A c \in Conns, d \in Dirs : pc[c] \in Relaying =>
        LET list == lines[c][d]
            added == got[c][d] - NotAdded(c, d)
        IN IF list = <<>>
           THEN size[c][d] = 0 /\ Len(out[c][d]) = added
           ELSE /\ size[c][d] = added + 1 - list[1].first
                /\ list[1].first + list[1].pos = Len(out[c][d]) + 1
                /\ list[1].pos < list[1].length
                /\ \A i \in 2 .. Len(list) :
                      /\ list[i].pos = 0
                      /\ list[i].first = list[i - 1].first + list[i - 1].length

\* When the client's socket is shut down, all that was received from the
\* server and added to the list has been sent, if the client takes it.
FlushedAtShutdown ==
    \A c \in Conns :
        pc[c] = "flushUp" /\ ~gone[c]["down"] =>
            Len(out[c]["down"]) = got[c]["down"] - NotAdded(c, "down")

\* The relay waits for one of its peers, a line for the client at hand, and
\* takes nothing from the server, which is silent or is kept out by the limit.
Forgotten(c) ==
    pc[c] = "poll" /\ lines[c]["down"] # <<>> /\ ~Readable(c, "down")

\* What was received from the server is sent, and when the server has closed its
\* side the connection comes to its end, with sends that are taken in part, a
\* full window or a client that is gone.  The one way to be left waiting is that
\* of a line behind such a send: only the next read from the server moves it,
\* and with the list at its limit there is none.
ServerIsHeard ==
    \A c \in Conns :
        /\ lines[c]["down"] # <<>> ~> lines[c]["down"] = <<>> \/ []Forgotten(c)
        /\ over[c]["down"] ~> pc[c] = "done" \/ []Forgotten(c)
=============================================================================
