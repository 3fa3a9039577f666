------------------------------ MODULE KvServer ------------------------------
(***************************************************************************)
(* The key-value server of libs/protobuf/copier.  One client is served     *)
(* after the other: it tells two numbers, the length of its messages and   *)
(* how many there are, and gets each back.  A message is received into a   *)
(* buffer by one or more receive calls that return before the bytes are    *)
(* there; the descriptor tells how far the copy has come.  The message is  *)
(* parsed block by block behind the descriptor and stored under its key,   *)
(* and a reply is sent, which the client waits for.                        *)
(*                                                                         *)
(* A cell is a granule of a message; the first one holds the key.          *)
(***************************************************************************)
EXTENDS Integers, Sequences

CONSTANTS Clients,      \* the clients
          Length,       \* Length[c]: messageLength, cells of each message of c
          Epochs,       \* Epochs[c]: totalEpho, how many messages c sends
          Torn,         \* clients whose messages may come in pieces
          Quitters,     \* clients that may leave at any time
          Garbage,      \* what a number may be that was never received
          Block,        \* the block size of the stream
          MaxFds,       \* sockets the process may have open
          NoClient      \* no client

ASSUME KvAssumption ==
    /\ Length \in [Clients -> Nat \ {0}]
    /\ Epochs \in [Clients -> Nat \ {0}]
    /\ Torn \subseteq Clients
    /\ Quitters \subseteq Clients
    /\ Garbage \subseteq Nat
    /\ Block \in Nat \ {0}
    /\ MaxFds \in Nat
    /\ NoClient \notin Clients

\* What a message in pieces needs: it fits into one block.
TornAssumption == \A c \in Torn : Length[c] <= Block

VARIABLES client,       \* client[c]: "away", "open" or "gone"
          backlog,      \* the connections accept has not returned yet
          told,         \* told[c]: numbers c has sent, 0, 1 or 2
          echoed,       \* echoed[c]: numbers it got back
          sent,         \* sent[c]: messages c has sent
          replied,      \* replied[c]: replies it was sent
          unread,       \* unread[c]: cells in the socket of c
          pc,           \* where the server is
          cur,          \* whose socket client_sock is
          fds,          \* sockets that are open
          messageLength, totalEpho,     \* the numbers of the client in service
          offset,       \* currentOffset
          epoch,        \* currentEpho
          buffer,       \* the buffer, at the same place for every client
          descriptor,   \* bufferDescriptor
          pending,      \* granules that are received and not copied yet
          position,     \* position_ of the stream
          parsed,       \* the cells parsed so far
          store         \* storage.store: a message by its key

helloVars == <<client, backlog, told, echoed>>
numberVars == <<messageLength, totalEpho>>
recvVars == <<offset, epoch>>
streamVars == <<position, parsed>>
vars == <<helloVars, sent, replied, unread, pc, cur, fds, numberVars, recvVars, buffer,
          descriptor, pending, streamVars, store>>

\* Message m of c: it has the key m, whoever sends it.
Cell(c, m, i) == [from |-> c, key |-> m, part |-> i]
Message(c, m) == [i \in 1 .. Length[c] |-> Cell(c, m, i)]
Junk == [from |-> NoClient, key |-> 0, part |-> 0]

\* The keys; 0 is what a message of junk would be stored under.
Keys == {0} \cup UNION {1 .. Epochs[c] : c \in Clients}

Init ==
    /\ client = [c \in Clients |-> "away"]
    /\ backlog = {}
    /\ told = [c \in Clients |-> 0]
    /\ echoed = [c \in Clients |-> 0]
    /\ sent = [c \in Clients |-> 0]
    /\ replied = [c \in Clients |-> 0]
    /\ unread = [c \in Clients |-> 0]
    /\ pc = "accept"
    /\ cur = NoClient
    /\ fds = 0
    /\ messageLength = 0
    /\ totalEpho = 0
    /\ offset = 0
    /\ epoch = 0
    /\ buffer = <<>>
    /\ descriptor = 0
    /\ pending = <<>>
    /\ position = 0
    /\ parsed = <<>>
    /\ store = [k \in Keys |-> <<>>]

-----------------------------------------------------------------------------
(* The clients                                                             *)

\* The server's part that no step of a client touches.
serverVars == <<replied, pc, cur, fds, numberVars, recvVars, buffer, descriptor, pending,
                streamVars, store>>

Connect(c) ==
    /\ client[c] = "away"
    /\ client' = [client EXCEPT ![c] = "open"]
    /\ backlog' = backlog \cup {c}
    /\ UNCHANGED <<told, echoed, sent, unread, serverVars>>

\* The length, which need not wait for accept, or the number of messages, once
\* the length has come back.
Tell(c) ==
    /\ client[c] = "open"
    /\ told[c] < 2
    /\ told[c] = echoed[c]
    /\ told' = [told EXCEPT ![c] = @ + 1]
    /\ UNCHANGED <<client, backlog, echoed, sent, unread, serverVars>>

\* The next message, once the one before is answered.
Send(c) ==
    /\ client[c] = "open"
    /\ told[c] = 2 /\ echoed[c] = 2
    /\ sent[c] = replied[c]
    /\ sent[c] < Epochs[c]
    /\ sent' = [sent EXCEPT ![c] = @ + 1]
    /\ unread' = [unread EXCEPT ![c] = Length[c]]
    /\ UNCHANGED <<helloVars, serverVars>>

Quit(c) ==
    /\ c \in Quitters
    /\ client[c] = "open"
    /\ replied[c] < Epochs[c]
    /\ client' = [client EXCEPT ![c] = "gone"]
    /\ UNCHANGED <<backlog, told, echoed, sent, unread, serverVars>>

-----------------------------------------------------------------------------
(* The service                                                             *)

\* A granule is copied and its last byte stored in the descriptor.
CopierStep ==
    /\ pending # <<>>
    /\ LET granule == Head(pending)
       IN /\ buffer' = [buffer EXCEPT ![granule.at] = granule.cell]
          /\ descriptor' = granule.at - 1
    /\ pending' = Tail(pending)
    /\ UNCHANGED <<helloVars, sent, replied, unread, pc, cur, fds, numberVars, recvVars,
                   streamVars, store>>

-----------------------------------------------------------------------------
(* The server                                                              *)

\* A connection is accepted, with its client or without.  As long as no
\* descriptor is left accept fails, and is called again.
Accept(c) ==
    /\ pc = "accept"
    /\ c \in backlog
    /\ fds < MaxFds
    /\ pc' = "length"
    /\ cur' = c
    /\ backlog' = backlog \ {c}
    /\ fds' = fds + 1
    /\ UNCHANGED <<client, told, echoed, sent, replied, unread, numberVars, recvVars, buffer,
                   descriptor, pending, streamVars, store>>

\* The number n of the client in service is received, or it is gone without having
\* sent it; the error is printed, and the variable holds what the stack held.
Number(n, value) == IF told[cur] >= n THEN {value} ELSE Garbage
Answerable(n) == told[cur] >= n \/ client[cur] = "gone"

\* recv waits for the length, without a timeout, and it is sent back.
ReceiveLength ==
    /\ pc = "length"
    /\ Answerable(1)
    /\ messageLength' \in Number(1, Length[cur])
    /\ echoed' = [echoed EXCEPT ![cur] = 1]
    /\ pc' = "epochs"
    /\ UNCHANGED <<client, backlog, told, sent, replied, unread, cur, fds, totalEpho, recvVars,
                   buffer, descriptor, pending, streamVars, store>>

\* A second send to a client that is gone may end the process by SIGPIPE, and a
\* buffer of any length may exhaust the stack.
MayDie == client[cur] = "gone" /\ told[cur] < 2

\* So does recv for the number of messages.  The buffer gets its size; what is in
\* it is what the stack held.
ReceiveEpochs ==
    /\ pc = "epochs"
    /\ Answerable(2)
    /\ totalEpho' \in Number(2, Epochs[cur])
    /\ echoed' = [echoed EXCEPT ![cur] = 2]
    /\ offset' = 0
    /\ epoch' = 0
    /\ buffer' = [i \in 1 .. messageLength |-> IF i <= Len(buffer) THEN buffer[i] ELSE Junk]
    /\ descriptor' = 0
    /\ \/ pc' = IF totalEpho' > 0 THEN "poll" ELSE "accept"
       \/ MayDie /\ pc' = "killed"
    /\ UNCHANGED <<client, backlog, told, sent, replied, unread, cur, fds, messageLength,
                   pending, streamVars, store>>

\* poll returns: there is something to read, or the client has closed.
PollReadable ==
    /\ pc = "poll"
    /\ unread[cur] > 0 \/ client[cur] = "gone"
    /\ pc' = "recv"
    /\ UNCHANGED <<helloVars, sent, replied, unread, cur, fds, numberVars, recvVars, buffer,
                   descriptor, pending, streamVars, store>>

\* Nothing came for half a second; the socket is closed, whatever comes by then.
PollTimeout ==
    /\ pc = "poll"
    /\ unread[cur] = 0
    /\ client[cur] = "open"
    /\ pc' = "drop"
    /\ UNCHANGED <<helloVars, sent, replied, unread, cur, fds, numberVars, recvVars, buffer,
                   descriptor, pending, streamVars, store>>

Drop ==
    /\ pc = "drop"
    /\ pc' = "accept"
    /\ fds' = fds - 1
    /\ client' = [client EXCEPT ![cur] = "gone"]
    /\ unread' = [unread EXCEPT ![cur] = 0]
    /\ UNCHANGED <<backlog, told, echoed, sent, replied, cur, numberVars, recvVars, buffer,
                   descriptor, pending, streamVars, store>>

\* The receive call sets the descriptor to the byte before its place and waits.
ResetDescriptor ==
    /\ pc = "recv"
    /\ pc' = "wait"
    /\ descriptor' = offset - 1
    /\ UNCHANGED <<helloVars, sent, replied, unread, cur, fds, numberVars, recvVars, buffer,
                   pending, streamVars, store>>

\* currentOffset behind a receive that returns n, and behind the message.
OffsetKept(n) == offset + n
OffsetAfter(n) == IF offset + n = messageLength THEN 0 ELSE offset + n

\* What the receive returned is added to the offset; with the last part of a
\* message its parsing begins.
Count(n) ==
    /\ offset' = OffsetAfter(n)
    /\ IF offset + n = messageLength
       THEN /\ pc' = "parse"
            /\ epoch' = epoch + 1
       ELSE /\ pc' = "recv"
            /\ UNCHANGED epoch

\* It returns what has come; the copy is pending.
Receive ==
    /\ pc = "wait"
    /\ unread[cur] > 0
    /\ \E n \in IF cur \in Torn THEN 1 .. unread[cur] ELSE {unread[cur]} :
          /\ pending' = pending \o
                [k \in 1 .. n |-> [at |-> offset + k,
                                   cell |-> Cell(cur, sent[cur], Length[cur] - unread[cur] + k)]]
          /\ unread' = [unread EXCEPT ![cur] = @ - n]
          /\ Count(n)
    /\ UNCHANGED <<helloVars, sent, replied, cur, fds, numberVars, buffer, descriptor,
                   streamVars, store>>

\* It returns 0 at the end of the stream, or -1 if the client left without having
\* read an answer: the offset wraps around.  That is between messages, for one who
\* sends the next has read the answers.
ReceiveNothing ==
    /\ pc = "wait"
    /\ unread[cur] = 0
    /\ client[cur] = "gone"
    /\ \/ Count(0)
       \/ offset = 0 /\ Count(-1)
    /\ UNCHANGED <<helloVars, sent, replied, unread, cur, fds, numberVars, buffer, descriptor,
                   pending, streamVars, store>>

\* The place smartInputDescriptorBufferGet waits for.
FirstOf(from, n) == from
OnePast(from, n) == from + n
Target(from, n) == from + n - 1

BlockAt(p) == IF messageLength - p < Block THEN messageLength - p ELSE Block

\* ArrayInputStreamCopier::Next, and the parser that reads the block.
StreamNext ==
    /\ pc = "parse"
    /\ position < messageLength
    /\ descriptor >= Target(position, BlockAt(position))
    /\ position' = position + BlockAt(position)
    /\ parsed' = parsed \o SubSeq(buffer, position + 1, position + BlockAt(position))
    /\ UNCHANGED <<helloVars, sent, replied, unread, pc, cur, fds, numberVars, recvVars, buffer,
                   descriptor, pending, store>>

\* The key of what was parsed; nothing at all is a message with the key 0.
ParsedKey == IF parsed = <<>> THEN 0 ELSE parsed[1].key

\* The message is stored under its key, and the reply is sent, to whom is still
\* there.  A client that has had all its replies is left with its socket open.
Store ==
    /\ pc = "parse"
    /\ position = messageLength
    /\ store' = [store EXCEPT ![ParsedKey] = parsed]
    /\ replied' = IF client[cur] = "open" THEN [replied EXCEPT ![cur] = @ + 1] ELSE replied
    /\ position' = 0
    /\ parsed' = <<>>
    /\ \/ pc' = IF epoch < totalEpho THEN "poll" ELSE "accept"
       \/ MayDie /\ pc' = "killed"
    /\ UNCHANGED <<helloVars, sent, unread, cur, fds, numberVars, recvVars, buffer, descriptor,
                   pending>>

Server ==
    \/ \E c \in Clients : Accept(c)
    \/ ReceiveLength \/ ReceiveEpochs
    \/ PollReadable \/ PollTimeout \/ Drop
    \/ ResetDescriptor \/ Receive \/ ReceiveNothing
    \/ StreamNext \/ Store

Next ==
    \/ \E c \in Clients : Connect(c) \/ Tell(c) \/ Send(c) \/ Quit(c)
    \/ CopierStep
    \/ Server

\* The service copies and the server runs for ever.  Nothing is asked of the
\* clients; of those that connect each one comes to the front of the queue.
Fairness ==
    /\ WF_vars(CopierStep)
    /\ WF_vars(Server)
    /\ \A c \in Clients : SF_vars(Accept(c))

Spec == Init /\ [][Next]_vars /\ Fairness

-----------------------------------------------------------------------------
\* Where the server is with the buffer of the client in service.
InService == {"poll", "drop", "recv", "wait", "parse"}

\* The values each variable may take.  The offset stays in the message, but for
\* the one that has wrapped around.
TypeOK ==
    /\ client \in [Clients -> {"away", "open", "gone"}]
    /\ backlog \subseteq Clients
    /\ told \in [Clients -> 0 .. 2]
    /\ echoed \in [Clients -> 0 .. 2]
    /\ \A c \in Clients :
          /\ sent[c] \in 0 .. Epochs[c]
          /\ replied[c] \in 0 .. Epochs[c]
          /\ unread[c] \in 0 .. Length[c]
    /\ pc \in {"accept", "length", "epochs", "killed"} \cup InService
    /\ cur \in Clients \cup {NoClient}
    /\ messageLength \in Nat /\ totalEpho \in Nat
    /\ pc \in InService =>
          /\ cur \in Clients
          /\ offset \in {-1, 0} \cup 0 .. messageLength - 1
          /\ epoch \in 0 .. totalEpho
          /\ descriptor \in -2 .. messageLength
          /\ position \in 0 .. messageLength
          /\ Len(buffer) = messageLength

\* A message is stored as one client sent it, cell by cell and under its own
\* key, although it is parsed while it is copied, and the buffer still holds
\* the message before, or that of another client.
StoredAsSent ==
    \A k \in Keys : store[k] # <<>> => \E c \in Clients : store[k] = Message(c, k)

\* Nobody asks the queue whether it is empty before the buffer is received into
\* again, or left to the next client: the copies are done by then all the same.
ReuseAfterCopies == pc \in {"accept", "poll"} => pending = <<>>

\* The server waits for ever for a number from a client that is silent, or for
\* the messages of one that has left.
WaitsForSilent == pc \in {"length", "epochs"} /\ client[cur] = "open"
WaitsForQuitter == pc \in {"recv", "wait"} /\ client[cur] = "gone" /\ unread[cur] = 0

\* It has no socket for another client: none of a client that was served is closed.
OutOfSockets == pc = "accept" /\ fds = MaxFds

\* A client that connects is served or given up.  What may keep it from that are
\* four things, and no other: somebody is silent in the exchange of the numbers,
\* or has left with messages to come, no socket is left, or the process has died
\* of sending to one who left in the exchange.
Served ==
    \A c \in Clients :
        client[c] = "open" ~>
            \/ replied[c] = Epochs[c] \/ client[c] = "gone"
            \/ pc = "killed" \/ []WaitsForSilent \/ []WaitsForQuitter \/ []OutOfSockets
=============================================================================
