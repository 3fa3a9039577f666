--------------------------- MODULE KvServerProofs ---------------------------
(***************************************************************************)
(* What the key-value server stores is what was sent, for any number of    *)
(* clients, messages, lengths and block sizes, provided that a message     *)
(* that comes in pieces is no longer than one block of the stream.         *)
(***************************************************************************)
EXTENDS KvServer, SequenceTheorems, TLAPS

CellType == [from : Clients \cup {NoClient}, key : Nat, part : Nat]
GranuleType == [at : Nat, cell : CellType]

-----------------------------------------------------------------------------
(* The invariant                                                           *)

\* Cells of the message that were received, and those that were copied.
Received == IF pc = "parse" THEN messageLength ELSE IF offset < 0 THEN 0 ELSE offset
Copied == Received - Len(pending)

\* The types the proofs need.
Types ==
    /\ client \in [Clients -> {"away", "open", "gone"}]
    /\ backlog \subseteq Clients
    /\ told \in [Clients -> 0 .. 2]
    /\ echoed \in [Clients -> 0 .. 2]
    /\ sent \in [Clients -> Nat]
    /\ replied \in [Clients -> Nat]
    /\ unread \in [Clients -> Nat]
    /\ pc \in {"accept", "length", "epochs", "poll", "drop", "recv", "wait", "parse", "killed"}
    /\ messageLength \in Nat
    /\ totalEpho \in Nat
    /\ offset \in Int
    /\ position \in Nat
    /\ descriptor \in Int
    /\ pending \in Seq(GranuleType)
    /\ buffer \in Seq(CellType)
    /\ parsed \in Seq(CellType)
    /\ store \in [Keys -> Seq(CellType)]

\* A client has one message under way, and none before it got back both numbers.
OneAtATime ==
    \A c \in Clients :
        /\ sent[c] \in {replied[c], replied[c] + 1}
        /\ sent[c] <= Epochs[c]
        /\ told[c] < 2 \/ echoed[c] < 2 => sent[c] = 0 /\ replied[c] = 0 /\ unread[c] = 0
        /\ sent[c] = replied[c] => unread[c] = 0

\* The numbers of the client in service are its own, unless it left without
\* telling them.
Hello ==
    /\ \A c \in backlog : echoed[c] = 0
    /\ pc \notin {"accept", "killed"} => cur \in Clients /\ cur \notin backlog
    /\ pc = "length" => echoed[cur] = 0
    /\ pc = "epochs" =>
          /\ echoed[cur] = 1
          /\ IF told[cur] = 0 THEN client[cur] = "gone" ELSE messageLength = Length[cur]
    /\ pc \in InService =>
          /\ echoed[cur] = 2
          /\ IF told[cur] = 2 THEN messageLength = Length[cur] ELSE client[cur] = "gone"

\* Nothing is known of a client that has not connected.
Arrived ==
    /\ \A c \in Clients : client[c] = "away" => echoed[c] = 0
    /\ pc \notin {"accept", "killed"} => client[cur] # "away"
    /\ \A c \in backlog : client[c] # "away"

\* What is in the socket and what was received of it make up the message.
InSocket ==
    \/ unread[cur] = 0 /\ offset \in {-1, 0}
    \/ /\ unread[cur] > 0 /\ sent[cur] = replied[cur] + 1
       /\ offset >= 0 /\ offset + unread[cur] = messageLength

\* Between messages nothing is left to copy, and a receive that finds nothing is
\* one for a client that has gone.
Between ==
    /\ pc \notin {"recv", "wait", "parse"} => pending = <<>>
    /\ pc # "parse" => position = 0 /\ parsed = <<>>
    /\ pc \in {"poll", "drop"} => offset = 0
    /\ pc \in InService => Len(buffer) = messageLength
    /\ pc \in {"poll", "drop", "recv", "wait"} => InSocket
    /\ pc \in {"recv", "wait"} =>
          /\ cur \notin Torn => offset <= 0
          /\ unread[cur] = 0 => client[cur] = "gone"

\* The cells in front of the copy are those of the message, and the granules
\* that are pending continue them.
CopyInOrder ==
    pc \in InService =>
        /\ Len(pending) <= Received
        /\ \A k \in 1 .. Len(pending) :
              pending[k] = [at |-> Copied + k, cell |-> Cell(cur, sent[cur], Copied + k)]
        /\ \A i \in 1 .. Copied : buffer[i] = Cell(cur, sent[cur], i)

\* The descriptor tells the truth about a message that came whole; about one
\* that came in pieces it does when it is at the end.
Truthful ==
    /\ pc = "wait" /\ unread[cur] > 0 =>
          /\ descriptor < messageLength - 1
          /\ cur \notin Torn => descriptor = -1
    /\ pc = "parse" =>
          /\ offset = 0 /\ unread[cur] = 0
          /\ messageLength > 0 =>
                /\ told[cur] = 2 /\ sent[cur] = replied[cur] + 1
                /\ descriptor >= messageLength - 1 => pending = <<>>
                /\ cur \notin Torn => descriptor = Copied - 1

\* The parser is behind the copy.
ParsedInOrder ==
    pc = "parse" =>
        /\ position <= Copied
        /\ cur \in Torn => position \in {0, messageLength}
        /\ Len(parsed) = position
        /\ \A i \in 1 .. position : parsed[i] = Cell(cur, sent[cur], i)

\* The inductive invariant.
KvInv ==
    /\ Types
    /\ OneAtATime
    /\ Hello
    /\ Arrived
    /\ Between
    /\ CopyInOrder
    /\ Truthful
    /\ ParsedInOrder
    /\ StoredAsSent

-----------------------------------------------------------------------------
(* Lemmas                                                                  *)

\* A cell of a message is a cell.
LEMMA CellTyped ==
    ASSUME NEW c \in Clients, NEW m \in Nat, NEW i \in Nat
    PROVE  Cell(c, m, i) \in CellType
BY DEF Cell, CellType

\* A message that is put together cell by cell is the one that was sent.
LEMMA WholeMessage ==
    ASSUME NEW c \in Clients, NEW m \in Nat, NEW s \in Seq(CellType),
           Len(s) = Length[c],
           \A i \in 1 .. Length[c] : s[i] = Cell(c, m, i)
    PROVE  s = Message(c, m)
BY KvAssumption DEF KvAssumption, Message

\* A function on 1 .. n is a sequence.
LEMMA SequenceOf ==
    ASSUME NEW S, NEW n \in Nat, NEW f \in [1 .. n -> S]
    PROVE  f \in Seq(S) /\ Len(f) = n
OBVIOUS

\* n cells of a sequence behind the first p.
LEMMA Part ==
    ASSUME NEW S, NEW s \in Seq(S), NEW p \in Nat, NEW n \in Nat, p + n <= Len(s)
    PROVE  /\ SubSeq(s, p + 1, p + n) \in Seq(S)
           /\ Len(SubSeq(s, p + 1, p + n)) = n
           /\ \A j \in 1 .. n : SubSeq(s, p + 1, p + n)[j] = s[p + j]
<1>1. p + 1 \in Int /\ p + n \in Int /\ \A i \in p + 1 .. p + n : s[i] \in S
  OBVIOUS
<1>2. /\ SubSeq(s, p + 1, p + n) \in Seq(S)
      /\ Len(SubSeq(s, p + 1, p + n)) =
            IF p + 1 <= p + n THEN p + n - (p + 1) + 1 ELSE 0
      /\ \A j \in 1 .. p + n - (p + 1) + 1 : SubSeq(s, p + 1, p + n)[j] = s[p + 1 + j - 1]
  BY <1>1, SubSeqProperties
<1>3. p + n - (p + 1) + 1 = n /\ (p + 1 <= p + n \/ n = 0) /\ \A j \in 1 .. n : p + 1 + j - 1 = p + j
  OBVIOUS
<1> QED
  BY <1>2, <1>3

\* Two sequences, one behind the other.
LEMMA Appended ==
    ASSUME NEW S, NEW s \in Seq(S), NEW t \in Seq(S)
    PROVE  /\ s \o t \in Seq(S) /\ Len(s \o t) = Len(s) + Len(t)
           /\ \A i \in 1 .. Len(s) : (s \o t)[i] = s[i]
           /\ \A i \in 1 .. Len(t) : (s \o t)[Len(s) + i] = t[i]
<1>1. s \o t \in Seq(S) /\ Len(s \o t) = Len(s) + Len(t)
  OBVIOUS
<1>2. \A i \in 1 .. Len(s) : (s \o t)[i] = s[i]
  OBVIOUS
<1>3. ASSUME NEW i \in 1 .. Len(t)
      PROVE  (s \o t)[Len(s) + i] = t[i]
  <2>1. Len(s) \in Nat /\ Len(t) \in Nat /\ i \in Nat /\ 1 <= i /\ i <= Len(t)
    OBVIOUS
  <2>2. Len(s) + i \in 1 .. Len(s) + Len(t) /\ Len(s) + i > Len(s)
    BY <2>1
  <2>3. Len(s) + i - Len(s) = i
    BY <2>1
  <2> QED
    BY <2>1, <2>2, <2>3
<1> QED
  BY <1>1, <1>2, <1>3

\* The server starts without a client.
LEMMA InitInv == Init => KvInv
<1> SUFFICES ASSUME Init PROVE KvInv
  OBVIOUS
<1>1. Types
  BY DEF Init, Types
<1>2. OneAtATime
  <2>1. \A c \in Clients : sent[c] = 0 /\ replied[c] = 0 /\ unread[c] = 0
    BY Zenon DEF Init
  <2>2. \A c \in Clients : Epochs[c] \in Nat
    BY KvAssumption DEF KvAssumption
  <2>3. ASSUME NEW c \in Clients
        PROVE  /\ sent[c] = 0 /\ replied[c] = 0
               /\ sent[c] <= Epochs[c]
               /\ unread[c] = 0
    BY <2>1, <2>2
  <2> QED
    BY <2>3 DEF OneAtATime
<1>3. Hello /\ Arrived /\ Between /\ CopyInOrder /\ Truthful /\ ParsedInOrder
  BY DEF Init, Hello, Arrived, Between, CopyInOrder, Truthful, ParsedInOrder, InService
<1>4. StoredAsSent
  BY DEF Init, StoredAsSent
<1> QED
  BY <1>1, <1>2, <1>3, <1>4 DEF KvInv

-----------------------------------------------------------------------------
(* Steps of the clients and of the service                                 *)

\* Connecting, telling and leaving touch nothing of a message.
LEMMA ConnectQuitInv ==
    ASSUME KvInv, NEW c \in Clients, Connect(c) \/ Tell(c) \/ Quit(c)
    PROVE  KvInv'
<1>1. Types'
  <2>1. CASE Connect(c) \/ Quit(c)
    BY <2>1 DEF KvInv, Types, Connect, Quit, serverVars, numberVars, recvVars, streamVars
  <2>2. CASE Tell(c)
    <3>1. /\ told' = [told EXCEPT ![c] = @ + 1] /\ told[c] < 2 /\ told \in [Clients -> 0 .. 2]
          /\ UNCHANGED <<client, backlog, echoed, sent, replied, unread, pc, messageLength,
                         totalEpho, offset, buffer, descriptor, pending, position, parsed, store>>
      BY <2>2 DEF KvInv, Types, Tell, serverVars, numberVars, recvVars, streamVars
    <3>2. told[c] + 1 \in 0 .. 2
      BY <3>1
    <3>3. told' \in [Clients -> 0 .. 2]
      BY <3>1, <3>2
    <3> QED
      BY <3>1, <3>3 DEF KvInv, Types
  <2> QED
    BY <2>1, <2>2
<1>2. OneAtATime'
  <2>1. UNCHANGED <<echoed, sent, replied, unread>>
    BY DEF Connect, Tell, Quit, serverVars
  <2>2. \A d \in Clients : told'[d] < 2 => told[d] < 2
    BY DEF Connect, Tell, Quit, KvInv, Types
  <2> QED
    BY <2>1, <2>2 DEF KvInv, OneAtATime
<1>3. UNCHANGED <<sent, replied, unread, pc, cur, messageLength, totalEpho, offset, buffer,
                 descriptor, pending, position, parsed, store>>
  BY DEF Connect, Tell, Quit, serverVars, numberVars, recvVars, streamVars
<1>4. Received' = Received /\ Copied' = Copied /\ InSocket' = InSocket
  BY <1>3 DEF Received, Copied, InSocket
<1>5. \A d \in Clients : client[d] = "gone" => client'[d] = "gone" /\ told'[d] = told[d]
  BY DEF Connect, Tell, Quit, KvInv, Types
<1>6. Hello'
  <2>1. CASE Connect(c)
    <3>1. echoed' = echoed /\ backlog' = backlog \cup {c} /\ told' = told /\ client[c] = "away"
      BY <2>1 DEF Connect
    <3>2. echoed[c] = 0 /\ (pc \notin {"accept", "killed"} => c # cur)
      BY <3>1 DEF KvInv, Arrived
    <3> QED
      BY <1>3, <1>5, <3>1, <3>2 DEF KvInv, Hello, InService
  <2>2. CASE Tell(c)
    <3>1. /\ UNCHANGED <<echoed, backlog, client>> /\ told[c] = echoed[c] /\ told[c] < 2
          /\ told' = [told EXCEPT ![c] = @ + 1] /\ client[c] = "open"
      BY <2>2 DEF Tell
    <3>2. pc \in {"epochs"} \cup InService => cur \in Clients
      BY DEF KvInv, Hello, InService
    <3>3. CASE pc = "epochs" /\ cur = c
      <4>1. told[cur] # 0 /\ told'[cur] # 0 /\ messageLength = Length[cur]
        BY <3>1, <3>3 DEF KvInv, Types, Hello
      <4> QED
        BY <1>3, <3>1, <3>3, <4>1 DEF KvInv, Hello, InService
    <3>4. CASE pc \in InService /\ cur = c
      BY <3>1, <3>4 DEF KvInv, Hello
    <3>5. CASE ~(pc \in {"epochs"} \cup InService /\ cur = c)
      <4>1. pc \in {"epochs"} \cup InService => told'[cur] = told[cur]
        BY <3>1, <3>2, <3>5 DEF KvInv, Types
      <4> QED
        BY <1>3, <3>1, <4>1 DEF KvInv, Hello
    <3> QED
      BY <3>3, <3>4, <3>5
  <2>3. CASE Quit(c)
    <3>1. UNCHANGED <<echoed, backlog, told>>
      BY <2>3 DEF Quit
    <3> QED
      BY <1>3, <1>5, <3>1 DEF KvInv, Hello, InService
  <2> QED
    BY <2>1, <2>2, <2>3
<1>7. Arrived'
  <2>1. /\ UNCHANGED <<echoed, pc, cur>> /\ backlog' \subseteq backlog \cup {c} /\ client'[c] # "away"
        /\ \A d \in Clients : client'[d] = "away" => client[d] = "away"
        /\ client[c] = "away" \/ backlog' = backlog
    BY DEF KvInv, Types, Connect, Tell, Quit, serverVars
  <2>2. backlog \subseteq Clients /\ (pc \notin {"accept", "killed"} => cur \in Clients)
    BY DEF KvInv, Types, Hello
  <2> QED
    BY <2>1, <2>2 DEF KvInv, Arrived
<1>8. Between'
  <2>1. pc \in {"recv", "wait"} => cur \in Clients
    BY DEF KvInv, Hello
  <2> QED
    BY <1>3, <1>4, <1>5, <2>1 DEF KvInv, Between
<1>9. CopyInOrder'
  BY <1>3, <1>4, Zenon DEF KvInv, CopyInOrder, Cell
<1>10. Truthful'
  <2>1. pc = "parse" => cur \in Clients
    BY DEF KvInv, Hello
  <2>2. pc = "parse" /\ told[cur] = 2 => told'[cur] = 2
    BY <2>1 DEF Connect, Tell, Quit, KvInv, Types
  <2> QED
    BY <1>3, <1>4, <2>2 DEF KvInv, Truthful
<1>11. (ParsedInOrder /\ StoredAsSent)'
  BY <1>3, <1>4, Zenon DEF KvInv, ParsedInOrder, StoredAsSent, Message, Cell
<1> QED
  BY <1>1, <1>2, <1>6, <1>7, <1>8, <1>9, <1>10, <1>11 DEF KvInv

\* A client sends: it is not one whose message is under way.
LEMMA SendInv ==
    ASSUME KvInv, NEW c \in Clients, Send(c)
    PROVE  KvInv'
<1>a. /\ Length[c] \in Nat \ {0} /\ Epochs[c] \in Nat \ {0} /\ replied[c] \in Nat
      /\ client[c] = "open" /\ told[c] = 2 /\ echoed[c] = 2 /\ sent[c] = replied[c]
      /\ unread[c] = 0
  BY KvAssumption DEF KvAssumption, KvInv, Types, OneAtATime, Send
<1>b. c = cur /\ pc = "parse" => FALSE
  <2> SUFFICES ASSUME c = cur, pc = "parse" PROVE FALSE
    OBVIOUS
  <2>1. messageLength = Length[c]
    BY <1>a DEF KvInv, Hello, InService
  <2>2. sent[c] = replied[c] + 1
    BY <1>a, <2>1 DEF KvInv, Truthful
  <2> QED
    BY <1>a, <2>2
<1>c. c = cur /\ pc \in InService =>
          pc \in {"poll", "drop"} /\ pending = <<>> /\ offset = 0 /\ messageLength = Length[c]
  BY <1>a, <1>b DEF KvInv, Hello, Between, InService
<1>v. UNCHANGED <<client, backlog, told, echoed, replied, pc, cur, messageLength, totalEpho, offset,
                  buffer, descriptor, pending, position, parsed, store>>
  BY DEF Send, helloVars, serverVars, numberVars, recvVars, streamVars
<1>w. /\ sent' = [sent EXCEPT ![c] = @ + 1]
      /\ unread' = [unread EXCEPT ![c] = Length[c]]
  BY DEF Send
<1>1. Types'
  BY <1>a, <1>v, <1>w DEF KvInv, Types
<1>2. OneAtATime'
  BY <1>a, <1>v, <1>w DEF KvInv, Types, OneAtATime, Send
<1>3. (Hello /\ Arrived)'
  BY <1>v DEF KvInv, Hello, Arrived
<1>4. Between'
  <2>1. CASE cur = c /\ pc \in InService
    <3>1. unread'[cur] = Length[c] /\ sent'[cur] = replied[cur] + 1
      BY <1>a, <1>w, <2>1 DEF KvInv, Types
    <3> QED
      BY <1>a, <1>c, <1>v, <2>1, <3>1 DEF KvInv, Between, InSocket
  <2>2. CASE cur # c
    <3>1. pc \in InService => sent'[cur] = sent[cur] /\ unread'[cur] = unread[cur]
      BY <1>w, <2>2 DEF KvInv, Types, Hello
    <3> QED
      BY <1>v, <3>1 DEF KvInv, Between, InSocket, InService
  <2>3. CASE pc \notin InService
    BY <1>v, <2>3 DEF KvInv, Between, InService
  <2> QED
    BY <2>1, <2>2, <2>3
<1>5. CopyInOrder'
  <2>1. UNCHANGED <<pc, cur, offset, buffer, pending>> /\ Received' = Received /\ Copied' = Copied
    BY <1>v DEF Received, Copied
  <2>2. CASE pc \in InService /\ cur = c
    <3>0. pending = <<>> /\ offset = 0 /\ pc # "parse"
      BY <1>c, <2>2
    <3>1. Len(pending) = 0 /\ Received = 0 /\ Copied = 0
      BY <3>0 DEF Received, Copied
    <3> QED
      BY <2>1, <3>1 DEF CopyInOrder
  <2>3. CASE cur # c
    <3>1. sent'[cur] = sent[cur]
      BY <1>w, <2>3 DEF KvInv, Types
    <3> QED
      BY <2>1, <3>1, Zenon DEF KvInv, CopyInOrder, Cell
  <2> QED
    BY <2>1, <2>2, <2>3 DEF CopyInOrder
<1>6. (Truthful /\ ParsedInOrder)'
  <2>1. pc \in {"wait", "parse"} => /\ cur \in Clients /\ cur # c
                                    /\ sent'[cur] = sent[cur] /\ unread'[cur] = unread[cur]
    BY <1>c, <1>w DEF KvInv, Types, Hello, InService
  <2>2. Copied' = Copied
    BY <1>v DEF Received, Copied
  <2> QED
    BY <1>v, <2>1, <2>2 DEF KvInv, Truthful, ParsedInOrder, Cell
<1>7. StoredAsSent'
  BY <1>v, Zenon DEF KvInv, StoredAsSent, Message, Cell
<1> QED
  BY <1>1, <1>2, <1>3, <1>4, <1>5, <1>6, <1>7 DEF KvInv

\* A granule is copied: the next one of the message.
LEMMA CopierInv ==
    ASSUME KvInv, CopierStep
    PROVE  KvInv'
<1> DEFINE g == Head(pending)
<1>v. UNCHANGED <<client, backlog, told, echoed, sent, replied, unread, pc, cur, fds,
                  messageLength, totalEpho, offset, position, parsed, store>>
  BY DEF CopierStep, helloVars, numberVars, recvVars, streamVars
<1>1. /\ pc \in {"recv", "wait", "parse"}
      /\ cur \in Clients
      /\ messageLength \in Nat
      /\ pending \in Seq(GranuleType) /\ pending # <<>>
      /\ Len(pending) \in Nat \ {0}
      /\ Received \in Nat /\ Received <= messageLength
      /\ Len(buffer) = messageLength
      /\ pc # "parse" => Received = offset /\ offset < messageLength /\ cur \in Torn
  <2>1. pending \in Seq(GranuleType) /\ pending # <<>> /\ Len(pending) \in Nat \ {0}
    BY DEF KvInv, Types, CopierStep
  <2>2. pc \in {"recv", "wait", "parse"} /\ cur \in Clients /\ Len(buffer) = messageLength
    BY <2>1 DEF KvInv, Types, Hello, Between, InService
  <2>3. messageLength \in Nat /\ offset \in Int /\ unread[cur] \in Nat
    BY <2>2 DEF KvInv, Types
  <2>4. Len(pending) <= Received
    BY <2>2 DEF KvInv, CopyInOrder, InService
  <2>5. CASE pc = "parse"
    BY <2>1, <2>2, <2>3, <2>5 DEF Received
  <2>6. CASE pc # "parse"
    <3>1. Received = offset /\ offset > 0
      BY <2>1, <2>3, <2>4, <2>6 DEF Received
    <3>2. cur \in Torn /\ offset < messageLength
      BY <2>2, <2>3, <2>6, <3>1 DEF KvInv, Between, InSocket
    <3> QED
      BY <2>1, <2>2, <2>3, <3>1, <3>2
  <2> QED
    BY <2>5, <2>6
<1>2. /\ g = [at |-> Copied + 1, cell |-> Cell(cur, sent[cur], Copied + 1)]
      /\ Copied \in Nat /\ Copied + 1 <= Received
  <2>1. /\ Len(pending) <= Received
        /\ \A k \in 1 .. Len(pending) :
              pending[k] = [at |-> Copied + k, cell |-> Cell(cur, sent[cur], Copied + k)]
    BY <1>1 DEF KvInv, CopyInOrder, InService
  <2>2. 1 \in 1 .. Len(pending) /\ g = pending[1]
    BY <1>1
  <2>3. Copied \in Nat /\ Copied + 1 <= Received
    BY <1>1, <2>1 DEF Copied
  <2> QED
    BY <2>1, <2>2, <2>3
<1>3. /\ pending' = Tail(pending) /\ Len(pending') = Len(pending) - 1
      /\ pending' \in Seq(GranuleType)
      /\ \A k \in 1 .. Len(pending) - 1 : pending'[k] = pending[k + 1]
      /\ Received' = Received /\ Copied' = Copied + 1
  <2>1. pending' = Tail(pending) /\ Received' = Received
    BY <1>v DEF CopierStep, Received
  <2>2. /\ Len(pending') = Len(pending) - 1
        /\ pending' \in Seq(GranuleType)
        /\ \A k \in 1 .. Len(pending) - 1 : pending'[k] = pending[k + 1]
    BY <2>1, <1>1
  <2>3. Copied' = Copied + 1
    BY <2>1, <2>2, <1>1 DEF Copied
  <2> QED
    BY <2>1, <2>2, <2>3
<1>4. /\ buffer' = [buffer EXCEPT ![Copied + 1] = Cell(cur, sent[cur], Copied + 1)]
      /\ descriptor' = Copied
  <2>1. buffer' = [buffer EXCEPT ![g.at] = g.cell] /\ descriptor' = g.at - 1
    BY DEF CopierStep
  <2>2. g.at = Copied + 1 /\ g.cell = Cell(cur, sent[cur], Copied + 1)
    BY <1>2
  <2>3. g.at - 1 = Copied
    BY <2>2, <1>2
  <2> QED
    BY <2>1, <2>2, <2>3, Zenon
<1>5. sent[cur] \in Nat /\ Cell(cur, sent[cur], Copied + 1) \in CellType
  BY <1>1, <1>2, CellTyped DEF KvInv, Types
<1>6. buffer' \in Seq(CellType) /\ Len(buffer') = Len(buffer)
  <2>1. buffer \in Seq(CellType) /\ Len(buffer) \in Nat
    BY DEF KvInv, Types
  <2>2. buffer \in [1 .. Len(buffer) -> CellType]
    BY <2>1
  <2>3. buffer' \in [1 .. Len(buffer) -> CellType]
    BY <2>2, <1>4, <1>5
  <2> QED
    BY <2>1, <2>3, SequenceOf
<1>7. Types'
  <2>2. pending' \in Seq(GranuleType) /\ buffer' \in Seq(CellType) /\ descriptor' \in Int
    BY <1>2, <1>3, <1>4, <1>6
  <2>3. Types
    BY DEF KvInv
  <2> QED
    BY <1>v, <2>2, <2>3 DEF Types
<1>8. (OneAtATime /\ Hello /\ Arrived)'
  BY <1>v DEF KvInv, OneAtATime, Hello, Arrived
<1>9. Between'
  <2>1. InSocket' = InSocket
    BY <1>v DEF InSocket
  <2> QED
    BY <1>v, <1>1, <1>6, <2>1 DEF KvInv, Between
<1>10. CopyInOrder'
  <2>1. \A k \in 1 .. Len(pending') :
           pending'[k] = [at |-> Copied' + k, cell |-> Cell(cur, sent[cur], Copied' + k)]
    <3> SUFFICES ASSUME NEW k \in 1 .. Len(pending) - 1
                 PROVE  pending[k + 1] =
                        [at |-> Copied + 1 + k, cell |-> Cell(cur, sent[cur], Copied + 1 + k)]
      BY <1>3
    <3>1. /\ k + 1 \in 1 .. Len(pending)
          /\ Copied + (k + 1) = Copied + 1 + k
      BY <1>1, <1>2
    <3>2. pending[k + 1] = [at |-> Copied + (k + 1), cell |-> Cell(cur, sent[cur], Copied + (k + 1))]
      BY <3>1, <1>1, Zenon DEF KvInv, CopyInOrder, InService
    <3> QED
      BY <3>1, <3>2
  <2>2. \A i \in 1 .. Copied' : buffer'[i] = Cell(cur, sent[cur], i)
    <3>1. \A i \in 1 .. Copied : buffer[i] = Cell(cur, sent[cur], i)
      BY <1>1 DEF KvInv, CopyInOrder, InService
    <3>2. buffer \in Seq(CellType) /\ Copied + 1 \in 1 .. Len(buffer)
      BY <1>1, <1>2 DEF KvInv, Types
    <3> QED
      BY <3>1, <3>2, <1>2, <1>3, <1>4
  <2>3. Len(pending') <= Received'
    BY <1>1, <1>2, <1>3 DEF Copied
  <2> QED
    BY <1>v, <2>1, <2>2, <2>3 DEF CopyInOrder, Cell
<1>11. Truthful'
  <2>1. CASE pc = "parse"
    <3>1. Received = messageLength /\ Len(pending) = messageLength - Copied
      BY <1>1, <2>1 DEF Received, Copied
    <3>2. messageLength > 0
      BY <1>1, <1>2
    <3>3. messageLength - 1 <= Copied => Len(pending') = 0
      <4>1. messageLength \in Nat /\ Copied \in Nat /\ Len(pending) \in Nat \ {0}
        BY <1>1, <1>2
      <4>2. Len(pending') = Len(pending) - 1
        BY <1>3
      <4> QED
        BY ONLY <4>1, <4>2, <3>1
    <3>4. Len(pending') = 0 => pending' = <<>>
      BY <1>3
    <3>5. /\ offset = 0 /\ unread[cur] = 0
          /\ told[cur] = 2 /\ sent[cur] = replied[cur] + 1
      BY <2>1, <3>2 DEF KvInv, Truthful
    <3>6. descriptor' >= messageLength - 1 => pending' = <<>>
      BY <1>1, <1>2, <1>4, <3>3, <3>4
    <3>7. descriptor' = Copied' - 1
      BY <1>2, <1>3, <1>4
    <3> QED
      BY <1>v, <2>1, <3>5, <3>6, <3>7 DEF Truthful
  <2>2. CASE pc # "parse"
    <3>1. cur \in Torn /\ descriptor' < messageLength - 1
      BY <2>2, <1>1, <1>2, <1>4
    <3> QED
      BY <1>v, <2>2, <3>1 DEF Truthful
  <2> QED
    BY <2>1, <2>2
<1>12. ParsedInOrder'
  <2>1. position \in Nat
    BY DEF KvInv, Types
  <2> QED
    BY <1>v, <1>2, <1>3, <2>1 DEF KvInv, ParsedInOrder, Cell
<1>13. StoredAsSent'
  BY <1>v, Zenon DEF KvInv, StoredAsSent, Message, Cell
<1> QED
  BY <1>7, <1>8, <1>9, <1>10, <1>11, <1>12, <1>13 DEF KvInv

-----------------------------------------------------------------------------
(* Steps of the server                                                     *)

\* A connection is accepted; nothing is known of the client yet.
LEMMA AcceptInv ==
    ASSUME KvInv, NEW c \in Clients, Accept(c)
    PROVE  KvInv'
<1>0. /\ pc = "accept" /\ pc' = "length" /\ cur' = c /\ c \in backlog
      /\ backlog' = backlog \ {c}
      /\ pending = <<>> /\ position = 0 /\ parsed = <<>>
      /\ echoed[c] = 0 /\ client[c] # "away"
      /\ UNCHANGED <<client, told, echoed, sent, replied, unread, messageLength, totalEpho,
                     offset, buffer, descriptor, pending, position, parsed, store>>
  BY DEF Accept, numberVars, recvVars, streamVars, KvInv, Hello, Arrived, Between
<1>1. Types'
  BY <1>0 DEF KvInv, Types
<1>2. (OneAtATime /\ Hello /\ Arrived)'
  BY <1>0 DEF KvInv, OneAtATime, Hello, Arrived, InService
<1>3. (Between /\ CopyInOrder /\ Truthful /\ ParsedInOrder)'
  BY <1>0 DEF Between, CopyInOrder, Truthful, ParsedInOrder, InService
<1>4. StoredAsSent'
  BY <1>0, Zenon DEF KvInv, StoredAsSent, Message, Cell
<1> QED
  BY <1>1, <1>2, <1>3, <1>4 DEF KvInv

\* A number of the client in service is a natural one, received or not.
LEMMA NumberTyped ==
    ASSUME NEW n \in Nat, NEW value \in Nat, NEW x \in Number(n, value)
    PROVE  /\ x \in Nat
           /\ told[cur] >= n => x = value
BY KvAssumption DEF KvAssumption, Number

\* The length is received, or its client is gone.
LEMMA ReceiveLengthInv ==
    ASSUME KvInv, ReceiveLength
    PROVE  KvInv'
<1>0. /\ pc = "length" /\ pc' = "epochs"
      /\ cur \in Clients /\ cur \notin backlog
      /\ echoed[cur] = 0 /\ client[cur] # "away"
      /\ echoed' = [echoed EXCEPT ![cur] = 1]
      /\ pending = <<>> /\ position = 0 /\ parsed = <<>>
      /\ UNCHANGED <<client, backlog, told, sent, replied, unread, cur, totalEpho,
                     offset, buffer, descriptor, pending, position, parsed, store>>
  BY DEF ReceiveLength, recvVars, streamVars, KvInv, Hello, Arrived, Between
<1>1. /\ messageLength' \in Nat
      /\ told[cur] >= 1 => messageLength' = Length[cur]
      /\ told[cur] = 0 => client[cur] = "gone"
  <2>1. messageLength' \in Number(1, Length[cur]) /\ Answerable(1)
    BY DEF ReceiveLength
  <2>2. Length[cur] \in Nat
    BY <1>0, KvAssumption DEF KvAssumption
  <2>3. /\ messageLength' \in Nat
        /\ told[cur] >= 1 => messageLength' = Length[cur]
    BY <2>1, <2>2, NumberTyped
  <2> QED
    BY <2>1, <2>3 DEF Answerable
<1>2. Types'
  BY <1>0, <1>1 DEF KvInv, Types
<1>3. \A d \in Clients : d # cur => echoed'[d] = echoed[d]
  BY <1>0 DEF KvInv, Types
<1>4. echoed'[cur] = 1 /\ told[cur] \in 0 .. 2
  BY <1>0 DEF KvInv, Types
<1>5. OneAtATime'
  BY <1>0, <1>3, <1>4 DEF KvInv, OneAtATime
<1>6. (Hello /\ Arrived)'
  <2>1. backlog \subseteq Clients
    BY DEF KvInv, Types
  <2>2. \A d \in backlog : echoed'[d] = 0
    BY <1>0, <1>3, <2>1 DEF KvInv, Hello
  <2>3. Hello'
    BY <1>0, <1>1, <1>4, <2>2 DEF Hello, InService
  <2>4. Arrived'
    BY <1>0, <1>3 DEF KvInv, Arrived
  <2> QED
    BY <2>3, <2>4
<1>7. (Between /\ CopyInOrder /\ Truthful /\ ParsedInOrder)'
  BY <1>0 DEF Between, CopyInOrder, Truthful, ParsedInOrder, InService
<1>8. StoredAsSent'
  BY <1>0, Zenon DEF KvInv, StoredAsSent, Message, Cell
<1> QED
  BY <1>2, <1>5, <1>6, <1>7, <1>8 DEF KvInv

\* So is the number of messages, and the buffer has its length.
LEMMA ReceiveEpochsInv ==
    ASSUME KvInv, ReceiveEpochs
    PROVE  KvInv'
<1>0. /\ pc = "epochs" /\ pc' \in {"poll", "accept", "killed"}
      /\ cur \in Clients /\ cur \notin backlog
      /\ echoed[cur] = 1 /\ client[cur] # "away"
      /\ echoed' = [echoed EXCEPT ![cur] = 2]
      /\ offset' = 0 /\ descriptor' = 0
      /\ pending = <<>> /\ position = 0 /\ parsed = <<>>
      /\ UNCHANGED <<client, backlog, told, sent, replied, unread, cur, messageLength,
                     pending, position, parsed, store>>
  BY DEF ReceiveEpochs, streamVars, KvInv, Hello, Arrived, Between
<1>1. totalEpho' \in Nat /\ (told[cur] < 2 => client[cur] = "gone")
  <2>1. totalEpho' \in Number(2, Epochs[cur]) /\ Answerable(2)
    BY DEF ReceiveEpochs
  <2>2. Epochs[cur] \in Nat /\ told[cur] \in 0 .. 2
    BY <1>0, KvAssumption DEF KvAssumption, KvInv, Types
  <2>3. totalEpho' \in Nat
    BY <2>1, <2>2, NumberTyped
  <2> QED
    BY <2>1, <2>2, <2>3 DEF Answerable
<1>2. buffer' \in Seq(CellType) /\ Len(buffer') = messageLength
  <2>0. messageLength \in Nat /\ buffer \in Seq(CellType)
    BY DEF KvInv, Types
  <2>1. \A i \in 1 .. messageLength : (IF i <= Len(buffer) THEN buffer[i] ELSE Junk) \in CellType
    <3> SUFFICES ASSUME NEW i \in 1 .. messageLength
                 PROVE  /\ i <= Len(buffer) => buffer[i] \in CellType
                        /\ Junk \in CellType
      OBVIOUS
    <3>1. Junk \in CellType
      BY DEF CellType, Junk
    <3>2. i <= Len(buffer) => buffer[i] \in CellType
      BY <2>0
    <3> QED
      BY <3>1, <3>2
  <2>2. buffer' \in [1 .. messageLength -> CellType]
    BY <2>1 DEF ReceiveEpochs
  <2> QED
    BY <2>0, <2>2, SequenceOf
<1>3. Types'
  BY <1>0, <1>1, <1>2 DEF KvInv, Types
<1>4. \A d \in Clients : d # cur => echoed'[d] = echoed[d]
  BY <1>0 DEF KvInv, Types
<1>5. /\ echoed'[cur] = 2 /\ told[cur] \in 0 .. 2
      /\ sent[cur] = 0 /\ replied[cur] = 0 /\ unread[cur] = 0
  BY <1>0 DEF KvInv, Types, OneAtATime
<1>6. OneAtATime'
  BY <1>0, <1>4, <1>5 DEF KvInv, OneAtATime
<1>7. (Hello /\ Arrived)'
  <2>1. backlog \subseteq Clients
    BY DEF KvInv, Types
  <2>2. \A d \in backlog : echoed'[d] = 0
    BY <1>0, <1>4, <2>1 DEF KvInv, Hello
  <2>3. told[cur] # 0 => messageLength = Length[cur]
    BY <1>0 DEF KvInv, Hello
  <2>4. Hello'
    BY <1>0, <1>1, <1>5, <2>2, <2>3 DEF Hello, InService
  <2>5. Arrived'
    BY <1>0, <1>4 DEF KvInv, Arrived
  <2> QED
    BY <2>4, <2>5
<1>8. (Between /\ Truthful /\ ParsedInOrder)'
  BY <1>0, <1>2, <1>5 DEF Between, InSocket, Truthful, ParsedInOrder
<1>9. CopyInOrder'
  <2>1. pending' = <<>> /\ Received' = 0 /\ Copied' = 0
    BY <1>0 DEF Received, Copied
  <2> QED
    BY <2>1 DEF CopyInOrder
<1>10. StoredAsSent'
  BY <1>0, Zenon DEF KvInv, StoredAsSent, Message, Cell
<1> QED
  BY <1>3, <1>6, <1>7, <1>8, <1>9, <1>10 DEF KvInv

\* poll returns, for one reason or the other.
LEMMA PollInv ==
    ASSUME KvInv, PollReadable \/ PollTimeout
    PROVE  KvInv'
<1>1. /\ pc = "poll"
      /\ \/ pc' = "recv" /\ (unread[cur] = 0 => client[cur] = "gone")
         \/ pc' = "drop"
      /\ offset = 0 /\ cur \in Clients /\ unread[cur] \in Nat
      /\ UNCHANGED <<client, backlog, told, echoed, sent, replied, unread, cur, messageLength,
                     totalEpho, offset, buffer, descriptor, pending, position, parsed, store>>
  <2>1. pc = "poll" /\ offset = 0 /\ cur \in Clients /\ unread[cur] \in Nat
    BY DEF PollReadable, PollTimeout, KvInv, Types, Hello, Between
  <2> QED
    BY <2>1 DEF PollReadable, PollTimeout, helloVars, numberVars, recvVars, streamVars
<1>2. Received' = Received /\ Copied' = Copied /\ InSocket' = InSocket
  BY <1>1 DEF Received, Copied, InSocket
<1>3. (Types /\ OneAtATime /\ Hello /\ Arrived)'
  BY <1>1 DEF KvInv, Types, OneAtATime, Hello, Arrived, InService
<1>4. Between'
  BY <1>1, <1>2 DEF KvInv, Between, InService
<1>5. (CopyInOrder /\ Truthful /\ ParsedInOrder)'
  BY <1>1, <1>2 DEF KvInv, CopyInOrder, Truthful, ParsedInOrder, InService, Cell
<1>6. StoredAsSent'
  BY <1>1, Zenon DEF KvInv, StoredAsSent, Message, Cell
<1> QED
  BY <1>3, <1>4, <1>5, <1>6 DEF KvInv

\* A client that was silent is given up.
LEMMA DropInv ==
    ASSUME KvInv, Drop
    PROVE  KvInv'
<1>1. /\ pc = "drop" /\ pc' = "accept" /\ cur \in Clients
      /\ client' = [client EXCEPT ![cur] = "gone"]
      /\ unread' = [unread EXCEPT ![cur] = 0]
      /\ pending = <<>> /\ position = 0 /\ parsed = <<>>
      /\ UNCHANGED <<backlog, told, echoed, sent, replied, cur, messageLength, totalEpho,
                     offset, buffer, descriptor, pending, position, parsed, store>>
  BY DEF Drop, numberVars, recvVars, streamVars, KvInv, Hello, Between
<1>2. Types'
  BY <1>1 DEF KvInv, Types
<1>3. \A d \in Clients : unread'[d] = 0 \/ unread'[d] = unread[d]
  BY <1>1 DEF KvInv, Types
<1>4. OneAtATime'
  BY <1>1, <1>3 DEF KvInv, OneAtATime
<1>5. \A d \in Clients : client'[d] = "away" => client[d] = "away"
  BY <1>1 DEF KvInv, Types
<1>6. (Hello /\ Arrived)'
  BY <1>1, <1>5 DEF KvInv, Types, Hello, Arrived, InService
<1>7. (Between /\ CopyInOrder /\ Truthful /\ ParsedInOrder)'
  BY <1>1 DEF Between, CopyInOrder, Truthful, ParsedInOrder, InService
<1>8. StoredAsSent'
  BY <1>1, Zenon DEF KvInv, StoredAsSent, Message, Cell
<1> QED
  BY <1>2, <1>4, <1>6, <1>7, <1>8 DEF KvInv

\* The descriptor is set to the byte before the place of the receive.
LEMMA ResetInv ==
    ASSUME KvInv, ResetDescriptor
    PROVE  KvInv'
<1>0. /\ pc = "recv" /\ pc' = "wait" /\ descriptor' = offset - 1
      /\ offset \in Int /\ messageLength \in Nat /\ cur \in Clients /\ unread[cur] \in Nat
      /\ UNCHANGED <<client, backlog, told, echoed, sent, replied, unread, cur, messageLength,
                     totalEpho, offset, buffer, pending, position, parsed, store>>
  <2>1. pc = "recv" /\ offset \in Int /\ messageLength \in Nat /\ cur \in Clients
        /\ unread[cur] \in Nat
    BY DEF ResetDescriptor, KvInv, Types, Hello
  <2> QED
    BY <2>1 DEF ResetDescriptor, helloVars, numberVars, recvVars, streamVars
<1>1. Received' = Received /\ Copied' = Copied /\ InSocket' = InSocket
  BY <1>0 DEF Received, Copied, InSocket
<1>2. Types'
  BY <1>0 DEF KvInv, Types
<1>3. (OneAtATime /\ Hello /\ Arrived)'
  BY <1>0 DEF KvInv, OneAtATime, Hello, Arrived, InService
<1>4. Between'
  BY <1>0, <1>1 DEF KvInv, Between, InService
<1>5. (CopyInOrder /\ ParsedInOrder)'
  BY <1>0, <1>1 DEF KvInv, CopyInOrder, ParsedInOrder, InService, Cell
<1>6. Truthful'
  <2>1. unread[cur] > 0 => offset >= 0 /\ offset + unread[cur] = messageLength
    BY <1>0 DEF KvInv, Between, InSocket
  <2>2. cur \notin Torn => offset <= 0
    BY <1>0 DEF KvInv, Between
  <2> QED
    BY <1>0, <2>1, <2>2 DEF Truthful
<1>7. StoredAsSent'
  BY <1>0, Zenon DEF KvInv, StoredAsSent, Message, Cell
<1> QED
  BY <1>2, <1>3, <1>4, <1>5, <1>6, <1>7 DEF KvInv

\* Nothing is received: the offset stays, wraps around, or ends a message of
\* length 0.
LEMMA ReceiveNothingInv ==
    ASSUME KvInv, ReceiveNothing
    PROVE  KvInv'
<1>0. /\ pc = "wait" /\ unread[cur] = 0 /\ client[cur] = "gone" /\ cur \in Clients
      /\ offset \in {-1, 0} /\ messageLength \in Nat
      /\ UNCHANGED <<client, backlog, told, echoed, sent, replied, unread, cur, messageLength,
                     totalEpho, buffer, descriptor, pending, position, parsed, store>>
  <2>1. pc = "wait" /\ unread[cur] = 0 /\ client[cur] = "gone"
    BY DEF ReceiveNothing
  <2>2. cur \in Clients /\ offset \in {-1, 0} /\ messageLength \in Nat
    BY <2>1 DEF KvInv, Types, Hello, Between, InSocket
  <2> QED
    BY <2>1, <2>2 DEF ReceiveNothing, helloVars, numberVars, streamVars
<1>1. \/ pc' = "parse" /\ messageLength = 0 /\ offset' = 0
      \/ pc' = "recv" /\ offset' \in {-1, 0}
  BY <1>0 DEF ReceiveNothing, Count, OffsetAfter
<1>2. pending = <<>> /\ position = 0 /\ parsed = <<>> /\ Len(buffer) = messageLength
  <2>1. Received = 0 /\ pending \in Seq(GranuleType)
    BY <1>0 DEF Received, KvInv, Types
  <2>2. Len(pending) <= 0
    BY <1>0, <2>1 DEF KvInv, CopyInOrder, InService
  <2>3. pending = <<>>
    BY <2>1, <2>2
  <2> QED
    BY <1>0, <2>3 DEF KvInv, Between, InService
<1>3. Received' = 0 /\ Copied' = 0
  BY <1>0, <1>1, <1>2 DEF Received, Copied
<1>4. Types'
  BY <1>0, <1>1 DEF KvInv, Types
<1>5. (OneAtATime /\ Hello /\ Arrived)'
  BY <1>0, <1>1 DEF KvInv, OneAtATime, Hello, Arrived, InService
<1>6. (Between /\ Truthful)'
  BY <1>0, <1>1, <1>2 DEF Between, InSocket, Truthful
<1>7. (CopyInOrder /\ ParsedInOrder)'
  BY <1>0, <1>2, <1>3 DEF CopyInOrder, ParsedInOrder
<1>8. StoredAsSent'
  BY <1>0, Zenon DEF KvInv, StoredAsSent, Message, Cell
<1> QED
  BY <1>4, <1>5, <1>6, <1>7, <1>8 DEF KvInv

\* What was received is appended to what is pending, in order.
LEMMA ReceiveInv ==
    ASSUME KvInv, Receive
    PROVE  KvInv'
<1>p. PICK n \in IF cur \in Torn THEN 1 .. unread[cur] ELSE {unread[cur]} :
          /\ pending' = pending \o
                [k \in 1 .. n |-> [at |-> offset + k,
                                   cell |-> Cell(cur, sent[cur], Length[cur] - unread[cur] + k)]]
          /\ unread' = [unread EXCEPT ![cur] = @ - n]
          /\ Count(n)
  BY DEF Receive
<1> DEFINE new == [k \in 1 .. n |-> [at |-> offset + k, cell |-> Cell(cur, sent[cur], offset + k)]]
<1>0. /\ pc = "wait" /\ cur \in Clients /\ messageLength \in Nat
      /\ Length[cur] = messageLength /\ told[cur] = 2
      /\ offset \in Nat /\ unread[cur] \in Nat /\ unread[cur] > 0
      /\ n \in 1 .. unread[cur]
      /\ sent[cur] \in Nat /\ sent[cur] = replied[cur] + 1
      /\ offset + unread[cur] = messageLength
      /\ cur \notin Torn => n = unread[cur] /\ offset = 0
      /\ UNCHANGED <<client, backlog, told, echoed, sent, replied, cur, messageLength, totalEpho,
                     buffer, descriptor, position, parsed, store>>
  <2>1. /\ pc = "wait" /\ unread[cur] > 0
        /\ UNCHANGED <<client, backlog, told, echoed, sent, replied, cur, messageLength, totalEpho,
                     buffer, descriptor, position, parsed, store>>
    BY DEF Receive, helloVars, numberVars, streamVars
  <2>2. /\ cur \in Clients /\ offset \in Int /\ unread[cur] \in Nat /\ sent[cur] \in Nat
        /\ messageLength \in Nat /\ told[cur] \in 0 .. 2
    BY <2>1 DEF KvInv, Types, Hello
  <2>3. /\ sent[cur] = replied[cur] + 1 /\ offset >= 0 /\ offset + unread[cur] = messageLength
        /\ cur \notin Torn => offset = 0
    BY <2>1, <2>2 DEF KvInv, Between, InSocket
  <2>4. n \in 1 .. unread[cur] /\ (cur \notin Torn => n = unread[cur])
    BY <1>p, <2>1, <2>2
  <2>5. told[cur] = 2
    BY <2>1, <2>2 DEF KvInv, OneAtATime
  <2>6. Length[cur] = messageLength
    BY <2>1, <2>5 DEF KvInv, Hello, InService
  <2> QED
    BY <2>1, <2>2, <2>3, <2>4, <2>5, <2>6
<1>m. /\ unread' = [unread EXCEPT ![cur] = @ - n]
      /\ offset + n = messageLength => offset' = 0 /\ pc' = "parse"
      /\ offset + n # messageLength => offset' = offset + n /\ pc' = "recv"
  BY <1>p DEF OffsetAfter, Count
<1>1. /\ pending' = pending \o new
      /\ new \in Seq(GranuleType) /\ Len(new) = n
  <2>1. Length[cur] - unread[cur] = offset
    BY <1>0
  <2>2. pending' = pending \o new
    BY <2>1, <1>p, Zenon
  <2>3. \A k \in 1 .. n : [at |-> offset + k, cell |-> Cell(cur, sent[cur], offset + k)]
                             \in GranuleType
    BY <1>0, CellTyped DEF GranuleType
  <2>4. new \in [1 .. n -> GranuleType] /\ n \in Nat
    BY <2>3, <1>0
  <2> QED
    BY <2>2, <2>4, SequenceOf
<1>2. /\ pending \in Seq(GranuleType) /\ Len(pending) \in Nat
      /\ pending' \in Seq(GranuleType)
      /\ Len(pending') = Len(pending) + n
      /\ \A k \in 1 .. Len(pending) : pending'[k] = pending[k]
      /\ \A k \in 1 .. n : pending'[Len(pending) + k] = new[k]
  <2>1. pending \in Seq(GranuleType)
    BY DEF KvInv, Types
  <2> HIDE DEF new
  <2> QED
    <3>1. /\ pending \o new \in Seq(GranuleType)
          /\ Len(pending \o new) = Len(pending) + Len(new)
          /\ \A i \in 1 .. Len(pending) : (pending \o new)[i] = pending[i]
          /\ \A i \in 1 .. Len(new) : (pending \o new)[Len(pending) + i] = new[i]
      <4>1. pending \in Seq(GranuleType) /\ new \in Seq(GranuleType)
        BY <1>1, <2>1
      <4> QED
        BY <4>1, Appended
    <3>2. Len(pending) \in Nat
      BY <2>1
    <3> QED
      BY <1>1, <2>1, <3>1, <3>2, Zenon
<1>3. /\ Received = offset /\ Received' = offset + n
      /\ Len(pending) <= offset /\ Copied' = Copied /\ Copied = offset - Len(pending)
  <2>1. Received = offset /\ Len(pending) <= offset
    BY <1>0 DEF Received, KvInv, CopyInOrder, InService
  <2>2. Received' = offset + n
    BY <1>0, <1>m DEF Received
  <2> QED
    BY <2>1, <2>2, <1>0, <1>2 DEF Copied
<1>4. Types'
  <2>1. unread' \in [Clients -> Nat]
    BY <1>0, <1>m DEF KvInv, Types
  <2>2. pc' \in {"recv", "parse"} /\ offset' \in Int
    BY <1>0, <1>m
  <2>3. pending' \in Seq(GranuleType)
    BY <1>2
  <2>5. Types
    BY DEF KvInv
  <2> QED
    BY <1>0, <2>1, <2>2, <2>3, <2>5 DEF Types
<1>5. OneAtATime'
  <2>1. n \in Nat /\ n >= 1
    BY <1>0
  <2>2. unread' = [unread EXCEPT ![cur] = @ - n] /\ unread[cur] >= n /\ unread \in [Clients -> Nat]
    BY <1>0, <1>m DEF KvInv, Types
  <2>3. \A d \in Clients : unread[d] = 0 => unread'[d] = 0
    BY <2>1, <2>2
  <2> QED
    BY <1>0, <2>3 DEF KvInv, OneAtATime
<1>6. (Hello /\ Arrived)'
  BY <1>0, <1>m DEF KvInv, Hello, Arrived, InService
<1>7. Between'
  <2>1. unread'[cur] = unread[cur] - n /\ Len(buffer) = messageLength
    BY <1>0, <1>m DEF KvInv, Types, Between, InService
  <2>2. CASE offset + n = messageLength
    BY <2>1, <2>2, <1>0, <1>m DEF KvInv, Between
  <2>3. CASE offset + n # messageLength
    <3>1. /\ pc' = "recv" /\ offset' = offset + n /\ cur \in Torn
          /\ unread'[cur] > 0 /\ offset' + unread'[cur] = messageLength /\ offset' >= 0
      BY <2>1, <2>3, <1>0, <1>m
    <3>2. position = 0 /\ parsed = <<>>
      BY <1>0 DEF KvInv, Between
    <3>3. InSocket'
      BY <3>1, <1>0 DEF InSocket
    <3> QED
      BY <3>1, <3>2, <3>3, <2>1, <1>0 DEF Between
  <2> QED
    BY <2>2, <2>3
<1>8. CopyInOrder'
  <2>1. \A k \in 1 .. Len(pending') :
           pending'[k] = [at |-> Copied + k, cell |-> Cell(cur, sent[cur], Copied + k)]
    <3> SUFFICES ASSUME NEW k \in 1 .. Len(pending')
                 PROVE  pending'[k] = [at |-> Copied + k, cell |-> Cell(cur, sent[cur], Copied + k)]
      OBVIOUS
    <3>1. CASE k <= Len(pending)
      <4>1. k \in 1 .. Len(pending) /\ pending'[k] = pending[k]
        BY <3>1, <1>2
      <4> QED
        BY <4>1, <1>0 DEF KvInv, CopyInOrder, InService
    <3>2. CASE k > Len(pending)
      <4> DEFINE j == k - Len(pending)
      <4>1. j \in 1 .. n /\ Len(pending) + j = k /\ offset + j = Copied + k
        <5>1. /\ k \in Nat /\ k <= Len(pending) + n /\ n \in Nat /\ offset \in Nat
              /\ Len(pending) \in Nat /\ Copied = offset - Len(pending)
          BY <1>0, <1>2, <1>3
        <5> QED
          BY <5>1, <3>2
      <4>2. pending'[k] = new[j]
        BY <4>1, <1>2
      <4>3. new[j] = [at |-> offset + j, cell |-> Cell(cur, sent[cur], offset + j)]
        BY <4>1
      <4> QED
        BY <4>1, <4>2, <4>3, Zenon
    <3> QED
      <4>1. k \in Nat /\ Len(pending) \in Nat
        BY <1>2
      <4> QED
        BY <4>1, <3>1, <3>2
  <2>2. \A i \in 1 .. Copied : buffer[i] = Cell(cur, sent[cur], i)
    BY <1>0 DEF KvInv, CopyInOrder, InService
  <2>3. Len(pending') <= Received'
    BY <1>0, <1>2, <1>3
  <2> QED
    BY <2>1, <2>2, <2>3, <1>0, <1>3 DEF CopyInOrder, Cell
<1>9. Truthful'
  <2>1. unread'[cur] = unread[cur] - n
    BY <1>0, <1>m DEF KvInv, Types
  <2>2. CASE offset + n = messageLength
    <3>1. /\ pc' = "parse" /\ offset' = 0 /\ unread'[cur] = 0 /\ descriptor' < messageLength - 1
      BY <2>1, <2>2, <1>0, <1>m DEF KvInv, Truthful
    <3>2. cur \notin Torn => descriptor' = -1 /\ Copied' = 0
      BY <1>0, <1>2, <1>3 DEF KvInv, Truthful
    <3>3. descriptor' \in Int
      BY <1>0 DEF KvInv, Types
    <3> QED
      BY <3>1, <3>2, <3>3, <1>0 DEF Truthful
  <2>3. CASE offset + n # messageLength
    BY <2>3, <1>m DEF Truthful
  <2> QED
    BY <2>2, <2>3
<1>10. ParsedInOrder'
  <2>1. position' = 0 /\ parsed' = <<>> /\ Copied' \in Nat
    BY <1>0, <1>2, <1>3 DEF KvInv, Between
  <2> QED
    BY <2>1 DEF ParsedInOrder
<1>11. StoredAsSent'
  BY <1>0, Zenon DEF KvInv, StoredAsSent, Message, Cell
<1> QED
  BY <1>4, <1>5, <1>6, <1>7, <1>8, <1>9, <1>10, <1>11 DEF KvInv

\* A block is parsed: it is in front of the copy.
LEMMA StreamNextInv ==
    ASSUME TornAssumption, KvInv, StreamNext
    PROVE  KvInv'
<1> DEFINE b == BlockAt(position)
<1>0. /\ pc = "parse" /\ cur \in Clients /\ Length[cur] \in Nat \ {0}
      /\ messageLength = Length[cur]
      /\ position \in Nat /\ position < Length[cur]
      /\ b \in Nat \ {0} /\ position + b <= Length[cur]
      /\ cur \in Torn => b = Length[cur] - position
      /\ Received = Length[cur] /\ Copied = Length[cur] - Len(pending)
      /\ Len(pending) \in Nat
      /\ descriptor >= position + b - 1
      /\ UNCHANGED <<client, backlog, told, echoed, sent, replied, unread, pc, cur,
                     messageLength, totalEpho, offset, buffer, descriptor, pending, store>>
  <2>0. /\ pc = "parse" /\ cur \in Clients /\ messageLength \in Nat
        /\ position \in Nat /\ position < messageLength /\ Len(pending) \in Nat
    BY DEF KvInv, Types, Hello, StreamNext
  <2>a. messageLength = Length[cur]
    BY <2>0 DEF KvInv, Truthful, Hello, InService
  <2>1. /\ pc = "parse" /\ cur \in Clients /\ Length[cur] \in Nat \ {0}
        /\ position \in Nat /\ position < Length[cur] /\ Block \in Nat \ {0}
        /\ Len(pending) \in Nat
    BY <2>0, <2>a, KvAssumption DEF KvAssumption
  <2>2. b \in Nat \ {0} /\ position + b <= Length[cur]
    BY <2>1, <2>a DEF BlockAt
  <2>3. cur \in Torn => b = Length[cur] - position
    BY <2>1, <2>a DEF BlockAt, TornAssumption
  <2>4. Received = Length[cur] /\ Copied = Length[cur] - Len(pending)
    BY <2>1, <2>a DEF Received, Copied
  <2> QED
    BY <2>1, <2>a, <2>2, <2>3, <2>4 DEF StreamNext, Target, helloVars, numberVars, recvVars
<1>t. /\ descriptor >= messageLength - 1 => pending = <<>>
      /\ cur \notin Torn => descriptor = Copied - 1
  BY <1>0 DEF KvInv, Truthful
<1>1. position + b <= Copied
  <2>1. CASE cur \in Torn
    <3>1. position + b = Length[cur]
      BY <2>1, <1>0
    <3>2. pending = <<>>
      <4>1. descriptor \in Int /\ descriptor >= messageLength - 1
        BY <3>1, <1>0 DEF KvInv, Types
      <4> QED
        BY <4>1, <1>t
    <3> QED
      BY <3>1, <3>2, <1>0
  <2>2. CASE cur \notin Torn
    <3>1. descriptor = Copied - 1
      BY <2>2, <1>t
    <3> HIDE DEF b
    <3> QED
      BY <3>1, <1>0
  <2> QED
    BY <2>1, <2>2
<1>2. /\ position' = position + b
      /\ parsed' = parsed \o SubSeq(buffer, position + 1, position + b)
      /\ Copied' = Copied /\ Received' = Received
  BY <1>0 DEF StreamNext, Copied, Received
<1>3. /\ parsed' \in Seq(CellType) /\ Len(parsed') = position + b
      /\ \A i \in 1 .. position + b : parsed'[i] = Cell(cur, sent[cur], i)
  <2> DEFINE block == SubSeq(buffer, position + 1, position + b)
  <2>1. /\ buffer \in Seq(CellType) /\ Len(buffer) = Length[cur]
        /\ parsed \in Seq(CellType) /\ Len(parsed) = position
        /\ \A i \in 1 .. position : parsed[i] = Cell(cur, sent[cur], i)
        /\ \A i \in 1 .. Copied : buffer[i] = Cell(cur, sent[cur], i)
    BY <1>0 DEF KvInv, Types, Between, ParsedInOrder, CopyInOrder, InService
  <2>2. /\ block \in Seq(CellType) /\ Len(block) = b
        /\ \A j \in 1 .. b : block[j] = buffer[position + j]
    <3>1. position \in Nat /\ b \in Nat /\ position + b <= Len(buffer)
      BY <1>0, <2>1
    <3>2. buffer \in Seq(CellType)
      BY <2>1
    <3> HIDE DEF b
    <3> QED
      BY <3>1, <3>2, Part
  <2>3. \A j \in 1 .. b : block[j] = Cell(cur, sent[cur], position + j)
    <3> SUFFICES ASSUME NEW j \in 1 .. b PROVE block[j] = Cell(cur, sent[cur], position + j)
      OBVIOUS
    <3>1. position + j \in 1 .. Copied
      BY <1>0, <1>1
    <3> QED
      BY <3>1, <2>1, <2>2, Zenon
  <2> HIDE DEF block
  <2>4. parsed \o block \in Seq(CellType) /\ Len(parsed \o block) = position + b
    <3> HIDE DEF b
    <3> QED
      BY <2>1, <2>2, Appended
  <2>5. ASSUME NEW i \in 1 .. position + b
        PROVE  (parsed \o block)[i] = Cell(cur, sent[cur], i)
    <3>0. /\ position \in Nat /\ b \in Nat /\ i \in Nat /\ 1 <= i /\ i <= position + b
          /\ Len(parsed) = position /\ Len(block) = b
      BY <1>0, <2>1, <2>2
    <3> HIDE DEF b
    <3>1. CASE i <= position
      BY <3>0, <3>1, <2>1, <2>2
    <3>2. CASE i > position
      <4>1. i - position \in 1 .. b /\ position + (i - position) = i
        BY <3>0, <3>2
      <4>2. (parsed \o block)[i] = block[i - position]
        <5>1. \A j \in 1 .. Len(block) : (parsed \o block)[Len(parsed) + j] = block[j]
          <6>1. parsed \in Seq(CellType) /\ block \in Seq(CellType)
            BY <2>1, <2>2
          <6> QED
            BY <6>1, Appended
        <5> QED
          BY <5>1, <3>0, <4>1, Zenon
      <4> QED
        BY <4>1, <4>2, <2>3
    <3> QED
      BY <3>0, <3>1, <3>2
  <2> QED
    BY <2>4, <2>5, <1>2 DEF block
<1>4. Types'
  <2>1. position' \in Nat
    BY <1>0, <1>2
  <2> HIDE DEF b
  <2> QED
    BY <2>1, <1>0, <1>3 DEF KvInv, Types
<1>5. (OneAtATime /\ Hello /\ Arrived)'
  BY <1>0 DEF KvInv, OneAtATime, Hello, Arrived
<1>6. Between'
  BY <1>0 DEF KvInv, Between
<1>7. CopyInOrder'
  BY <1>0, <1>2 DEF KvInv, CopyInOrder, Cell
<1>8. Truthful'
  BY <1>0, <1>2 DEF KvInv, Truthful
<1>9. ParsedInOrder'
  <2>1. position + b <= Copied'
    BY <1>1, <1>2
  <2>2. cur \in Torn => position + b = messageLength
    BY <1>0
  <2> HIDE DEF b
  <2> QED
    BY <2>1, <2>2, <1>0, <1>2, <1>3 DEF ParsedInOrder, Cell
<1>10. StoredAsSent'
  BY <1>0, Zenon DEF KvInv, StoredAsSent, Message, Cell
<1> QED
  BY <1>4, <1>5, <1>6, <1>7, <1>8, <1>9, <1>10 DEF KvInv

\* The message is stored: all of it was copied and parsed, or there is nothing.
LEMMA StoreInv ==
    ASSUME KvInv, Store
    PROVE  KvInv'
<1>0. /\ pc = "parse" /\ pc' \in {"poll", "accept", "killed"}
      /\ cur \in Clients /\ messageLength \in Nat /\ position = messageLength
      /\ offset = 0 /\ unread[cur] = 0
      /\ sent[cur] \in Nat /\ replied[cur] \in Nat /\ told[cur] \in 0 .. 2
      /\ replied' = IF client[cur] = "open" THEN [replied EXCEPT ![cur] = @ + 1] ELSE replied
      /\ store' = [store EXCEPT ![ParsedKey] = parsed]
      /\ position' = 0 /\ parsed' = <<>>
      /\ UNCHANGED <<client, backlog, told, echoed, sent, unread, cur, messageLength, totalEpho,
                     offset, buffer, descriptor, pending>>
  <2>1. pc = "parse"
    BY DEF Store
  <2>2. /\ cur \in Clients /\ messageLength \in Nat /\ sent[cur] \in Nat /\ replied[cur] \in Nat
        /\ told[cur] \in 0 .. 2 /\ offset = 0 /\ unread[cur] = 0
    BY <2>1 DEF KvInv, Types, Hello, Truthful
  <2> QED
    BY <2>1, <2>2 DEF Store, helloVars, numberVars, recvVars
<1>1. pending = <<>>
  <2>1. pending \in Seq(GranuleType) /\ messageLength <= messageLength - Len(pending)
    BY <1>0 DEF KvInv, Types, ParsedInOrder, Received, Copied
  <2>2. Len(pending) = 0
    BY <1>0, <2>1
  <2> QED
    BY <2>1, <2>2
<1>2. parsed \in Seq(CellType) /\ Len(parsed) = messageLength
  BY <1>0 DEF KvInv, Types, ParsedInOrder
<1>3. /\ ParsedKey \in Keys
      /\ parsed # <<>> => /\ parsed = Message(cur, ParsedKey)
                          /\ told[cur] = 2 /\ sent[cur] = replied[cur] + 1
      /\ parsed = <<>> => told[cur] # 2
  <2>1. CASE messageLength = 0
    <3>1. parsed = <<>> /\ ParsedKey = 0
      BY <2>1, <1>2 DEF ParsedKey
    <3>2. told[cur] # 2
      BY <2>1, <1>0, KvAssumption DEF KvAssumption, KvInv, Hello, InService
    <3> QED
      BY <3>1, <3>2 DEF Keys
  <2>2. CASE messageLength # 0
    <3>1. told[cur] = 2 /\ sent[cur] = replied[cur] + 1
      BY <2>2, <1>0 DEF KvInv, Truthful
    <3>2. messageLength = Length[cur]
      BY <3>1, <1>0 DEF KvInv, Hello, InService
    <3>3. \A i \in 1 .. Length[cur] : parsed[i] = Cell(cur, sent[cur], i)
      BY <3>2, <1>0 DEF KvInv, ParsedInOrder
    <3>4. parsed = Message(cur, sent[cur])
      BY <3>2, <3>3, <1>0, <1>2, WholeMessage
    <3>5. parsed # <<>> /\ 1 \in 1 .. Length[cur]
      BY <2>2, <3>2, <1>0, <1>2
    <3>6. ParsedKey = sent[cur]
      <4>1. parsed[1] = Cell(cur, sent[cur], 1)
        BY <3>3, <3>5, Zenon
      <4>2. Cell(cur, sent[cur], 1).key = sent[cur]
        BY DEF Cell
      <4>3. ParsedKey = parsed[1].key
        BY <3>5, Zenon DEF ParsedKey
      <4> QED
        BY <4>1, <4>2, <4>3, Zenon
    <3>7. sent[cur] \in 1 .. Epochs[cur]
      <4>1. sent[cur] <= Epochs[cur] /\ Epochs[cur] \in Nat
        BY <1>0, KvAssumption DEF KvAssumption, KvInv, OneAtATime
      <4> QED
        BY <4>1, <3>1, <1>0
    <3>8. sent[cur] \in Keys
      BY <3>7, <1>0 DEF Keys
    <3> QED
      BY <3>1, <3>4, <3>5, <3>6, <3>8
  <2> QED
    BY <2>1, <2>2
<1>4. replied' \in [Clients -> Nat]
  BY <1>0 DEF KvInv, Types
<1>5. Types'
  <2>1. store' \in [Keys -> Seq(CellType)]
    BY <1>0, <1>2 DEF KvInv, Types
  <2> QED
    BY <2>1, <1>4, <1>0 DEF KvInv, Types
<1>6. /\ \A d \in Clients : d # cur => replied'[d] = replied[d]
      /\ replied'[cur] = IF client[cur] = "open" THEN replied[cur] + 1 ELSE replied[cur]
  BY <1>0 DEF KvInv, Types
<1>7. told[cur] < 2 => client[cur] = "gone"
  BY <1>0 DEF KvInv, Hello, InService
<1>8. OneAtATime'
  <2>1. ASSUME NEW d \in Clients, d # cur
        PROVE  /\ sent[d] \in {replied'[d], replied'[d] + 1}
               /\ sent[d] <= Epochs[d]
               /\ told[d] < 2 \/ echoed[d] < 2 => sent[d] = 0 /\ replied'[d] = 0 /\ unread[d] = 0
               /\ sent[d] = replied'[d] => unread[d] = 0
    BY <2>1, <1>6 DEF KvInv, OneAtATime
  <2>2. /\ sent[cur] \in {replied'[cur], replied'[cur] + 1}
        /\ sent[cur] <= Epochs[cur]
        /\ told[cur] < 2 \/ echoed[cur] < 2 =>
              sent[cur] = 0 /\ replied'[cur] = 0 /\ unread[cur] = 0
    <3>1. echoed[cur] = 2 /\ OneAtATime
      BY <1>0 DEF KvInv, Hello, InService
    <3>2. CASE told[cur] = 2
      <4>1. sent[cur] = replied[cur] + 1 /\ sent[cur] <= Epochs[cur]
        BY <3>1, <3>2, <1>0, <1>3 DEF OneAtATime
      <4> QED
        BY <4>1, <3>1, <3>2, <1>0, <1>6
    <3>3. CASE told[cur] # 2
      <4>1. told[cur] < 2 /\ client[cur] = "gone"
        BY <3>3, <1>0, <1>7
      <4>2. replied'[cur] = replied[cur]
        BY <4>1, <1>6
      <4> QED
        BY <4>1, <4>2, <3>1, <1>0 DEF OneAtATime
    <3> QED
      BY <3>2, <3>3
  <2> QED
    BY <2>1, <2>2, <1>0 DEF OneAtATime
<1>9. (Hello /\ Arrived)'
  BY <1>0 DEF KvInv, Hello, Arrived, InService
<1>10. Between'
  <2>1. Len(buffer) = messageLength
    BY <1>0 DEF KvInv, Between, InService
  <2> QED
    BY <2>1, <1>0, <1>1 DEF Between, InSocket
<1>11. (CopyInOrder /\ Truthful /\ ParsedInOrder)'
  <2>1. pending' = <<>> /\ Received' = 0 /\ Copied' = 0
    BY <1>0, <1>1 DEF Received, Copied
  <2> QED
    BY <2>1, <1>0 DEF CopyInOrder, Truthful, ParsedInOrder
<1>12. StoredAsSent'
  <2> SUFFICES ASSUME NEW k \in Keys, store'[k] # <<>>
               PROVE  \E c \in Clients : store'[k] = Message(c, k)
    BY DEF StoredAsSent, Message, Cell, Keys
  <2>1. CASE k = ParsedKey
    BY <2>1, <1>0, <1>3 DEF KvInv, Types
  <2>2. CASE k # ParsedKey
    BY <2>2, <1>0 DEF KvInv, Types, StoredAsSent
  <2> QED
    BY <2>1, <2>2
<1> QED
  BY <1>5, <1>8, <1>9, <1>10, <1>11, <1>12 DEF KvInv

\* Every step keeps the invariant.
LEMMA NextInv ==
    ASSUME TornAssumption, KvInv, [Next]_vars
    PROVE  KvInv'
<1>1. CASE \E c \in Clients : Connect(c) \/ Tell(c) \/ Send(c) \/ Quit(c)
  BY <1>1, ConnectQuitInv, SendInv
<1>2. CASE CopierStep
  BY <1>2, CopierInv
<1>3. CASE (\E c \in Clients : Accept(c)) \/ ReceiveLength \/ ReceiveEpochs
  BY <1>3, AcceptInv, ReceiveLengthInv, ReceiveEpochsInv
<1>4. CASE PollReadable \/ PollTimeout \/ Drop \/ ResetDescriptor \/ ReceiveNothing
  BY <1>4, PollInv, DropInv, ResetInv, ReceiveNothingInv
<1>5. CASE Receive \/ StreamNext \/ Store
  BY <1>5, ReceiveInv, StreamNextInv, StoreInv
<1>6. CASE UNCHANGED vars
  <2>1. UNCHANGED <<client, backlog, told, echoed, sent, replied, unread, pc, cur, messageLength,
                    totalEpho, offset, buffer, descriptor, pending, position, parsed, store>>
    BY <1>6 DEF vars, helloVars, numberVars, recvVars, streamVars
  <2>2. Received' = Received /\ Copied' = Copied /\ InSocket' = InSocket
    BY <2>1 DEF Received, Copied, InSocket
  <2>3. (Types /\ OneAtATime /\ Hello /\ Arrived /\ Between)'
    BY <2>1, <2>2 DEF KvInv, Types, OneAtATime, Hello, Arrived, Between
  <2>4. (CopyInOrder /\ Truthful /\ ParsedInOrder)'
    BY <2>1, <2>2 DEF KvInv, CopyInOrder, Truthful, ParsedInOrder, Cell
  <2>5. StoredAsSent'
    BY <2>1, Zenon DEF KvInv, StoredAsSent, Message, Cell
  <2> QED
    BY <2>3, <2>4, <2>5 DEF KvInv
<1> QED
  BY <1>1, <1>2, <1>3, <1>4, <1>5, <1>6 DEF Next, Server

-----------------------------------------------------------------------------
(* The values each variable may take                                       *)

\* The server counts the messages up to the number it was told, and the
\* descriptor stays in the message.
Bounds ==
    /\ cur \in Clients \cup {NoClient}
    /\ \A c \in Clients : unread[c] <= Length[c]
    /\ epoch \in Nat
    /\ pc \in {"poll", "drop", "recv", "wait"} => epoch < totalEpho
    /\ pc = "parse" => epoch <= totalEpho
    /\ pc \in InService => descriptor \in -2 .. messageLength

\* A step of a client keeps them.
LEMMA ClientBounds ==
    ASSUME KvInv, Bounds, NEW c \in Clients, Connect(c) \/ Tell(c) \/ Send(c) \/ Quit(c)
    PROVE  Bounds'
<1>1. UNCHANGED <<pc, cur, epoch, totalEpho, messageLength, descriptor>>
  BY DEF Connect, Tell, Send, Quit, serverVars, numberVars, recvVars
<1>2. \A x \in Clients : unread'[x] <= Length[x]
  <2>1. CASE Send(c)
    <3>1. Length[c] \in Nat /\ unread \in [Clients -> Nat]
      BY KvAssumption DEF KvAssumption, KvInv, Types
    <3> QED
      BY <2>1, <3>1 DEF Send, Bounds
  <2>2. CASE ~Send(c)
    BY <2>2 DEF Connect, Tell, Quit, Bounds
  <2> QED
    BY <2>1, <2>2
<1> QED
  BY <1>1, <1>2 DEF Bounds

\* A granule lies in the message, and so does the descriptor behind it.
LEMMA CopierBounds ==
    ASSUME KvInv, Bounds, CopierStep
    PROVE  Bounds'
<1>1. UNCHANGED <<unread, pc, cur, epoch, totalEpho, messageLength>> /\ pending # <<>>
  BY DEF CopierStep, numberVars, recvVars
<1>2. pc \in InService => descriptor' \in -2 .. messageLength
  <2> SUFFICES ASSUME pc \in InService PROVE descriptor' \in -2 .. messageLength
    OBVIOUS
  <2>1. /\ messageLength \in Nat /\ offset \in Int /\ Len(pending) \in Nat /\ Len(pending) >= 1
        /\ pc \in {"recv", "wait", "parse"}
    BY <1>1 DEF KvInv, Types, Between
  <2>2. unread[cur] \in Nat
    BY DEF KvInv, Types, Hello, InService
  <2>3. Received \in Nat /\ Received <= messageLength
    BY <2>1, <2>2 DEF KvInv, Between, InSocket, Received
  <2>4. Len(pending) <= Received /\ Head(pending).at = Copied + 1
    <3>1. 1 \in 1 .. Len(pending) /\ Head(pending) = pending[1]
      <4>1. pending \in Seq(GranuleType)
        BY DEF KvInv, Types
      <4> QED
        BY <1>1, <2>1, <4>1
    <3>2. Len(pending) <= Received /\ pending[1].at = Copied + 1
      <4>1. Len(pending) <= Received
        BY DEF KvInv, CopyInOrder
      <4>2. pending[1] = [at |-> Copied + 1, cell |-> Cell(cur, sent[cur], Copied + 1)]
        BY <3>1, Zenon DEF KvInv, CopyInOrder
      <4> QED
        BY <4>1, <4>2
    <3> QED
      BY <3>1, <3>2
  <2>5. descriptor' = Head(pending).at - 1
    BY DEF CopierStep
  <2> QED
    BY <2>1, <2>3, <2>4, <2>5 DEF Copied
<1> QED
  BY <1>1, <1>2 DEF Bounds

\* So does every step of the server.
LEMMA ServerBounds ==
    ASSUME KvInv, Bounds, Server
    PROVE  Bounds'
<1>0. /\ unread \in [Clients -> Nat] /\ offset \in Int /\ messageLength \in Nat
      /\ totalEpho \in Nat /\ epoch \in Nat /\ descriptor \in Int
      /\ Length \in [Clients -> Nat \ {0}]
      /\ pc \notin {"accept", "killed"} => cur \in Clients
  BY KvAssumption DEF KvAssumption, KvInv, Types, Hello, Bounds
<1>1. ASSUME NEW c \in Clients, Accept(c) PROVE Bounds'
  BY <1>0, <1>1 DEF Accept, recvVars, Bounds, InService
<1>2. CASE ReceiveLength
  BY <1>0, <1>2 DEF ReceiveLength, recvVars, Bounds, InService
<1>3. CASE ReceiveEpochs
  <2>1. totalEpho' \in Nat
    BY <1>0, <1>3, ReceiveEpochsInv DEF KvInv, Types
  <2> QED
    BY <1>0, <1>3, <2>1 DEF ReceiveEpochs, Bounds
<1>4. CASE PollReadable \/ PollTimeout
  BY <1>4 DEF PollReadable, PollTimeout, helloVars, numberVars, recvVars, Bounds, InService
<1>5. CASE Drop
  BY <1>0, <1>5 DEF Drop, recvVars, Bounds, InService
<1>6. CASE ResetDescriptor
  <2>1. offset <= messageLength /\ offset >= -1
    <3>1. unread[cur] \in Nat
      BY <1>0, <1>6 DEF ResetDescriptor
    <3> QED
      BY <3>1, <1>0, <1>6 DEF ResetDescriptor, KvInv, Between, InSocket
  <2>2. descriptor' \in -2 .. messageLength
    BY <1>0, <1>6, <2>1 DEF ResetDescriptor
  <2> QED
    BY <1>6, <2>2 DEF ResetDescriptor, helloVars, numberVars, recvVars, Bounds
<1>7. CASE Receive \/ ReceiveNothing
  <2>1. /\ pc = "wait" /\ pc' \in {"recv", "parse"}
        /\ UNCHANGED <<cur, totalEpho, messageLength, descriptor>>
        /\ \/ pc' = "parse" /\ epoch' = epoch + 1
           \/ pc' = "recv" /\ epoch' = epoch
    BY <1>7 DEF Receive, ReceiveNothing, Count, numberVars
  <2>2. \A x \in Clients : unread'[x] <= Length[x]
    <3>1. CASE ReceiveNothing
      BY <3>1 DEF ReceiveNothing, Bounds
    <3>2. CASE Receive
      <4>1. \A x \in Clients : unread'[x] <= unread[x] /\ unread'[x] \in Nat
        <5>1. PICK n \in IF cur \in Torn THEN 1 .. unread[cur] ELSE {unread[cur]} :
                       unread' = [unread EXCEPT ![cur] = @ - n]
          BY <3>2 DEF Receive
        <5>2. cur \in Clients /\ unread[cur] > 0
          BY <1>0, <2>1, <3>2 DEF Receive
        <5>3. n \in 1 .. unread[cur]
          BY <1>0, <5>1, <5>2
        <5> QED
          BY <1>0, <5>1, <5>2, <5>3
      <4> QED
        BY <1>0, <4>1 DEF Bounds
    <3> QED
      BY <1>7, <3>1, <3>2
  <2> QED
    BY <1>0, <2>1, <2>2 DEF Bounds, InService
<1>8. CASE StreamNext
  BY <1>8 DEF StreamNext, helloVars, numberVars, recvVars, Bounds
<1>9. CASE Store
  <2>1. /\ pc = "parse" /\ UNCHANGED <<unread, cur, epoch, totalEpho, messageLength, descriptor>>
        /\ pc' \in {"poll", "accept", "killed"} /\ (pc' = "poll" => epoch < totalEpho)
    BY <1>9 DEF Store, helloVars, numberVars, recvVars
  <2> QED
    BY <2>1 DEF Bounds, InService
<1> QED
  BY <1>1, <1>2, <1>3, <1>4, <1>5, <1>6, <1>7, <1>8, <1>9 DEF Server

\* What the invariants say of the values of the variables.
LEMMA Values == KvInv /\ Bounds => TypeOK
<1> SUFFICES ASSUME KvInv, Bounds PROVE TypeOK
  OBVIOUS
<1>0. /\ client \in [Clients -> {"away", "open", "gone"}] /\ backlog \subseteq Clients
      /\ told \in [Clients -> 0 .. 2] /\ echoed \in [Clients -> 0 .. 2]
      /\ pc \in {"accept", "length", "epochs", "killed"} \cup InService
      /\ messageLength \in Nat /\ totalEpho \in Nat
      /\ cur \in Clients \cup {NoClient}
  BY DEF KvInv, Types, Bounds, InService
<1>1. ASSUME NEW c \in Clients
      PROVE  sent[c] \in 0 .. Epochs[c] /\ replied[c] \in 0 .. Epochs[c]
             /\ unread[c] \in 0 .. Length[c]
  <2>1. sent[c] \in Nat /\ replied[c] \in Nat /\ unread[c] \in Nat /\ Epochs[c] \in Nat
        /\ Length[c] \in Nat
    BY KvAssumption DEF KvAssumption, KvInv, Types
  <2>2. sent[c] \in {replied[c], replied[c] + 1} /\ sent[c] <= Epochs[c]
    BY DEF KvInv, OneAtATime
  <2>3. unread[c] <= Length[c]
    BY DEF Bounds
  <2> QED
    BY <2>1, <2>2, <2>3
<1>2. ASSUME pc \in InService
      PROVE  /\ cur \in Clients
             /\ offset \in {-1, 0} \cup 0 .. messageLength - 1
             /\ epoch \in 0 .. totalEpho
             /\ descriptor \in -2 .. messageLength
             /\ position \in 0 .. messageLength
             /\ Len(buffer) = messageLength
  <2>1. /\ cur \in Clients /\ Len(buffer) = messageLength /\ descriptor \in -2 .. messageLength
        /\ offset \in Int /\ position \in Nat /\ Len(pending) \in Nat
    BY <1>2 DEF KvInv, Types, Hello, Between, Bounds, InService
  <2>2. offset \in {-1, 0} \cup 0 .. messageLength - 1
    <3>1. CASE pc = "parse"
      BY <3>1 DEF KvInv, Truthful
    <3>2. CASE pc # "parse"
      <4>1. unread[cur] \in Nat
        BY <2>1 DEF KvInv, Types
      <4>2. InSocket
        BY <1>2, <3>2 DEF KvInv, Between, InService
      <4> QED
        BY <1>0, <2>1, <4>1, <4>2 DEF InSocket
    <3> QED
      BY <3>1, <3>2
  <2>3. epoch \in 0 .. totalEpho
    BY <1>0, <1>2 DEF Bounds, InService
  <2>4. position \in 0 .. messageLength
    <3>1. CASE pc = "parse"
      BY <3>1, <1>0, <2>1 DEF KvInv, ParsedInOrder, Copied, Received
    <3>2. CASE pc # "parse"
      BY <3>2, <1>0 DEF KvInv, Between
    <3> QED
      BY <3>1, <3>2
  <2> QED
    BY <2>1, <2>2, <2>3, <2>4
<1> QED
  BY <1>0, <1>1, <1>2 DEF TypeOK

-----------------------------------------------------------------------------
(* Theorems                                                                *)

\* The values each variable may take: the offset, the descriptor and the place
\* of the parser stay in the message of the client in service, and the server
\* counts no more messages than it was told (kv-server.cc).
THEOREM TypeCorrect ==
    ASSUME TornAssumption
    PROVE  Spec => []TypeOK
<1>1. Init => KvInv /\ Bounds
  <2>1. Init => Bounds
    BY KvAssumption DEF KvAssumption, Init, Bounds, InService
  <2> QED
    BY <2>1, InitInv
<1>2. KvInv /\ Bounds /\ [Next]_vars => KvInv' /\ Bounds'
  <2>1. KvInv /\ Bounds /\ UNCHANGED vars => Bounds'
    BY DEF vars, helloVars, numberVars, recvVars, Bounds
  <2> QED
    BY <2>1, NextInv, ClientBounds, CopierBounds, ServerBounds DEF Next
<1> QED
  BY <1>1, <1>2, Values, PTL DEF Spec

\* Whatever is in the store is a message as one client sent it, although the
\* server parses it while it is copied (kv-server.cc, copier.cc,
\* array_input_stream.cc).
THEOREM StoredAsSentHolds ==
    ASSUME TornAssumption
    PROVE  Spec => []StoredAsSent
<1>1. KvInv /\ [Next]_vars => KvInv'
  BY NextInv
<1>2. KvInv => StoredAsSent
  BY DEF KvInv
<1> QED
  BY <1>1, <1>2, InitInv, PTL DEF Spec

\* The buffer is received into again, or left to the next client, only when
\* every copy into it is done, although the server asks only the descriptor.
THEOREM ReuseAfterCopiesHolds ==
    ASSUME TornAssumption
    PROVE  Spec => []ReuseAfterCopies
<1>1. KvInv /\ [Next]_vars => KvInv'
  BY NextInv
<1>2. KvInv => ReuseAfterCopies
  BY DEF KvInv, Between, ReuseAfterCopies
<1> QED
  BY <1>1, <1>2, InitInv, PTL DEF Spec
=============================================================================
