------------------------------ MODULE TlsRecv ------------------------------
(***************************************************************************)
(* The TLS server of libs/openssl/copier with the patched library           *)
(* (openssl.diff).  The body of a record is received by a call that returns *)
(* before the bytes are there; the tag is asked for with csync, and the     *)
(* rest is decrypted in place, chunk by chunk, behind the descriptor.  A    *)
(* body that comes in pieces is completed by ordinary receives.             *)
(*                                                                         *)
(* The record layer of the library and the service are external: a record   *)
(* is read as its header and then its body with the tag, with one bio_read  *)
(* for each and more while something is missing; the tag is set before the  *)
(* body is decrypted; the service copies granule by granule and in order,   *)
(* and csync makes it copy a range at once.                                 *)
(*                                                                         *)
(* A record is a header cell, Length cells and a tag cell.                  *)
(***************************************************************************)
EXTENDS Integers, Sequences

CONSTANTS Records,      \* bound: the records the client sends
          Batch,        \* records of one message
          Length,       \* cells of a record's body, msg_size with its type byte
          MsgSize,      \* msg_size: shorter receives are ordinary ones
          MinRecv,      \* min_recv: cells SSL_read is not called without
          Chunk,        \* DECRYPT_CHUNK_SIZE
          Stride,       \* AES_gcm_decrypt decrypts a multiple of this
          Granule       \* cells the service copies at once

ASSUME TlsAssumption ==
    /\ Records \in Nat
    /\ Batch \in Nat \ {0}
    /\ Length \in Nat \ {0}
    /\ MsgSize \in Nat
    /\ MinRecv \in Nat
    /\ Chunk \in Nat \ {0}
    /\ Stride \in 1 .. Chunk
    /\ Granule \in Nat \ {0}

\* What a record in one piece needs: no granule ends within a chunk, so that a
\* body in one granule is aligned whatever the chunks are; a chunk is made of whole
\* strides; and a tag does not come by arecv without a cell of its body.
Aligned ==
    /\ \A p, q \in 0 .. Length :
          p * Chunk < q * Granule /\ q * Granule < Length => (p + 1) * Chunk <= q * Granule
    /\ Chunk % Stride = 0
    /\ \A had \in 0 .. Length :
          Length + 1 - had >= MsgSize => (Length - had) % Granule # 0

VARIABLES sent,         \* records the client has sent
          came,         \* cells that have come to the socket
          taken,        \* cells the server has received
          pc,           \* where the server is
          asyncRecv,    \* asyncRecv
          descriptor,   \* bufferDescriptor
          have,         \* cells of the body that were received
          torn,         \* the body came in more than one piece
          pending,      \* granules that are received and not copied yet
          buffer,       \* the record buffer, behind the header
          tag,          \* the tag the cipher was given
          bulk,         \* cells that were decrypted
          intact,       \* all of them were those of the record
          read          \* what SSL_read has returned, record by record

socketVars == <<came, taken>>
recordVars == <<have, torn>>
cipherVars == <<tag, bulk, intact>>
vars == <<sent, socketVars, pc, asyncRecv, descriptor, recordVars, pending, buffer,
          cipherVars, read>>

\* Cell i of record r, as it is sent and decrypted; 0 is the header.
Sealed(r, i) == [record |-> r, part |-> i, plain |-> FALSE]
Plain(r, i) == [record |-> r, part |-> i, plain |-> TRUE]
Junk == [record |-> 0, part |-> 0, plain |-> FALSE]

BodyLength == Length + 1
RecordLength == BodyLength + 1

\* The record that is being read, and what of it is in the socket.
Current == Len(read) + 1
Available == came - taken
Missing == BodyLength - have

Init ==
    /\ sent = 0
    /\ came = 0
    /\ taken = 0
    /\ pc = "poll"
    /\ asyncRecv = FALSE
    /\ descriptor = -1
    /\ have = 0
    /\ torn = FALSE
    /\ pending = <<>>
    /\ buffer = [i \in 1 .. BodyLength |-> Junk]
    /\ tag = Junk
    /\ bulk = 0
    /\ intact = TRUE
    /\ read = <<>>

-----------------------------------------------------------------------------
(* The client and the network                                              *)

\* The client sends a message when it was answered once for each before.
Write ==
    /\ sent + Batch <= Records
    /\ Len(read) * Batch >= sent
    /\ sent' = sent + Batch
    /\ UNCHANGED <<socketVars, pc, asyncRecv, descriptor, recordVars, pending, buffer,
                   cipherVars, read>>

Arrive ==
    /\ \E n \in 1 .. sent * RecordLength - came : came' = came + n
    /\ UNCHANGED <<sent, taken, pc, asyncRecv, descriptor, recordVars, pending, buffer,
                   cipherVars, read>>

-----------------------------------------------------------------------------
(* The service                                                             *)

\* What is in a granule is stored in the buffer.
Stored(granules) ==
    [i \in 1 .. BodyLength |->
        IF \E g \in granules : i \in DOMAIN g.cells
        THEN (CHOOSE g \in granules : i \in DOMAIN g.cells).cells[i] ELSE buffer[i]]

\* A granule is copied, and the descriptor set to its last byte, as counted from
\* the place of the receive it belongs to.
CopierStep ==
    /\ pending # <<>>
    /\ buffer' = Stored({Head(pending)})
    /\ descriptor' = Head(pending).last
    /\ pending' = Tail(pending)
    /\ UNCHANGED <<sent, socketVars, pc, asyncRecv, recordVars, cipherVars, read>>

\* The granules of a receive of n cells behind the first have cells.
Granules(n) ==
    [k \in 1 .. (n + Granule - 1) \div Granule |->
        LET first == have + (k - 1) * Granule + 1
            last == have + (IF k * Granule < n THEN k * Granule ELSE n)
        IN [cells |-> [i \in first .. last |-> Sealed(Current, i)],
            last |-> last - have - 1]]

-----------------------------------------------------------------------------
(* The server's loop                                                       *)

\* There is something to read, and FIONREAD says there is enough of it.
PollReadable ==
    /\ pc = "poll"
    /\ Available > 0 /\ Available >= MinRecv
    /\ pc' = "header"
    /\ UNCHANGED <<sent, socketVars, asyncRecv, descriptor, recordVars, pending, buffer,
                   cipherVars, read>>

\* Nothing for half a second: SSL_read is called all the same.
PollTimeout ==
    /\ pc = "poll"
    /\ Available = 0
    /\ pc' = "header"
    /\ UNCHANGED <<sent, socketVars, asyncRecv, descriptor, recordVars, pending, buffer,
                   cipherVars, read>>

\* bio_read for the header: shorter than a message.
ReadHeader ==
    /\ pc = "header"
    /\ Available > 0
    /\ taken' = taken + 1
    /\ asyncRecv' = FALSE
    /\ have' = 0
    /\ torn' = FALSE
    /\ bulk' = 0
    /\ intact' = TRUE
    /\ pc' = "body"
    /\ UNCHANGED <<sent, came, descriptor, pending, buffer, tag, read>>

\* bio_read for the body, or what is missing of it: arecv when it is long.
BodyAsync ==
    /\ pc = "body"
    /\ Missing >= MsgSize
    /\ asyncRecv' = TRUE
    /\ descriptor' = -1
    /\ pc' = "recv"
    /\ UNCHANGED <<sent, socketVars, recordVars, pending, buffer, cipherVars, read>>

\* n cells were received; with the last one the record is decrypted.
Received(n) ==
    /\ taken' = taken + n
    /\ have' = have + n
    /\ torn' = (torn \/ n < Missing)
    /\ pc' = IF n < Missing THEN "body" ELSE "tag"

Arecv ==
    /\ pc = "recv"
    /\ Available > 0
    /\ LET n == IF Available < Missing THEN Available ELSE Missing
       IN /\ Received(n)
          /\ pending' = pending \o Granules(n)
    /\ UNCHANGED <<sent, came, asyncRecv, descriptor, buffer, cipherVars, read>>

BodySync ==
    /\ pc = "body"
    /\ Missing < MsgSize
    /\ Available > 0
    /\ asyncRecv' = FALSE
    /\ LET n == IF Available < Missing THEN Available ELSE Missing
       IN /\ Received(n)
          /\ buffer' = [i \in 1 .. BodyLength |->
                IF i \in have + 1 .. have + n THEN Sealed(Current, i) ELSE buffer[i]]
    /\ UNCHANGED <<sent, came, descriptor, pending, cipherVars, read>>

-----------------------------------------------------------------------------
(* The patched library                                                     *)

\* What csync is asked for.
NoRange == {}
TagRange == {BodyLength}

\* SET_TAG: csync returns when the service has copied the tag, which stays in
\* its granule; then the tag is taken from the buffer.
SetTag ==
    /\ pc = "tag"
    /\ LET now == IF asyncRecv THEN TagRange ELSE NoRange
           copied == [i \in 1 .. BodyLength |->
                IF i \in now /\ \E k \in 1 .. Len(pending) : i \in DOMAIN pending[k].cells
                THEN Sealed(Current, i) ELSE buffer[i]]
       IN /\ buffer' = copied
          /\ tag' = copied[BodyLength]
    /\ pc' = "update"
    /\ UNCHANGED <<sent, socketVars, asyncRecv, descriptor, recordVars, pending, bulk,
                   intact, read>>

\* The next n cells are decrypted in place, whatever is there.
Decrypt(n) ==
    /\ bulk' = bulk + n
    /\ intact' = (intact /\ \A i \in bulk + 1 .. bulk + n : buffer[i] = Sealed(Current, i))
    /\ buffer' = [i \in 1 .. BodyLength |->
          IF i \notin bulk + 1 .. bulk + n THEN buffer[i]
          ELSE IF buffer[i] = Sealed(Current, i) THEN Plain(Current, i) ELSE Junk]

\* The byte a chunk waits for.
NoByte == 0
ByteBehind == bulk + Chunk
FirstByte == bulk

\* The cells of a chunk, less at the body's end.
WholeChunk == Chunk
ChunkSize == IF Length - bulk < Chunk THEN Length - bulk ELSE Chunk

\* One turn of the loop of generic_aes_gcm_cipher_update.  It ends with the body,
\* or with a chunk that is no multiple of the stride.
DecryptChunk ==
    /\ pc = "update"
    /\ asyncRecv
    /\ bulk < Length
    /\ descriptor >= FirstByte
    /\ LET n == ChunkSize - (ChunkSize % Stride)
       IN /\ Decrypt(n)
          /\ asyncRecv' = (n = ChunkSize /\ bulk + n < Length)
    /\ UNCHANGED <<sent, socketVars, pc, descriptor, recordVars, pending, tag, read>>

\* The rest, or the whole body of a record that was not received by arecv.
DecryptRest ==
    /\ pc = "update"
    /\ ~asyncRecv
    /\ Decrypt(Length - bulk)
    /\ pc' = "verify"
    /\ UNCHANGED <<sent, socketVars, asyncRecv, descriptor, recordVars, pending, tag, read>>

Unverified == TRUE
Verified == intact /\ tag = Sealed(Current, BodyLength)

\* SSL_read returns the record, which is answered; or it fails, and the
\* connection is given up.
SslRead ==
    /\ pc = "verify"
    /\ IF Verified
       THEN /\ read' = Append(read, [i \in 1 .. Length |-> buffer[i]])
            /\ pc' = "poll"
       ELSE /\ pc' = "failed"
            /\ UNCHANGED read
    /\ UNCHANGED <<sent, socketVars, asyncRecv, descriptor, recordVars, pending, buffer,
                   cipherVars>>

Server ==
    \/ PollReadable \/ PollTimeout \/ ReadHeader
    \/ BodyAsync \/ Arecv \/ BodySync
    \/ SetTag \/ DecryptChunk \/ DecryptRest \/ SslRead

Next == Write \/ Arrive \/ CopierStep \/ Server

\* The client writes, what it writes arrives, the service copies and the server
\* runs.
Fairness == WF_vars(Write) /\ WF_vars(Arrive) /\ WF_vars(CopierStep) /\ WF_vars(Server)

Spec == Init /\ [][Next]_vars /\ Fairness

-----------------------------------------------------------------------------
Cells == [record : 0 .. Records, part : 0 .. BodyLength, plain : BOOLEAN]

\* The values each variable may take.
TypeOK ==
    /\ sent \in 0 .. Records
    /\ taken <= came /\ came <= sent * RecordLength
    /\ pc \in {"poll", "header", "body", "recv", "tag", "update", "verify", "failed"}
    /\ asyncRecv \in BOOLEAN
    /\ descriptor \in -1 .. BodyLength - 1
    /\ have \in 0 .. BodyLength
    /\ torn \in BOOLEAN
    /\ bulk \in 0 .. Length
    /\ tag \in Cells
    /\ buffer \in [1 .. BodyLength -> Cells]
    /\ Len(read) <= sent

\* SSL_read returns the records as they were sent and in their order: no chunk is
\* decrypted before it is copied, and none is copied over what was decrypted.
ReadAsSent ==
    \A r \in 1 .. Len(read) : read[r] = [i \in 1 .. Length |-> Plain(r, i)]

\* A record fails only when its body came in more than one piece: then the flag
\* that makes the cipher wait has been cleared by the second one.
OnlyTornFail == pc = "failed" => torn

\* Every record that is sent is read in the end, or one has failed.
AllAreRead ==
    \A r \in 1 .. Records : sent >= r ~> (Len(read) >= r \/ pc = "failed")
=============================================================================
