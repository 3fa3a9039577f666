--------------------------- MODULE TlsRecvProofs ---------------------------
(***************************************************************************)
(* SSL_read returns what was sent, for any sizes of records, chunks,       *)
(* strides and granules: a cell that was decrypted is not copied over any  *)
(* more.  A record whose body comes in one piece is read: only a torn one  *)
(* fails, for any sizes that are aligned.  Chunks are decrypted behind a   *)
(* descriptor of which only the chunk's first byte is asked; that all of   *)
(* the chunk is there then, because no granule ends within it, is what the *)
(* alignment is for.                                                       *)
(* No alignment is needed for the values the variables take.               *)
(***************************************************************************)
EXTENDS TlsRecv, TLAPS

\* Cells, and granules of cells of the record buffer.
CellType == [record : Nat, part : Nat, plain : BOOLEAN]
Places == 1 .. BodyLength
GranuleType == [cells : UNION {[D -> CellType] : D \in SUBSET Places}, last : Int]

-----------------------------------------------------------------------------
(* The invariant                                                           *)

\* The types the proof needs.
Types ==
    /\ came \in Int /\ taken \in Int
    /\ pc \in {"poll", "header", "body", "recv", "tag", "update", "verify", "failed"}
    /\ have \in 0 .. BodyLength
    /\ bulk \in 0 .. Length
    /\ intact \in BOOLEAN
    /\ buffer \in [Places -> CellType]
    /\ pending \in Seq(GranuleType)
    /\ read \in Seq([1 .. Length -> CellType])

\* How far a record is at each place of the server.
Stages ==
    /\ pc \in {"body", "recv"} => have < BodyLength
    /\ pc \in {"body", "recv", "tag"} => bulk = 0
    /\ pc = "verify" => bulk = Length

\* The body's cells that were not received are those of earlier records, and
\* between records all of them are.
Body == 1 .. Length
InBuffer == IF pc \in {"poll", "header"} THEN 0 ELSE have
Fresh == \A i \in Body : i > InBuffer => buffer[i].record < Current

\* A cell of the body that is to be copied was received, and its place holds
\* nothing of this record yet.
Waiting ==
    \A k \in 1 .. Len(pending) : \A i \in Body \cap DOMAIN pending[k].cells :
        /\ i <= InBuffer
        /\ pending[k].cells[i] = Sealed(Current, i)
        /\ buffer[i].record < Current

\* No cell of the body is copied twice.
Disjoint ==
    \A k, m \in 1 .. Len(pending) :
        k # m => Body \cap DOMAIN pending[k].cells \cap DOMAIN pending[m].cells = {}

\* What was decrypted and is intact is there in the clear.
Decrypted ==
    pc \notin {"poll", "header"} /\ intact => \A i \in 1 .. bulk : buffer[i] = Plain(Current, i)

TlsInv == Types /\ Stages /\ Fresh /\ Waiting /\ Disjoint /\ Decrypted /\ ReadAsSent

LEMMA Sizes == /\ Length \in Nat \ {0} /\ Chunk \in Nat \ {0} /\ Granule \in Nat \ {0}
               /\ Stride \in Nat \ {0} /\ MsgSize \in Nat /\ MinRecv \in Nat
               /\ BodyLength = Length + 1 /\ Body \subseteq Places
  BY TlsAssumption DEF BodyLength, Body, Places

LEMMA CellTypes ==
    ASSUME NEW r \in Nat, NEW i \in Nat
    PROVE  /\ Sealed(r, i) \in CellType /\ Plain(r, i) \in CellType
           /\ Sealed(r, i).record = r /\ Plain(r, i).record = r
  BY DEF Sealed, Plain, CellType

LEMMA JunkType == Junk \in CellType /\ Junk.record = 0
  BY DEF Junk, CellType

LEMMA InitHolds == Init => TlsInv
<1> SUFFICES ASSUME Init PROVE TlsInv
  OBVIOUS
<1> USE DEF Init
<1>1. \A i \in Places : buffer[i] = Junk
  BY DEF Places
<1>2. Current = 1 /\ Len(read) = 0 /\ Len(pending) = 0
  BY DEF Current
<1>3. Types
  <2>1. buffer \in [Places -> CellType]
    BY JunkType, Zenon DEF Places
  <2> QED
    BY <2>1, Sizes DEF Types
<1>4. Fresh
  BY <1>1, <1>2, JunkType, Sizes DEF Fresh
<1> QED
  BY <1>2, <1>3, <1>4 DEF TlsInv, Stages, Waiting, Disjoint, Decrypted, ReadAsSent

-----------------------------------------------------------------------------
(* The granules of a receive                                               *)

\* Granules are behind each other.
LEMMA Behind ==
    ASSUME NEW G \in Nat, NEW k \in Nat, NEW m \in Nat, k < m
    PROVE  k * G <= (m - 1) * G
<1>1. (m - 1 - k) \in Nat
  OBVIOUS
<1>2. (m - 1 - k) * G >= 0
  BY <1>1
<1>3. (m - 1 - k) * G = (m - 1) * G - k * G
  OBVIOUS
<1>4. (m - 1) * G \in Int /\ k * G \in Int
  OBVIOUS
<1> QED
  BY <1>2, <1>3, <1>4

\* A receive of n cells is cut into granules of these cells, each in one of them.
LEMMA GranulesAreDistinct ==
    ASSUME Types, NEW n \in 1 .. Missing
    PROVE  /\ Granules(n) \in Seq(GranuleType)
           /\ \A k \in 1 .. Len(Granules(n)) : \A i \in DOMAIN Granules(n)[k].cells :
                 /\ i \in have + 1 .. have + n
                 /\ Granules(n)[k].cells[i] = Sealed(Current, i)
           /\ \A k, m \in 1 .. Len(Granules(n)) :
                 k # m => DOMAIN Granules(n)[k].cells \cap DOMAIN Granules(n)[m].cells = {}
<1> DEFINE count == (n + Granule - 1) \div Granule
           first(k) == have + (k - 1) * Granule + 1
           last(k) == have + (IF k * Granule < n THEN k * Granule ELSE n)
           cells(k) == [i \in first(k) .. last(k) |-> Sealed(Current, i)]
           granule(k) == [cells |-> cells(k), last |-> last(k) - have - 1]
<1>1. have \in Nat /\ n \in Nat \ {0} /\ have + n <= BodyLength /\ Granule \in Nat \ {0}
  BY Sizes DEF Types, Missing
<1>2. Granules(n) = [k \in 1 .. count |-> granule(k)]
  BY DEF Granules
<1>3. count \in Nat
  BY <1>1
<1> HIDE DEF count
<1>4. ASSUME NEW k \in 1 .. count
      PROVE  /\ first(k) \in Int /\ last(k) \in Int
             /\ first(k) >= have + 1 /\ last(k) <= have + n
  <2>1. (k - 1) * Granule \in Nat /\ k * Granule \in Int
    BY <1>1, <1>3
  <2> QED
    BY <1>1, <2>1
<1>5. ASSUME NEW k \in 1 .. count, NEW m \in 1 .. count, k < m
      PROVE  last(k) < first(m)
  <2>1. k * Granule <= (m - 1) * Granule
    BY <1>1, <1>3, <1>5, Behind
  <2>2. k * Granule \in Int /\ (m - 1) * Granule \in Int
    BY <1>1, <1>3
  <2> QED
    BY <1>1, <2>1, <2>2
<1> HIDE DEF first, last
<1>6. ASSUME NEW k \in 1 .. count
      PROVE  granule(k) \in GranuleType /\ DOMAIN granule(k).cells \subseteq have + 1 .. have + n
  <2>1. first(k) .. last(k) \subseteq have + 1 .. have + n
    BY <1>1, <1>4
  <2>2. first(k) .. last(k) \subseteq Places
    BY <1>1, <2>1, Sizes DEF Places
  <2>3. Current \in Nat
    BY DEF Current, Types
  <2>4. \A i \in first(k) .. last(k) : Sealed(Current, i) \in CellType
    BY <2>2, <2>3, CellTypes, Sizes DEF Places
  <2>5. cells(k) \in [first(k) .. last(k) -> CellType]
    BY <2>4
  <2>6. last(k) - have - 1 \in Int
    BY <1>1, <1>4
  <2>7. granule(k).cells = cells(k) /\ DOMAIN cells(k) = first(k) .. last(k)
    OBVIOUS
  <2> HIDE DEF cells
  <2>8. cells(k) \in UNION {[D -> CellType] : D \in SUBSET Places}
    BY <2>2, <2>5
  <2> QED
    BY <2>1, <2>6, <2>7, <2>8 DEF GranuleType
<1>7. Granules(n) \in Seq(GranuleType) /\ Len(Granules(n)) = count
  <2>1. \A k \in 1 .. count : granule(k) \in GranuleType
    BY <1>6
  <2> HIDE DEF granule
  <2> QED
    BY <1>2, <1>3, <2>1
<1>8. ASSUME NEW k \in 1 .. count
      PROVE  /\ Granules(n)[k].cells = cells(k)
             /\ DOMAIN Granules(n)[k].cells = first(k) .. last(k)
             /\ \A i \in first(k) .. last(k) : cells(k)[i] = Sealed(Current, i)
  <2>1. granule(k).cells = cells(k) /\ DOMAIN cells(k) = first(k) .. last(k)
    OBVIOUS
  <2>2. \A i \in first(k) .. last(k) : cells(k)[i] = Sealed(Current, i)
    OBVIOUS
  <2> HIDE DEF granule, cells
  <2> QED
    BY <1>2, <2>1, <2>2
<1> HIDE DEF granule, cells
<1>9. ASSUME NEW k \in 1 .. count, NEW m \in 1 .. count, k # m
      PROVE  DOMAIN Granules(n)[k].cells \cap DOMAIN Granules(n)[m].cells = {}
  <2>1. /\ DOMAIN Granules(n)[k].cells = first(k) .. last(k)
        /\ DOMAIN Granules(n)[m].cells = first(m) .. last(m)
    BY <1>8
  <2>2. first(k) \in Int /\ last(k) \in Int /\ first(m) \in Int /\ last(m) \in Int
    BY <1>4
  <2>3. last(k) < first(m) \/ last(m) < first(k)
    BY <1>3, <1>5, <1>9
  <2>4. (first(k) .. last(k)) \cap (first(m) .. last(m)) = {}
    BY <2>2, <2>3
  <2> QED
    BY <2>1, <2>4
<1>10. ASSUME NEW k \in 1 .. count, NEW i \in DOMAIN Granules(n)[k].cells
       PROVE  /\ i \in have + 1 .. have + n
              /\ Granules(n)[k].cells[i] = Sealed(Current, i)
  <2>1. i \in first(k) .. last(k)
    BY <1>8
  <2>2. i \in have + 1 .. have + n
    BY <1>1, <1>4, <2>1
  <2> QED
    BY <1>8, <2>1, <2>2
<1> QED
  BY <1>7, <1>9, <1>10

-----------------------------------------------------------------------------
(* The steps                                                               *)

\* What is in the granules.
LEMMA GranuleCells ==
    ASSUME Types, NEW k \in 1 .. Len(pending)
    PROVE  /\ DOMAIN pending[k].cells \subseteq Places
           /\ pending[k].cells \in [DOMAIN pending[k].cells -> CellType]
           /\ pending[k].last \in Int
<1>1. pending[k] \in GranuleType
  BY DEF Types
<1> DEFINE f == pending[k].cells
<1>2. f \in UNION {[D -> CellType] : D \in SUBSET Places} /\ pending[k].last \in Int
  BY <1>1 DEF GranuleType
<1> HIDE DEF f
<1>3. PICK D \in SUBSET Places : f \in [D -> CellType]
  BY <1>2
<1>4. DOMAIN f = D
  BY <1>3
<1> QED
  BY <1>2, <1>3, <1>4 DEF f

LEMMA CurrentType == Types => Current \in Nat \ {0}
  BY DEF Types, Current

\* A step that touches neither the body nor what is under way.
LEMMA SameBody ==
    ASSUME TlsInv, UNCHANGED <<pending, read>>, InBuffer' = InBuffer,
           \A i \in Body : buffer'[i] = buffer[i]
    PROVE  Fresh' /\ Waiting' /\ Disjoint' /\ ReadAsSent'
<1>1. Current' = Current
  BY DEF Current
<1>2. Fresh /\ Waiting /\ Disjoint /\ ReadAsSent
  BY DEF TlsInv
<1>3. Fresh'
  BY <1>1, <1>2 DEF Fresh, Body
<1>4. Waiting'
  <2> SUFFICES ASSUME NEW k \in 1 .. Len(pending), NEW i \in Body \cap DOMAIN pending[k].cells
               PROVE  /\ i <= InBuffer
                      /\ pending[k].cells[i] = Sealed(Current, i)
                      /\ buffer'[i].record < Current
    BY <1>1, Zenon DEF Waiting, Sealed, Body
  <2> QED
    BY <1>2 DEF Waiting
<1>5. Disjoint'
  BY <1>2 DEF Disjoint, Body
<1>6. ReadAsSent'
  BY <1>2 DEF ReadAsSent, Plain
<1> QED
  BY <1>3, <1>4, <1>5, <1>6

\* A step that goes on without touching the buffer, the record or the ring.
LEMMA QuietStep ==
    ASSUME TlsInv, Write \/ Arrive \/ PollReadable \/ PollTimeout \/ BodyAsync \/ UNCHANGED vars
    PROVE  TlsInv'
<1>0. Types /\ Stages /\ Decrypted
  BY DEF TlsInv
<1>1. /\ UNCHANGED <<have, bulk, intact, buffer, pending, read, taken>>
      /\ came' \in Int
      /\ \/ pc' = pc
         \/ pc = "poll" /\ pc' = "header"
         \/ pc = "body" /\ pc' = "recv"
  <2>1. CASE Write
    BY <1>0, <2>1 DEF Write, socketVars, recordVars, cipherVars, Types
  <2>2. CASE Arrive
    BY <1>0, <2>2 DEF Arrive, recordVars, cipherVars, Types
  <2>3. CASE PollReadable \/ PollTimeout \/ BodyAsync
    BY <1>0, <2>3 DEF PollReadable, PollTimeout, BodyAsync, socketVars, recordVars, cipherVars,
                      Types
  <2>4. CASE UNCHANGED vars
    BY <1>0, <2>4 DEF vars, socketVars, recordVars, cipherVars, Types
  <2> QED
    BY <2>1, <2>2, <2>3, <2>4
<1>2. Types'
  BY <1>0, <1>1 DEF Types
<1>3. Stages'
  BY <1>0, <1>1 DEF Stages
<1>4. InBuffer' = InBuffer
  BY <1>1 DEF InBuffer
<1>5. Decrypted'
  BY <1>0, <1>1 DEF Decrypted, Current, Plain
<1> QED
  BY <1>1, <1>2, <1>3, <1>4, <1>5, SameBody DEF TlsInv

LEMMA HeaderStep == ASSUME TlsInv, ReadHeader PROVE TlsInv'
<1>0. Types
  BY DEF TlsInv
<1>1. /\ pc = "header" /\ pc' = "body" /\ have' = 0 /\ bulk' = 0 /\ intact' = TRUE
      /\ taken' = taken + 1 /\ UNCHANGED <<came, buffer, pending, read>>
  BY DEF ReadHeader
<1>2. Types' /\ Stages'
  BY <1>0, <1>1, Sizes DEF Types, Stages
<1>3. InBuffer' = InBuffer
  BY <1>1 DEF InBuffer
<1>4. Decrypted'
  BY <1>1 DEF Decrypted
<1> QED
  BY <1>1, <1>2, <1>3, <1>4, SameBody DEF TlsInv

\* The cells of the first granule are stored, and no others.
LEMMA HeadIsStored ==
    ASSUME Types, CopierStep
    PROVE  buffer' = [i \in Places |-> IF i \in DOMAIN pending[1].cells
                                       THEN pending[1].cells[i] ELSE buffer[i]]
<1> DEFINE g == pending[1].cells
<1>1. buffer' = Stored({pending[1]})
  BY DEF CopierStep, Types
<1>2. \A i : /\ (\E x \in {pending[1]} : i \in DOMAIN x.cells) <=> i \in DOMAIN g
             /\ i \in DOMAIN g =>
                  (CHOOSE x \in {pending[1]} : i \in DOMAIN x.cells).cells[i] = g[i]
  OBVIOUS
<1>3. buffer' = [i \in Places |-> IF i \in DOMAIN g THEN g[i] ELSE buffer[i]]
  <2> HIDE DEF g
  <2> QED
    BY <1>1, <1>2 DEF Stored, Places
<1> QED
  BY <1>3

\* A granule is copied: to places that hold nothing of the record.
LEMMA CopyStep == ASSUME TlsInv, CopierStep PROVE TlsInv'
<1> DEFINE g == pending[1].cells
<1>0. Types /\ Stages /\ Fresh /\ Waiting /\ Disjoint /\ Decrypted /\ ReadAsSent
  BY DEF TlsInv
<1>1. /\ 1 \in 1 .. Len(pending) /\ Head(pending) = pending[1]
      /\ pending' = Tail(pending) /\ pending' \in Seq(GranuleType)
      /\ Len(pending') = Len(pending) - 1
      /\ \A k \in 1 .. Len(pending') : k + 1 \in 1 .. Len(pending) /\ pending'[k] = pending[k + 1]
  BY <1>0 DEF CopierStep, Types
<1>2. UNCHANGED <<came, taken, pc, have, bulk, intact, read>>
  BY DEF CopierStep, socketVars, recordVars, cipherVars
<1>3. DOMAIN g \subseteq Places /\ g \in [DOMAIN g -> CellType]
  BY <1>0, <1>1, GranuleCells
<1>4. buffer' = [i \in Places |-> IF i \in DOMAIN g THEN g[i] ELSE buffer[i]]
  BY <1>0, HeadIsStored
<1>5. Types'
  <2>1. buffer' \in [Places -> CellType]
    BY <1>0, <1>3, <1>4 DEF Types
  <2> QED
    BY <1>0, <1>1, <1>2, <2>1 DEF Types
<1>6. Stages' /\ InBuffer' = InBuffer /\ Current' = Current
  BY <1>0, <1>2 DEF Stages, InBuffer, Current
<1>7. \A i \in Body \cap DOMAIN g : i <= InBuffer /\ buffer[i].record < Current
  BY <1>0, <1>1 DEF Waiting
<1>8. \A i \in Body : i \notin DOMAIN g => buffer'[i] = buffer[i]
  BY <1>4, Sizes
<1>9. InBuffer \in Int /\ Current \in Nat /\ Body \subseteq Nat
  BY <1>0, CurrentType, Sizes DEF Types, InBuffer, Body
<1>10. Fresh'
  <2> SUFFICES ASSUME NEW i \in Body, i > InBuffer PROVE buffer'[i].record < Current
    BY <1>6 DEF Fresh, Body
  <2>1. i \notin DOMAIN g
    BY <1>7, <1>9
  <2> QED
    BY <1>0, <1>8, <2>1 DEF Fresh
<1>11. Disjoint'
  <2> SUFFICES ASSUME NEW k \in 1 .. Len(pending'), NEW m \in 1 .. Len(pending'), k # m
               PROVE  Body \cap DOMAIN pending'[k].cells \cap DOMAIN pending'[m].cells = {}
    BY Zenon DEF Disjoint, Body
  <2> QED
    BY <1>0, <1>1 DEF Disjoint
<1>12. Waiting'
  <2> SUFFICES ASSUME NEW k \in 1 .. Len(pending'), NEW i \in Body \cap DOMAIN pending'[k].cells
               PROVE  /\ i <= InBuffer
                      /\ pending'[k].cells[i] = Sealed(Current, i)
                      /\ buffer'[i].record < Current
    BY <1>6, Zenon DEF Waiting, Body, Sealed
  <2>1. k + 1 \in 1 .. Len(pending) /\ k + 1 # 1 /\ pending'[k] = pending[k + 1]
    BY <1>1
  <2>2. i \notin DOMAIN g
    BY <1>0, <1>1, <2>1 DEF Disjoint
  <2>3. /\ i <= InBuffer /\ pending[k + 1].cells[i] = Sealed(Current, i)
        /\ buffer[i].record < Current
    BY <1>0, <2>1 DEF Waiting
  <2> QED
    BY <1>8, <2>1, <2>2, <2>3
<1>13. Decrypted'
  <2> SUFFICES ASSUME pc \notin {"poll", "header"}, intact, NEW i \in 1 .. bulk
               PROVE  buffer'[i] = Plain(Current, i)
    BY <1>2, <1>6 DEF Decrypted, Plain
  <2>1. i \in Body /\ i \in Nat
    BY <1>0, Sizes DEF Types, Body
  <2>2. buffer[i] = Plain(Current, i) /\ buffer[i].record = Current
    BY <1>0, <1>9, <2>1, CellTypes DEF Decrypted
  <2>3. i \notin DOMAIN g
    BY <1>7, <1>9, <2>1, <2>2
  <2> QED
    BY <1>8, <2>1, <2>2, <2>3
<1>14. ReadAsSent'
  BY <1>0, <1>2 DEF ReadAsSent, Plain
<1> QED
  BY <1>5, <1>6, <1>10, <1>11, <1>12, <1>13, <1>14 DEF TlsInv

\* A receive that returns at once: its cells wait behind those that do.
LEMMA ArecvStep == ASSUME TlsInv, Arecv PROVE TlsInv'
<1> DEFINE n == IF Available < Missing THEN Available ELSE Missing
           old == Len(pending)
           new == Len(Granules(n))
<1>0. Types /\ Stages /\ Fresh /\ Waiting /\ Disjoint /\ Decrypted /\ ReadAsSent
  BY DEF TlsInv
<1>1. /\ pc = "recv" /\ Received(n) /\ pending' = pending \o Granules(n) /\ Available > 0
      /\ UNCHANGED <<came, buffer, bulk, intact, read>>
  BY DEF Arecv, cipherVars
<1>2. have \in Nat /\ have < BodyLength /\ came \in Int /\ taken \in Int
  BY <1>0, <1>1 DEF Types, Stages
<1>3. n \in 1 .. Missing /\ n \in Nat /\ have + n <= BodyLength
  BY <1>1, <1>2, Sizes DEF Available, Missing
<1> HIDE DEF n
<1>4. /\ have' = have + n /\ taken' = taken + n /\ Current' = Current
      /\ pc' = IF n < Missing THEN "body" ELSE "tag"
  BY <1>1 DEF Received, Current
<1>5. /\ Granules(n) \in Seq(GranuleType)
      /\ \A k \in 1 .. new : \A i \in DOMAIN Granules(n)[k].cells :
            i \in have + 1 .. have + n /\ Granules(n)[k].cells[i] = Sealed(Current, i)
      /\ \A k, m \in 1 .. new :
            k # m => DOMAIN Granules(n)[k].cells \cap DOMAIN Granules(n)[m].cells = {}
  BY <1>0, <1>3, GranulesAreDistinct
<1>6. /\ pending' \in Seq(GranuleType) /\ old \in Nat /\ new \in Nat /\ Len(pending') = old + new
      /\ \A k \in 1 .. old : pending'[k] = pending[k]
      /\ \A k \in old + 1 .. old + new : k - old \in 1 .. new /\ pending'[k] = Granules(n)[k - old]
  <2>1. pending \in Seq(GranuleType)
    BY <1>0 DEF Types
  <2> HIDE DEF new
  <2> QED
    BY <1>1, <1>5, <2>1 DEF new
<1>7. Types'
  BY <1>0, <1>1, <1>2, <1>3, <1>4, <1>6 DEF Types
<1>8. Stages'
  BY <1>0, <1>1, <1>2, <1>3, <1>4, Sizes DEF Stages, Missing
<1>9. InBuffer = have /\ InBuffer' = have + n
  BY <1>1, <1>4 DEF InBuffer
<1>10. Fresh'
  <2> SUFFICES ASSUME NEW i \in Body, i > have + n PROVE buffer[i].record < Current
    BY <1>1, <1>4, <1>9 DEF Fresh, Body
  <2>1. i > have
    BY <1>2, <1>3, Sizes DEF Body
  <2> QED
    BY <1>0, <1>9, <2>1 DEF Fresh
<1>11. ASSUME NEW k \in 1 .. old, NEW i \in Body \cap DOMAIN pending'[k].cells
       PROVE  /\ i <= have
              /\ pending'[k].cells[i] = Sealed(Current, i)
              /\ buffer[i].record < Current
  BY <1>0, <1>6, <1>9 DEF Waiting
<1>12. ASSUME NEW k \in old + 1 .. old + new, NEW i \in Body \cap DOMAIN pending'[k].cells
       PROVE  /\ i \in have + 1 .. have + n
              /\ pending'[k].cells[i] = Sealed(Current, i)
              /\ buffer[i].record < Current
  <2>1. /\ i \in have + 1 .. have + n
        /\ pending'[k].cells[i] = Sealed(Current, i)
    BY <1>5, <1>6
  <2>2. i > InBuffer
    BY <1>2, <1>3, <1>9, <2>1
  <2> QED
    BY <1>0, <2>1, <2>2 DEF Fresh
<1>13. Waiting'
  <2> SUFFICES ASSUME NEW k \in 1 .. Len(pending'), NEW i \in Body \cap DOMAIN pending'[k].cells
               PROVE  /\ i <= have + n
                      /\ pending'[k].cells[i] = Sealed(Current, i)
                      /\ buffer[i].record < Current
    BY <1>1, <1>4, <1>9, Zenon DEF Waiting, Body, Sealed
  <2>1. CASE k \in 1 .. old
    <3>1. i <= have /\ i \in Nat
      BY <1>11, <2>1, Sizes DEF Body
    <3> QED
      BY <1>2, <1>3, <1>11, <2>1, <3>1
  <2>2. CASE k \in old + 1 .. old + new
    <3>1. i \in have + 1 .. have + n
      BY <1>12, <2>2
    <3>2. i <= have + n
      BY <1>2, <1>3, <3>1
    <3> QED
      BY <1>12, <2>2, <3>2
  <2> QED
    BY <1>6, <2>1, <2>2
<1>14. Disjoint'
  <2> SUFFICES ASSUME NEW k \in 1 .. Len(pending'), NEW m \in 1 .. Len(pending'), k # m,
                      NEW i \in Body, i \in DOMAIN pending'[k].cells, i \in DOMAIN pending'[m].cells
               PROVE  FALSE
    BY Zenon DEF Disjoint, Body
  <2>1. CASE k \in 1 .. old /\ m \in 1 .. old
    BY <1>0, <1>6, <2>1 DEF Disjoint
  <2>2. CASE k \in old + 1 .. old + new /\ m \in old + 1 .. old + new
    <3>1. k - old # m - old
      BY <1>6, <2>2
    <3> QED
      BY <1>5, <1>6, <2>2, <3>1
  <2>3. CASE k \in 1 .. old /\ m \in old + 1 .. old + new
    BY <1>2, <1>3, <1>11, <1>12, <2>3
  <2>4. CASE m \in 1 .. old /\ k \in old + 1 .. old + new
    BY <1>2, <1>3, <1>11, <1>12, <2>4
  <2> QED
    BY <1>6, <2>1, <2>2, <2>3, <2>4
<1>15. Decrypted'
  <2>1. bulk' = 0
    BY <1>0, <1>1 DEF Stages
  <2> QED
    BY <2>1 DEF Decrypted
<1>16. ReadAsSent'
  BY <1>0, <1>1 DEF ReadAsSent, Plain
<1> QED
  BY <1>7, <1>8, <1>10, <1>13, <1>14, <1>15, <1>16 DEF TlsInv

\* An ordinary receive: its cells are in the buffer when it returns.
LEMMA BodySyncStep == ASSUME TlsInv, BodySync PROVE TlsInv'
<1> DEFINE n == IF Available < Missing THEN Available ELSE Missing
<1>0. Types /\ Stages /\ Fresh /\ Waiting /\ Disjoint /\ Decrypted /\ ReadAsSent
  BY DEF TlsInv
<1>1. /\ pc = "body" /\ Received(n) /\ Available > 0
      /\ buffer' = [i \in 1 .. BodyLength |->
             IF i \in have + 1 .. have + n THEN Sealed(Current, i) ELSE buffer[i]]
      /\ UNCHANGED <<came, pending, bulk, intact, read>>
  BY DEF BodySync, cipherVars
<1>2. have \in Nat /\ have < BodyLength /\ came \in Int /\ taken \in Int
  BY <1>0, <1>1 DEF Types, Stages
<1>3. n \in 1 .. Missing /\ n \in Nat /\ have + n <= BodyLength
  BY <1>1, <1>2, Sizes DEF Available, Missing
<1> HIDE DEF n
<1>4. /\ have' = have + n /\ taken' = taken + n /\ Current' = Current
      /\ pc' = IF n < Missing THEN "body" ELSE "tag"
  BY <1>1 DEF Received, Current
<1>5. Types'
  <2>1. \A i \in Places : Sealed(Current, i) \in CellType
    BY <1>0, CurrentType, CellTypes, Sizes DEF Places
  <2>2. buffer' \in [Places -> CellType]
    BY <1>0, <1>1, <2>1 DEF Types, Places
  <2> QED
    BY <1>0, <1>1, <1>2, <1>3, <1>4, <2>2 DEF Types
<1>6. Stages'
  BY <1>0, <1>1, <1>2, <1>3, <1>4, Sizes DEF Stages, Missing
<1>7. InBuffer = have /\ InBuffer' = have + n
  BY <1>1, <1>4 DEF InBuffer
<1>8. \A i \in Body : i \notin have + 1 .. have + n => buffer'[i] = buffer[i]
  BY <1>1, Sizes DEF Places
<1>9. Fresh'
  <2> SUFFICES ASSUME NEW i \in Body, i > have + n PROVE buffer'[i].record < Current
    BY <1>4, <1>7 DEF Fresh, Body
  <2>1. i > have /\ i \notin have + 1 .. have + n
    BY <1>2, <1>3, Sizes DEF Body
  <2> QED
    BY <1>0, <1>7, <1>8, <2>1 DEF Fresh
<1>10. Waiting'
  <2> SUFFICES ASSUME NEW k \in 1 .. Len(pending), NEW i \in Body \cap DOMAIN pending[k].cells
               PROVE  /\ i <= have + n
                      /\ pending[k].cells[i] = Sealed(Current, i)
                      /\ buffer'[i].record < Current
    BY <1>1, <1>4, <1>7, Zenon DEF Waiting, Body, Sealed
  <2>1. /\ i <= have /\ pending[k].cells[i] = Sealed(Current, i)
        /\ buffer[i].record < Current
    BY <1>0, <1>7 DEF Waiting
  <2>2. i <= have + n /\ i \notin have + 1 .. have + n
    BY <1>2, <1>3, <2>1, Sizes DEF Body
  <2> QED
    BY <1>8, <2>1, <2>2
<1>11. Disjoint' /\ ReadAsSent'
  BY <1>0, <1>1 DEF Disjoint, Body, ReadAsSent, Plain
<1>12. Decrypted'
  <2>1. bulk' = 0
    BY <1>0, <1>1 DEF Stages
  <2> QED
    BY <2>1 DEF Decrypted
<1> QED
  BY <1>5, <1>6, <1>9, <1>10, <1>11, <1>12 DEF TlsInv

\* csync stores the tag only.
LEMMA SetTagStep == ASSUME TlsInv, SetTag PROVE TlsInv'
<1>0. Types /\ Stages /\ Decrypted
  BY DEF TlsInv
<1>1. /\ pc = "tag" /\ pc' = "update"
      /\ UNCHANGED <<came, taken, have, bulk, intact, pending, read>>
  BY DEF SetTag, socketVars, recordVars
<1>2. \A i \in Places : buffer'[i] = buffer[i] \/ (i = BodyLength /\ buffer'[i] = Sealed(Current, i))
  BY DEF SetTag, TagRange, NoRange, Places
<1>3. DOMAIN buffer' = Places /\ buffer' = [i \in Places |-> buffer'[i]]
  BY DEF SetTag, Places
<1>4. buffer' \in [Places -> CellType]
  <2>1. \A i \in Places : Sealed(Current, i) \in CellType
    BY <1>0, CurrentType, CellTypes, Sizes DEF Places
  <2>2. \A i \in Places : buffer'[i] \in CellType
    BY <1>0, <1>2, <2>1 DEF Types
  <2> QED
    BY <1>3, <2>2
<1>5. Types' /\ Stages' /\ InBuffer' = InBuffer
  BY <1>0, <1>1, <1>4 DEF Types, Stages, InBuffer
<1>6. \A i \in Body : buffer'[i] = buffer[i]
  BY <1>2, Sizes DEF Body, Places
<1>7. Decrypted'
  <2>1. bulk = 0
    BY <1>0, <1>1 DEF Stages
  <2> QED
    BY <1>1, <2>1 DEF Decrypted
<1> QED
  BY <1>1, <1>5, <1>6, <1>7, SameBody DEF TlsInv

\* n cells are decrypted: what was not there yet becomes junk, and is not taken
\* for intact.
LEMMA DecryptCells ==
    ASSUME TlsInv, NEW n \in Nat, bulk + n <= Length, Decrypt(n), pc = "update",
           UNCHANGED <<came, taken, have, pending, read>>,
           pc' = "update" \/ (pc' = "verify" /\ bulk + n = Length)
    PROVE  TlsInv'
<1>0. Types /\ Stages /\ Fresh /\ Waiting /\ Disjoint /\ Decrypted /\ ReadAsSent
  BY DEF TlsInv
<1>1. bulk \in Nat /\ bulk + n \in 0 .. Length /\ Length < BodyLength /\ Length \in Nat
  BY <1>0, Sizes DEF Types
<1> DEFINE turn == bulk + 1 .. bulk + n
<1>2. /\ bulk' = bulk + n
      /\ intact' = (intact /\ \A i \in turn : buffer[i] = Sealed(Current, i))
      /\ buffer' = [i \in Places |->
             IF i \notin turn THEN buffer[i]
             ELSE IF buffer[i] = Sealed(Current, i) THEN Plain(Current, i) ELSE Junk]
  BY DEF Decrypt, Places
<1>3. Current' = Current /\ Current \in Nat \ {0} /\ InBuffer' = InBuffer
  BY <1>0, CurrentType DEF Current, InBuffer
<1>4. Types'
  <2>1. \A i \in Places : Plain(Current, i) \in CellType
    BY <1>3, CellTypes, Sizes DEF Places
  <2>2. buffer' \in [Places -> CellType]
    <3>1. buffer \in [Places -> CellType]
      BY <1>0 DEF Types
    <3> HIDE DEF turn
    <3> QED
      BY <1>2, <2>1, <3>1, JunkType
  <2>3. intact' \in BOOLEAN
    BY <1>0, <1>2, Zenon DEF Types
  <2> QED
    BY <1>0, <1>1, <1>2, <2>2, <2>3 DEF Types
<1>5. Stages'
  BY <1>2 DEF Stages
<1> HIDE DEF turn
<1>6. ASSUME NEW i \in Body, buffer[i].record < Current
      PROVE  buffer'[i].record < Current
  <2>1. i \in Places /\ i \in Nat
    BY Sizes DEF Body
  <2>2. buffer[i] # Sealed(Current, i)
    BY <1>3, <1>6, <2>1, CellTypes
  <2>3. buffer'[i] = buffer[i] \/ buffer'[i] = Junk
    BY <1>2, <2>1, <2>2
  <2> QED
    BY <1>3, <1>6, <2>3, JunkType
<1>7. Fresh'
  <2> SUFFICES ASSUME NEW i \in Body, i > InBuffer PROVE buffer'[i].record < Current
    BY <1>3 DEF Fresh, Body
  <2> QED
    BY <1>0, <1>6 DEF Fresh
<1>8. Waiting'
  <2> SUFFICES ASSUME NEW k \in 1 .. Len(pending), NEW i \in Body \cap DOMAIN pending[k].cells
               PROVE  /\ i <= InBuffer
                      /\ pending[k].cells[i] = Sealed(Current, i)
                      /\ buffer'[i].record < Current
    BY <1>3, Zenon DEF Waiting, Body, Sealed
  <2> QED
    BY <1>0, <1>6 DEF Waiting
<1>9. Disjoint' /\ ReadAsSent'
  BY <1>0 DEF Disjoint, Body, ReadAsSent, Plain
<1>10. Decrypted'
  <2> SUFFICES ASSUME intact', NEW i \in 1 .. bulk + n
               PROVE  buffer'[i] = Plain(Current, i)
    BY <1>2, <1>3 DEF Decrypted, Plain
  <2>1. intact /\ \A j \in turn : buffer[j] = Sealed(Current, j)
    BY <1>2
  <2>2. i \in Places
    BY <1>1, Sizes DEF Places
  <2>3. CASE i \in turn
    BY <1>2, <2>1, <2>2, <2>3
  <2>4. CASE i \notin turn
    <3>1. i \in 1 .. bulk
      BY <1>1, <2>4 DEF turn
    <3>2. buffer[i] = Plain(Current, i)
      BY <1>0, <2>1, <3>1 DEF Decrypted
    <3> QED
      BY <1>2, <2>2, <2>4, <3>2
  <2> QED
    BY <2>3, <2>4
<1> QED
  BY <1>4, <1>5, <1>7, <1>8, <1>9, <1>10 DEF TlsInv

LEMMA DecryptStep == ASSUME TlsInv, DecryptChunk \/ DecryptRest PROVE TlsInv'
<1>1. bulk \in 0 .. Length /\ Length \in Nat /\ Chunk \in Nat \ {0} /\ Stride \in Nat \ {0}
  BY Sizes DEF TlsInv, Types
<1>2. CASE DecryptChunk
  <2> DEFINE n == ChunkSize - (ChunkSize % Stride)
  <2>1. ChunkSize \in Nat /\ bulk + ChunkSize <= Length
    BY <1>1 DEF ChunkSize
  <2>2. ChunkSize % Stride \in 0 .. ChunkSize
    <3>1. ChunkSize % Stride \in 0 .. Stride - 1
      BY <1>1, <2>1
    <3>2. ChunkSize >= Stride \/ ChunkSize % Stride = ChunkSize
      BY <1>1, <2>1
    <3> QED
      BY <1>1, <2>1, <3>1, <3>2
  <2>3. n \in Nat /\ bulk + n <= Length
    BY <1>1, <2>1, <2>2
  <2>4. Decrypt(n) /\ pc = "update" /\ pc' = "update" /\ UNCHANGED <<came, taken, have, pending, read>>
    BY <1>2 DEF DecryptChunk, socketVars, recordVars
  <2> HIDE DEF n
  <2> QED
    BY <2>3, <2>4, DecryptCells
<1>3. CASE DecryptRest
  <2>1. Length - bulk \in Nat /\ bulk + (Length - bulk) = Length
    BY <1>1
  <2>2. /\ Decrypt(Length - bulk) /\ pc = "update" /\ pc' = "verify"
        /\ UNCHANGED <<came, taken, have, pending, read>>
    BY <1>3 DEF DecryptRest, socketVars, recordVars
  <2> QED
    BY <1>1, <2>1, <2>2, DecryptCells
<1> QED
  BY <1>2, <1>3

\* A record is read, or the connection is given up.
LEMMA ReadStep == ASSUME TlsInv, SslRead PROVE TlsInv'
<1>0. Types /\ Stages /\ Fresh /\ Waiting /\ Disjoint /\ Decrypted /\ ReadAsSent
  BY DEF TlsInv
<1>1. pc = "verify" /\ UNCHANGED <<came, taken, have, bulk, intact, buffer, pending>>
  BY DEF SslRead, socketVars, recordVars, cipherVars
<1>2. CASE ~Verified
  <2>1. pc' = "failed" /\ UNCHANGED read
    BY <1>2 DEF SslRead
  <2>2. Types' /\ Stages' /\ InBuffer' = InBuffer
    BY <1>0, <1>1, <2>1 DEF Types, Stages, InBuffer
  <2>3. Decrypted'
    BY <1>0, <1>1, <2>1 DEF Decrypted, Current, Plain
  <2> QED
    BY <1>1, <2>1, <2>2, <2>3, SameBody DEF TlsInv
<1>3. CASE Verified
  <2> DEFINE record == [i \in 1 .. Length |-> buffer[i]]
  <2>1. pc' = "poll" /\ read' = Append(read, record) /\ intact
    BY <1>3 DEF SslRead, Verified
  <2>2. \A i \in Body : buffer[i] = Plain(Current, i)
    BY <1>0, <1>1, <2>1 DEF Stages, Decrypted, Body
  <2>3. record \in [1 .. Length -> CellType] /\ record = [i \in 1 .. Length |-> Plain(Current, i)]
    BY <1>0, <2>2, Sizes DEF Types, Body
  <2>4. read \in Seq([1 .. Length -> CellType]) /\ Current = Len(read) + 1 /\ Current \in Nat \ {0}
    BY <1>0, CurrentType DEF Types, Current
  <2> HIDE DEF record
  <2>5. /\ read' \in Seq([1 .. Length -> CellType]) /\ Len(read') = Current
        /\ read'[Current] = record /\ \A r \in 1 .. Len(read) : read'[r] = read[r]
    BY <2>1, <2>3, <2>4
  <2>6. Current' = Current + 1 /\ InBuffer' = 0
    BY <2>1, <2>5 DEF Current, InBuffer
  <2>7. ReadAsSent'
    <3> SUFFICES ASSUME NEW r \in 1 .. Len(read')
                 PROVE  read'[r] = [i \in 1 .. Length |-> Plain(r, i)]
      BY Zenon DEF ReadAsSent, Plain
    <3>1. CASE r = Current
      BY <2>3, <2>5, <3>1
    <3>2. CASE r \in 1 .. Len(read)
      BY <1>0, <2>5, <3>2 DEF ReadAsSent
    <3> QED
      BY <2>4, <2>5, <3>1, <3>2
  <2>8. \A i \in Body : buffer[i].record = Current
    BY <2>2, <2>4, CellTypes, Sizes DEF Body
  <2>9. Fresh'
    <3> SUFFICES ASSUME NEW i \in Body PROVE buffer[i].record < Current + 1
      BY <1>1, <2>6 DEF Fresh, Body
    <3> QED
      BY <2>4, <2>8
  <2>10. \A k \in 1 .. Len(pending) : Body \cap DOMAIN pending[k].cells = {}
    BY <1>0, <2>4, <2>8 DEF Waiting
  <2>11. Waiting' /\ Disjoint'
    BY <1>1, <2>10 DEF Waiting, Disjoint, Body
  <2>12. Types' /\ Stages' /\ Decrypted'
    BY <1>0, <1>1, <2>1, <2>5 DEF Types, Stages, Decrypted
  <2> QED
    BY <2>7, <2>9, <2>11, <2>12 DEF TlsInv
<1> QED
  BY <1>2, <1>3

-----------------------------------------------------------------------------
(* The theorem                                                             *)

\* What SSL_read returns is what was sent, whatever the sizes of the records,
\* the chunks and the granules, and however a record is torn: no decrypted cell
\* is overwritten by a copy, and no cell that was decrypted too early is taken
\* for good.
THEOREM ReadIsSent == Spec => []ReadAsSent
<1>1. TlsInv /\ [Next]_vars => TlsInv'
  BY QuietStep, HeaderStep, CopyStep, ArecvStep, BodySyncStep, SetTagStep, DecryptStep, ReadStep
     DEF Next, Server
<1>2. TlsInv => ReadAsSent
  BY DEF TlsInv
<1> QED
  BY <1>1, <1>2, InitHolds, PTL DEF Spec

-----------------------------------------------------------------------------
(* Multiples                                                               *)

LEMMA Quotient ==
    ASSUME NEW N \in Nat \ {0}, NEW a \in Nat
    PROVE  /\ a \div N \in Nat
           /\ a % N \in 0 .. N - 1
           /\ a = (a \div N) * N + (a % N)
  BY SMT

LEMMA NextMultiple ==
    ASSUME NEW N \in Nat \ {0}, NEW p \in Nat, NEW q \in Nat, p * N < q * N
    PROVE  (p + 1) * N <= q * N /\ (p + 1) * N = p * N + N
<1>1. p < q
  <2> SUFFICES ASSUME q <= p PROVE FALSE
    OBVIOUS
  <2>1. p - q \in Nat
    OBVIOUS
  <2>2. (p - q) * N >= 0
    BY <2>1
  <2>3. (p - q) * N = p * N - q * N
    OBVIOUS
  <2> QED
    BY <2>2, <2>3
<1>2. q - p - 1 \in Nat
  BY <1>1
<1>3. (q - p - 1) * N >= 0
  BY <1>2
<1>4. (q - p - 1) * N = q * N - (p + 1) * N /\ (p + 1) * N = p * N + N
  OBVIOUS
<1> QED
  BY <1>3, <1>4

LEMMA NoRemainder ==
    ASSUME NEW N \in Nat \ {0}, NEW q \in Nat
    PROVE  (q * N) % N = 0
<1> DEFINE p == (q * N) \div N
           r == (q * N) % N
<1>1. q * N \in Nat
  OBVIOUS
<1>2. p \in Nat /\ r \in 0 .. N - 1 /\ q * N = p * N + r
  BY <1>1, Quotient
<1> HIDE DEF p, r
<1>3. p * N \in Nat /\ (p + 1) * N = p * N + N
  BY <1>2
<1>4. CASE r > 0
  <2>1. p * N < q * N
    BY <1>1, <1>2, <1>3, <1>4
  <2>2. (p + 1) * N <= q * N
    BY <1>2, <2>1, NextMultiple
  <2> QED
    BY <1>1, <1>2, <1>3, <2>2
<1> QED
  BY <1>2, <1>4 DEF r

\* The granules of n cells: as many as it takes.
LEMMA Count ==
    ASSUME NEW n \in Nat \ {0}, NEW G \in Nat \ {0}
    PROVE  /\ (n + G - 1) \div G \in Nat
           /\ ((n + G - 1) \div G) * G >= n
           /\ \A k \in 1 .. (n + G - 1) \div G : (k - 1) * G < n
<1> DEFINE q == (n + G - 1) \div G
           r == (n + G - 1) % G
<1>1. q \in Nat /\ r \in 0 .. G - 1 /\ n + G - 1 = q * G + r
  <2>1. n + G - 1 \in Nat
    OBVIOUS
  <2> QED
    BY <2>1, Quotient
<1> HIDE DEF q, r
<1>2. q * G \in Nat /\ q * G >= n /\ q * G < n + G
  BY <1>1
<1>3. ASSUME NEW k \in 1 .. q PROVE (k - 1) * G < n
  <2>1. q - k \in Nat /\ (q - k) * G >= 0 /\ (k - 1) * G \in Nat
    BY <1>1
  <2>2. (q - k) * G = q * G - (k - 1) * G - G
    BY <1>1
  <2> QED
    BY <1>2, <2>1, <2>2
<1> QED
  BY <1>1, <1>2, <1>3 DEF q

-----------------------------------------------------------------------------
(* The invariant                                                           *)

\* A whole body is received by arecv.
Async == BodyLength >= MsgSize

\* The cells up to the descriptor, and the end of the k-th granule behind it.
Upto == descriptor + 1
Top(k) == IF Upto + k * Granule < BodyLength THEN Upto + k * Granule ELSE BodyLength

\* No granule holds a tag alone.  As a cell of the body that is to be copied was
\* received, no granule is pending between the records.
NoneAlone == \A k \in 1 .. Len(pending) : Body \cap DOMAIN pending[k].cells # {}

\* How a body has come, at each place of the server.
Ways ==
    /\ asyncRecv \in BOOLEAN /\ torn \in BOOLEAN /\ descriptor \in Int
    /\ asyncRecv => Async
    /\ ~Async => pending = <<>>
    /\ pc = "recv" => asyncRecv /\ Missing >= MsgSize
    /\ pc = "failed" => torn
    /\ pc \in {"tag", "update", "verify"} => have = BodyLength
    /\ pc \in {"body", "recv", "tag"} => intact
    /\ pc \in {"body", "recv"} /\ ~torn => have = 0
    /\ pc = "recv" /\ ~torn => descriptor = -1
    /\ pc = "tag" /\ ~torn => (asyncRecv <=> Async)

\* A body that came at once is cut into granules behind the descriptor, and is
\* all there in front of it, as it was sent or decrypted.
AtOnce == pc \in {"tag", "update", "verify"} /\ ~torn /\ Async
Cut ==
    /\ Upto \in 0 .. BodyLength
    /\ Upto = BodyLength \/ \E q \in Nat : Upto = q * Granule
    /\ Upto + Len(pending) * Granule >= BodyLength
    /\ \A k \in 1 .. Len(pending) :
          /\ DOMAIN pending[k].cells = Upto + (k - 1) * Granule + 1 .. Top(k)
          /\ pending[k].last = Top(k) - 1
          /\ \A i \in DOMAIN pending[k].cells : pending[k].cells[i] = Sealed(Current, i)
InFront == \A i \in Places : bulk < i /\ i <= Upto => buffer[i] = Sealed(Current, i)

\* What the cipher goes on with is there.
Sound ==
    ~torn =>
        /\ pc = "tag" /\ ~Async => \A i \in Places : buffer[i] = Sealed(Current, i)
        /\ pc = "update" /\ asyncRecv => intact /\ \E p \in Nat : bulk = p * Chunk
        /\ pc = "update" /\ ~asyncRecv =>
              intact /\ \A i \in bulk + 1 .. Length : buffer[i] = Sealed(Current, i)
        /\ pc = "verify" => intact
        /\ pc \in {"update", "verify"} => tag = Sealed(Current, BodyLength)

WholeInv == NoneAlone /\ Ways /\ (AtOnce => Cut /\ InFront) /\ Sound

LEMMA WholeInit == Init => WholeInv
<1> SUFFICES ASSUME Init PROVE WholeInv
  OBVIOUS
<1>1. /\ Len(pending) = 0 /\ pending = <<>> /\ pc = "poll" /\ ~asyncRecv /\ descriptor \in Int
      /\ asyncRecv \in BOOLEAN /\ torn \in BOOLEAN
  <2>1. Len(pending) = 0 /\ pending = <<>> /\ pc = "poll" /\ descriptor \in Int
    BY DEF Init
  <2>2. ~asyncRecv /\ asyncRecv \in BOOLEAN /\ torn \in BOOLEAN
    BY Zenon DEF Init
  <2> QED
    BY <2>1, <2>2
<1>2. NoneAlone /\ ~AtOnce
  BY <1>1 DEF NoneAlone, AtOnce
<1>3. Ways
  BY <1>1 DEF Ways
<1>4. Sound
  BY <1>1 DEF Sound
<1> QED
  BY <1>2, <1>3, <1>4 DEF WholeInv

LEMMA NothingPending ==
    ASSUME TlsInv, NoneAlone, InBuffer = 0
    PROVE  pending = <<>>
<1>1. pending \in Seq(GranuleType) /\ Len(pending) \in Nat
  BY DEF TlsInv, Types
<1>2. ASSUME NEW k \in 1 .. Len(pending) PROVE FALSE
  <2>1. PICK i \in Body : i \in DOMAIN pending[k].cells
    BY DEF NoneAlone
  <2>2. i <= 0
    BY <2>1 DEF TlsInv, Waiting
  <2> QED
    BY <2>1, <2>2, Sizes DEF Body
<1> QED
  BY <1>1, <1>2

-----------------------------------------------------------------------------
(* The steps                                                               *)

LEMMA QuietWhole ==
    ASSUME WholeInv, TlsInv,
           Write \/ Arrive \/ PollReadable \/ PollTimeout \/ UNCHANGED vars
    PROVE  WholeInv'
<1>1. /\ UNCHANGED <<asyncRecv, descriptor, have, torn, pending, buffer, tag, bulk, intact, read>>
      /\ pc' = pc \/ (pc = "poll" /\ pc' = "header")
  <2>1. CASE Write \/ Arrive
    BY <2>1 DEF Write, Arrive, recordVars, cipherVars
  <2>2. CASE PollReadable \/ PollTimeout
    BY <2>2 DEF PollReadable, PollTimeout, recordVars, cipherVars
  <2>3. CASE UNCHANGED vars
    BY <2>3 DEF vars, recordVars, cipherVars
  <2> QED
    BY <2>1, <2>2, <2>3
<1>2. Current' = Current /\ Upto' = Upto /\ Missing' = Missing
  BY <1>1 DEF Current, Upto, Missing
<1>3. NoneAlone'
  BY <1>1, Zenon DEF WholeInv, NoneAlone, Body
<1>4. Ways'
  BY <1>1, <1>2 DEF WholeInv, Ways, Async
<1>5. AtOnce' => AtOnce
  BY <1>1 DEF AtOnce, Async
<1>6. Cut => Cut'
  BY <1>1, <1>2, Zenon DEF Cut, Top, Sealed
<1>7. InFront => InFront'
  BY <1>1, <1>2, Zenon DEF InFront, Sealed, Places
<1>8. Sound'
  BY <1>1, <1>2 DEF WholeInv, Sound, Async, Sealed, Places
<1> QED
  BY <1>3, <1>4, <1>5, <1>6, <1>7, <1>8 DEF WholeInv

LEMMA HeaderWhole == ASSUME WholeInv, TlsInv, ReadHeader PROVE WholeInv'
<1>1. /\ pc = "header" /\ pc' = "body" /\ have' = 0 /\ torn' = FALSE /\ asyncRecv' = FALSE
      /\ intact' = TRUE /\ UNCHANGED <<descriptor, pending>>
  BY DEF ReadHeader
<1>2. NoneAlone'
  BY <1>1, Zenon DEF WholeInv, NoneAlone, Body
<1> QED
  BY <1>1, <1>2 DEF WholeInv, Ways, Async, AtOnce, Sound

LEMMA BodyAsyncWhole == ASSUME WholeInv, TlsInv, BodyAsync PROVE WholeInv'
<1>1. /\ pc = "body" /\ pc' = "recv" /\ asyncRecv' = TRUE /\ descriptor' = -1
      /\ Missing >= MsgSize /\ UNCHANGED <<have, torn, pending, intact>>
  BY DEF BodyAsync, recordVars, cipherVars
<1>2. have \in Nat /\ Missing' = Missing /\ Async
  BY <1>1, Sizes DEF TlsInv, Types, Missing, Async
<1>3. NoneAlone'
  BY <1>1, Zenon DEF WholeInv, NoneAlone, Body
<1> QED
  BY <1>1, <1>2, <1>3 DEF WholeInv, Ways, Async, AtOnce, Sound

\* The granules of a receive: of Granule cells each, the last one of less.
GranuleEnd(k, n) == IF k * Granule < n THEN k * Granule ELSE n

LEMMA GranuleShape ==
    ASSUME Types, NEW n \in 1 .. Missing
    PROVE  /\ Len(Granules(n)) \in Nat
           /\ Len(Granules(n)) * Granule >= n
           /\ \A k \in 1 .. Len(Granules(n)) :
                 /\ (k - 1) * Granule < n
                 /\ DOMAIN Granules(n)[k].cells
                        = have + (k - 1) * Granule + 1 .. have + GranuleEnd(k, n)
                 /\ Granules(n)[k].last = GranuleEnd(k, n) - 1
<1> DEFINE count == (n + Granule - 1) \div Granule
           first(k) == have + (k - 1) * Granule + 1
           last(k) == have + GranuleEnd(k, n)
           granule(k) == [cells |-> [i \in first(k) .. last(k) |-> Sealed(Current, i)],
                          last |-> last(k) - have - 1]
<1>1. n \in Nat \ {0} /\ Granule \in Nat \ {0} /\ have \in Nat
  BY Sizes DEF Types, Missing
<1>2. Granules(n) = [k \in 1 .. count |-> granule(k)]
  BY DEF Granules, GranuleEnd
<1>3. count \in Nat /\ count * Granule >= n /\ \A k \in 1 .. count : (k - 1) * Granule < n
  BY <1>1, Count
<1> HIDE DEF count
<1>4. Len(Granules(n)) = count
  BY <1>2, <1>3
<1>5. ASSUME NEW k \in 1 .. count
      PROVE  /\ DOMAIN Granules(n)[k].cells = first(k) .. last(k)
             /\ Granules(n)[k].last = last(k) - have - 1
  <2>1. Granules(n)[k] = granule(k)
    BY <1>2
  <2> HIDE DEF first, last
  <2> QED
    BY <2>1
<1>6. ASSUME NEW k \in 1 .. count PROVE last(k) - have - 1 = GranuleEnd(k, n) - 1
  <2>1. GranuleEnd(k, n) \in Int
    BY <1>1, <1>3 DEF GranuleEnd
  <2> QED
    BY <1>1, <2>1
<1>7. \A k \in 1 .. Len(Granules(n)) : k \in 1 .. count
  BY <1>4
<1> QED
  BY <1>3, <1>4, <1>5, <1>6, <1>7, Zenon

\* With the sizes aligned a receive by arecv has no granule for the tag alone.
LEMMA TagNotAlone ==
    ASSUME Aligned, Types, have < BodyLength, Missing >= MsgSize, NEW n \in 1 .. Missing,
           NEW k \in 1 .. Len(Granules(n))
    PROVE  Body \cap DOMAIN Granules(n)[k].cells # {}
<1> DEFINE first == have + (k - 1) * Granule + 1
           end == GranuleEnd(k, n)
<1>1. /\ have \in 0 .. Length /\ n \in Nat \ {0} /\ have + n <= BodyLength
      /\ Length \in Nat \ {0} /\ Granule \in Nat \ {0} /\ BodyLength = Length + 1
  BY Sizes DEF Types, Missing
<1>2. /\ Len(Granules(n)) \in Nat /\ (k - 1) * Granule < n
      /\ DOMAIN Granules(n)[k].cells = first .. have + end
  BY GranuleShape
<1>3. /\ (k - 1) * Granule \in Nat /\ k * Granule = (k - 1) * Granule + Granule
      /\ k - 1 \in Nat
  BY <1>1, <1>2
<1>4. first \in Nat \ {0} /\ first <= have + end /\ first <= have + n
  BY <1>1, <1>2, <1>3 DEF GranuleEnd
<1>5. CASE first = BodyLength
  <2>1. (k - 1) * Granule = Length - have
    BY <1>1, <1>3, <1>5
  <2>2. (Length - have) % Granule = 0
    BY <1>1, <1>3, <2>1, NoRemainder
  <2>3. Length + 1 - have >= MsgSize
    BY <1>1 DEF Missing
  <2> QED
    BY <1>1, <2>2, <2>3 DEF Aligned
<1>6. CASE first # BodyLength
  <2>1. first \in Body
    BY <1>1, <1>4, <1>6 DEF Body
  <2>2. first \in first .. have + end
    BY <1>1, <1>3, <1>4
  <2> QED
    BY <1>2, <2>1, <2>2
<1> QED
  BY <1>5, <1>6

LEMMA ArecvWhole == ASSUME Aligned, WholeInv, TlsInv, Arecv PROVE WholeInv'
<1> DEFINE n == IF Available < Missing THEN Available ELSE Missing
           new == Len(Granules(n))
<1>0. Types /\ Stages /\ NoneAlone /\ Ways
  BY DEF TlsInv, WholeInv
<1>1. /\ pc = "recv" /\ Received(n) /\ pending' = pending \o Granules(n) /\ Available > 0
      /\ UNCHANGED <<asyncRecv, descriptor, buffer, bulk, intact, read>>
  BY DEF Arecv, cipherVars
<1>2. have \in Nat /\ have < BodyLength /\ came \in Int /\ taken \in Int
  BY <1>0, <1>1 DEF Types, Stages
<1>3. /\ n \in 1 .. Missing /\ n \in Nat /\ have + n <= BodyLength
      /\ Missing = BodyLength - have /\ BodyLength \in Nat
  BY <1>1, <1>2, Sizes DEF Available, Missing
<1> HIDE DEF n
<1>4. /\ have' = have + n /\ torn' = (torn \/ n < Missing)
      /\ pc' = IF n < Missing THEN "body" ELSE "tag"
      /\ Current' = Current /\ Upto' = Upto
  BY <1>1 DEF Received, Current, Upto
<1>4a. ~torn' => ~torn /\ ~(n < Missing)
  BY <1>4, Zenon
<1>5. /\ asyncRecv /\ Async /\ Missing >= MsgSize /\ intact
      /\ ~torn => have = 0 /\ descriptor = -1
  BY <1>0, <1>1 DEF Ways
<1>6. /\ pending \in Seq(GranuleType) /\ Granules(n) \in Seq(GranuleType)
  BY <1>0, <1>3, GranulesAreDistinct DEF Types
<1>7. NoneAlone'
  <2> SUFFICES ASSUME NEW k \in 1 .. Len(pending')
               PROVE  Body \cap DOMAIN pending'[k].cells # {}
    BY Zenon DEF NoneAlone, Body
  <2>1. \/ k \in 1 .. Len(pending) /\ pending'[k] = pending[k]
        \/ k - Len(pending) \in 1 .. new /\ pending'[k] = Granules(n)[k - Len(pending)]
    <3> HIDE DEF new
    <3> QED
      BY <1>1, <1>6 DEF new
  <2>2. CASE k \in 1 .. Len(pending) /\ pending'[k] = pending[k]
    BY <1>0, <2>2 DEF NoneAlone
  <2>3. CASE k - Len(pending) \in 1 .. new /\ pending'[k] = Granules(n)[k - Len(pending)]
    BY <1>0, <1>2, <1>3, <1>5, <2>3, TagNotAlone
  <2> QED
    BY <2>1, <2>2, <2>3
<1>8. Ways'
  <2>1. torn' \in BOOLEAN
    BY <1>0, <1>4, Zenon DEF Ways
  <2>2. pc' = "tag" => have' = BodyLength
    BY <1>2, <1>3, <1>4
  <2>3. pc' \in {"body", "tag"} /\ (pc' = "body" => torn')
    BY <1>4
  <2> QED
    BY <1>0, <1>1, <1>5, <2>1, <2>2, <2>3 DEF Ways, Async
<1>9. ASSUME AtOnce' PROVE Cut' /\ InFront'
  <2>1. /\ n = BodyLength /\ Missing = n /\ have = 0 /\ descriptor = -1 /\ Upto = 0
        /\ BodyLength \in Nat
    BY <1>3, <1>4a, <1>5, <1>9 DEF AtOnce, Upto
  <2>2. pending = <<>>
    BY <1>0, <1>1, <2>1, NothingPending DEF InBuffer
  <2>3. pending' = Granules(n)
    BY <1>1, <1>6, <2>2
  <2>4. /\ new \in Nat /\ new * Granule >= n
        /\ \A k \in 1 .. new :
              /\ DOMAIN Granules(n)[k].cells
                     = have + (k - 1) * Granule + 1 .. have + GranuleEnd(k, n)
              /\ Granules(n)[k].last = GranuleEnd(k, n) - 1
    BY <1>0, <1>3, GranuleShape
  <2>5. \A k \in 1 .. new : \A i \in DOMAIN Granules(n)[k].cells :
            Granules(n)[k].cells[i] = Sealed(Current, i)
    BY <1>0, <1>3, GranulesAreDistinct
  <2>6. Granule \in Nat \ {0} /\ new * Granule \in Nat
    BY <2>4, Sizes
  <2>7. Upto' \in 0 .. BodyLength /\ \E q \in Nat : Upto' = q * Granule
    BY <1>4, <2>1, <2>6
  <2>8. ASSUME NEW k \in 1 .. new
        PROVE  /\ DOMAIN Granules(n)[k].cells = Upto' + (k - 1) * Granule + 1 .. Top(k)'
               /\ Granules(n)[k].last = Top(k)' - 1
    <3>1. k * Granule \in Nat /\ (k - 1) * Granule \in Nat
      BY <2>4, <2>6
    <3> QED
      BY <1>4, <2>1, <2>4, <3>1 DEF Top, GranuleEnd
  <2>9. Cut'
    <3>1. Upto' + Len(pending') * Granule >= BodyLength
      BY <1>4, <2>1, <2>3, <2>4, <2>6
    <3> HIDE DEF new
    <3>2. \A k \in 1 .. Len(pending') :
             /\ DOMAIN pending'[k].cells = Upto' + (k - 1) * Granule + 1 .. Top(k)'
             /\ pending'[k].last = Top(k)' - 1
             /\ \A i \in DOMAIN pending'[k].cells : pending'[k].cells[i] = Sealed(Current, i)
      BY <2>3, <2>5, <2>8 DEF new
    <3> QED
      BY <1>4, <2>7, <3>1, <3>2, Zenon DEF Cut, Sealed
  <2>10. InFront'
    BY <1>4, <2>1 DEF InFront, Places
  <2> QED
    BY <2>9, <2>10
<1>10. Sound'
  BY <1>4, <1>5 DEF Sound, Async
<1> QED
  BY <1>7, <1>8, <1>9, <1>10 DEF WholeInv

LEMMA BodySyncWhole == ASSUME WholeInv, TlsInv, BodySync PROVE WholeInv'
<1> DEFINE n == IF Available < Missing THEN Available ELSE Missing
<1>0. Types /\ Stages /\ NoneAlone /\ Ways
  BY DEF TlsInv, WholeInv
<1>1. /\ pc = "body" /\ Received(n) /\ Available > 0 /\ Missing < MsgSize /\ asyncRecv' = FALSE
      /\ buffer' = [i \in 1 .. BodyLength |->
             IF i \in have + 1 .. have + n THEN Sealed(Current, i) ELSE buffer[i]]
      /\ UNCHANGED <<descriptor, pending, bulk, intact, read>>
  BY DEF BodySync, cipherVars
<1>2. have \in Nat /\ have < BodyLength /\ came \in Int /\ taken \in Int
  BY <1>0, <1>1 DEF Types, Stages
<1>3. /\ n \in 1 .. Missing /\ n \in Nat /\ have + n <= BodyLength
      /\ Missing = BodyLength - have /\ BodyLength \in Nat
  BY <1>1, <1>2, Sizes DEF Available, Missing
<1> HIDE DEF n
<1>4. /\ have' = have + n /\ torn' = (torn \/ n < Missing) /\ Current' = Current
      /\ pc' = IF n < Missing THEN "body" ELSE "tag"
  BY <1>1 DEF Received, Current
<1>4a. ~torn' => ~torn /\ ~(n < Missing)
  BY <1>4, Zenon
<1>5. intact /\ (~torn => have = 0)
  BY <1>0, <1>1 DEF Ways
<1>6. NoneAlone'
  BY <1>0, <1>1, Zenon DEF NoneAlone, Body
<1>7. ~torn' => pc' = "tag" /\ n = BodyLength /\ have = 0 /\ ~Async
  BY <1>1, <1>2, <1>3, <1>4, <1>4a, <1>5, Sizes DEF Async
<1>8. Ways'
  <2>1. torn' \in BOOLEAN
    BY <1>0, <1>4, Zenon DEF Ways
  <2>2. pc' = "tag" => have' = BodyLength
    BY <1>2, <1>3, <1>4
  <2>3. pc' \in {"body", "tag"} /\ (pc' = "body" => torn')
    BY <1>4
  <2> QED
    BY <1>0, <1>1, <1>5, <1>7, <2>1, <2>2, <2>3 DEF Ways, Async
<1>9. ~AtOnce'
  BY <1>4, <1>7 DEF AtOnce, Async
<1>10. Sound'
  <2>1. ~torn' => \A i \in Places : buffer'[i] = Sealed(Current, i)
    BY <1>1, <1>3, <1>7 DEF Places
  <2> QED
    BY <1>4, <2>1 DEF Sound, Places, Sealed
<1> QED
  BY <1>6, <1>8, <1>9, <1>10 DEF WholeInv

\* The tag that is taken is the record's: it is copied already, or it is in the
\* last of the granules.
LEMMA SetTagWhole == ASSUME WholeInv, TlsInv, SetTag PROVE WholeInv'
<1>0. Types /\ Stages /\ NoneAlone /\ Ways /\ Sound /\ (AtOnce => Cut /\ InFront)
  BY DEF TlsInv, WholeInv
<1>1. /\ pc = "tag" /\ pc' = "update" /\ bulk = 0 /\ intact
      /\ UNCHANGED <<asyncRecv, descriptor, have, torn, pending, bulk, intact, read>>
  BY <1>0 DEF SetTag, recordVars, Stages, Ways
<1>2. /\ \A i \in Places :
             buffer'[i] = buffer[i] \/ (i = BodyLength /\ buffer'[i] = Sealed(Current, i))
      /\ tag' = buffer'[BodyLength]
  BY DEF SetTag, TagRange, NoRange, Places
<1>3. /\ BodyLength \in Places /\ BodyLength \in Nat \ {0} /\ Granule \in Nat \ {0}
      /\ BodyLength = Length + 1
  BY Sizes DEF Places
<1>4. Current' = Current /\ Upto' = Upto
  BY <1>1 DEF Current, Upto
<1>5. NoneAlone'
  BY <1>0, <1>1, Zenon DEF NoneAlone, Body
<1>6. Ways'
  BY <1>0, <1>1 DEF Ways, Async
<1>7. AtOnce' => Cut' /\ InFront'
  <2> SUFFICES ASSUME AtOnce' PROVE Cut' /\ InFront'
    OBVIOUS
  <2>1. AtOnce
    BY <1>1 DEF AtOnce, Async
  <2>2. Cut'
    BY <1>0, <1>1, <1>4, <2>1, Zenon DEF Cut, Top, Sealed
  <2>3. InFront'
    BY <1>0, <1>1, <1>2, <1>4, <2>1 DEF InFront, Places, Sealed
  <2> QED
    BY <2>2, <2>3
<1>8. ASSUME ~torn, Async PROVE buffer'[BodyLength] = Sealed(Current, BodyLength)
  <2>1. AtOnce /\ Cut /\ InFront /\ asyncRecv
    BY <1>0, <1>1, <1>8 DEF AtOnce, Ways
  <2>2. Len(pending) \in Nat /\ pending \in Seq(GranuleType) /\ Upto \in Int
    BY <1>0, <2>1 DEF Types, Cut
  <2>3. CASE Len(pending) = 0
    <3>1. BodyLength <= Upto
      BY <1>3, <2>1, <2>2, <2>3 DEF Cut
    <3>2. buffer[BodyLength] = Sealed(Current, BodyLength)
      BY <1>1, <1>3, <2>1, <3>1 DEF InFront
    <3> QED
      BY <1>2, <1>3, <3>2
  <2>4. CASE Len(pending) # 0
    <3> DEFINE last == Len(pending)
    <3>1. last \in 1 .. Len(pending)
      BY <2>2, <2>4
    <3>2. PICK i \in Body : i \in DOMAIN pending[last].cells
      BY <1>0, <3>1 DEF NoneAlone
    <3>3. DOMAIN pending[last].cells = Upto + (last - 1) * Granule + 1 .. Top(last)
      BY <2>1, <3>1 DEF Cut
    <3>4. Top(last) = BodyLength
      BY <1>3, <2>1, <2>2 DEF Top, Cut
    <3>5. Upto + (last - 1) * Granule + 1 \in Int /\ i <= BodyLength
      <4>1. (last - 1) * Granule \in Int
        BY <1>3, <2>2
      <4> QED
        BY <1>3, <2>2, <3>2, <4>1, Sizes DEF Body
    <3>6. BodyLength \in DOMAIN pending[last].cells
      BY <1>3, <3>2, <3>3, <3>4, <3>5
    <3> QED
      BY <1>3, <2>1, <3>1, <3>6 DEF SetTag, TagRange
  <2> QED
    BY <2>3, <2>4
<1>9. ASSUME ~torn, ~Async PROVE ~asyncRecv /\ \A i \in Places : buffer'[i] = Sealed(Current, i)
  <2>1. ~asyncRecv
    BY <1>0, <1>9 DEF Ways
  <2>2. \A i \in Places : buffer[i] = Sealed(Current, i)
    BY <1>0, <1>1, <1>9 DEF Sound
  <2> QED
    BY <1>2, <2>1, <2>2
<1>10. Sound'
  <2> SUFFICES ASSUME ~torn
               PROVE  /\ asyncRecv => intact /\ \E p \in Nat : bulk = p * Chunk
                      /\ ~asyncRecv =>
                            intact /\ \A i \in bulk + 1 .. Length : buffer'[i] = Sealed(Current, i)
                      /\ tag' = Sealed(Current, BodyLength)
    BY <1>1, <1>4 DEF Sound, Sealed
  <2>1. \E p \in Nat : bulk = p * Chunk
    <3>1. bulk = 0 * Chunk
      BY <1>1, Sizes
    <3> QED
      BY <3>1
  <2>2. ASSUME ~asyncRecv, NEW i \in bulk + 1 .. Length PROVE buffer'[i] = Sealed(Current, i)
    <3>1. ~Async
      BY <1>0, <1>1, <2>2 DEF Ways
    <3>2. i \in Places
      BY <1>1, <1>3, Sizes DEF Places
    <3> QED
      BY <1>9, <3>1, <3>2
  <2>3. tag' = Sealed(Current, BodyLength)
    BY <1>2, <1>3, <1>8, <1>9
  <2> QED
    BY <1>1, <2>1, <2>2, <2>3
<1> QED
  BY <1>5, <1>6, <1>7, <1>10 DEF WholeInv

LEMMA AtLeast ==
    ASSUME NEW p \in Nat, NEW d \in Nat \ {0}
    PROVE  p <= p * d
<1>1. p * d = p + p * (d - 1)
  OBVIOUS
<1>2. d - 1 \in Nat
  OBVIOUS
<1>3. p * (d - 1) \in Nat
  BY <1>2
<1> QED
  BY <1>1, <1>3

\* The cells of a chunk whose first byte was asked for are all there.
LEMMA ChunkIsThere ==
    ASSUME Aligned, Cut, descriptor \in Int, descriptor >= bulk, bulk \in 0 .. Length,
           NEW p \in Nat, bulk = p * Chunk
    PROVE  ChunkSize \in Nat /\ bulk + ChunkSize <= Upto /\ bulk + ChunkSize <= Length
<1>1. /\ Length \in Nat \ {0} /\ Chunk \in Nat \ {0} /\ Granule \in Nat \ {0}
      /\ BodyLength = Length + 1
      /\ bulk \in Nat /\ bulk <= Length /\ Upto \in 0 .. BodyLength
  BY Sizes DEF Cut
<1>2. /\ ChunkSize \in Nat /\ bulk + ChunkSize <= Length
      /\ ChunkSize <= Chunk
  BY <1>1 DEF ChunkSize
<1>3. bulk < Upto
  BY <1>1 DEF Upto
<1>4. CASE Upto = BodyLength
  BY <1>1, <1>2, <1>4
<1>5. CASE Upto # BodyLength
  <2>1. PICK q \in Nat : Upto = q * Granule
    BY <1>5 DEF Cut
  <2>2. Upto <= Length
    BY <1>1, <1>5
  <2>3. CASE Upto = Length
    BY <1>2, <2>3
  <2>4. CASE Upto < Length
    <3>1. p <= p * Chunk /\ q <= q * Granule
      BY <1>1, AtLeast
    <3>2. p \in 0 .. Length /\ q \in 0 .. Length
      BY ONLY <1>1, <1>3, <2>1, <2>4, <3>1, p \in Nat, bulk = p * Chunk
    <3>3. (p + 1) * Chunk <= q * Granule
      BY <1>3, <2>1, <2>4, <3>2 DEF Aligned
    <3>4. (p + 1) * Chunk = bulk + Chunk
      BY <1>1
    <3> QED
      BY ONLY <1>1, <1>2, <2>1, <3>3, <3>4
  <2> QED
    BY <1>1, <2>2, <2>3, <2>4
<1> QED
  BY <1>2, <1>4, <1>5

LEMMA DecryptChunkWhole == ASSUME Aligned, WholeInv, TlsInv, DecryptChunk PROVE WholeInv'
<1> DEFINE n == ChunkSize - (ChunkSize % Stride)
<1>0. Types /\ NoneAlone /\ Ways /\ Sound /\ (AtOnce => Cut /\ InFront)
  BY DEF TlsInv, WholeInv
<1>1. /\ pc = "update" /\ pc' = pc /\ asyncRecv /\ bulk < Length /\ descriptor >= bulk
      /\ UNCHANGED <<descriptor, have, torn, pending, tag, read>>
      /\ asyncRecv' = (n = ChunkSize /\ bulk + n < Length)
      /\ bulk' = bulk + n
      /\ intact' = (intact /\ \A i \in bulk + 1 .. bulk + n : buffer[i] = Sealed(Current, i))
      /\ \A i \in Places : i \notin bulk + 1 .. bulk + n => buffer'[i] = buffer[i]
  BY DEF DecryptChunk, Decrypt, recordVars, FirstByte, Places
<1>2. /\ bulk \in Nat /\ Length \in Nat /\ Chunk \in Nat \ {0} /\ Stride \in Nat \ {0}
      /\ BodyLength = Length + 1
  BY <1>0, Sizes DEF Types
<1>3. ChunkSize \in Nat /\ bulk + ChunkSize <= Length
  BY <1>1, <1>2 DEF ChunkSize
<1>4. n \in Nat /\ n <= ChunkSize
  <2>1. ChunkSize \div Stride \in Nat /\ ChunkSize % Stride \in 0 .. Stride - 1
    BY <1>2, <1>3, Quotient
  <2>2. ChunkSize = (ChunkSize \div Stride) * Stride + (ChunkSize % Stride)
    BY <1>2, <1>3, Quotient
  <2>3. (ChunkSize \div Stride) * Stride \in Nat
    BY <1>2, <2>1
  <2> QED
    BY <1>2, <1>3, <2>1, <2>2, <2>3
<1>5. ChunkSize = Chunk => n = ChunkSize
  BY <1>2 DEF Aligned
<1> HIDE DEF n
<1>6. Current' = Current /\ Upto' = Upto
  BY <1>1 DEF Current, Upto
<1>7. NoneAlone'
  BY <1>0, <1>1, Zenon DEF NoneAlone, Body
<1>8. Ways'
  <2>1. asyncRecv' \in BOOLEAN
    BY <1>1, Zenon
  <2> QED
    BY <1>0, <1>1, <2>1 DEF Ways, Async
<1>9. AtOnce' => Cut' /\ InFront'
  <2> SUFFICES ASSUME AtOnce' PROVE Cut' /\ InFront'
    OBVIOUS
  <2>1. AtOnce
    BY <1>1 DEF AtOnce, Async
  <2>2. Cut'
    BY <1>0, <1>1, <1>6, <2>1, Zenon DEF Cut, Top, Sealed
  <2>3. ASSUME NEW i \in Places, bulk + n < i, i <= Upto PROVE buffer'[i] = Sealed(Current, i)
    <3>1. i \in Nat /\ bulk < i /\ i \notin bulk + 1 .. bulk + n
      BY <1>2, <1>4, <2>3, Sizes DEF Places
    <3> QED
      BY <1>0, <1>1, <2>1, <2>3, <3>1 DEF InFront
  <2>4. InFront'
    BY <1>1, <1>6, <2>3, Zenon DEF InFront, Places, Sealed
  <2> QED
    BY <2>2, <2>4
<1>10. ASSUME ~torn
       PROVE  /\ intact' = TRUE
              /\ asyncRecv' => \E p \in Nat : bulk' = p * Chunk
              /\ ~asyncRecv' => \A i \in bulk' + 1 .. Length : buffer'[i] = Sealed(Current, i)
  <2>1. AtOnce /\ Cut /\ InFront /\ intact /\ Upto \in 0 .. BodyLength
    BY <1>0, <1>1, <1>10 DEF AtOnce, Ways, Sound, Cut
  <2>2. PICK p \in Nat : bulk = p * Chunk
    BY <1>0, <1>1, <1>10 DEF Sound
  <2>3. bulk + ChunkSize <= Upto
    BY <1>0, <1>1, <2>1, <2>2, ChunkIsThere DEF Types, Ways
  <2>4. ASSUME NEW i \in bulk + 1 .. bulk + ChunkSize
        PROVE  i \in Places /\ buffer[i] = Sealed(Current, i)
    <3>1. i \in Places /\ bulk < i /\ i <= Upto
      BY <1>2, <1>3, <2>1, <2>3 DEF Places
    <3> QED
      BY <2>1, <3>1 DEF InFront
  <2>5. intact' = TRUE
    <3>1. \A i \in bulk + 1 .. bulk + n : i \in bulk + 1 .. bulk + ChunkSize
      BY <1>2, <1>3, <1>4
    <3> QED
      BY <1>1, <2>1, <2>4, <3>1, Zenon
  <2>6. ASSUME asyncRecv' PROVE \E q \in Nat : bulk' = q * Chunk
    <3>1. n = ChunkSize /\ bulk + n < Length
      BY <1>1, <2>6, Zenon
    <3>2. ChunkSize = Chunk
      BY <1>2, <3>1 DEF ChunkSize
    <3>3. bulk' = (p + 1) * Chunk
      BY <1>1, <1>2, <2>2, <3>1, <3>2
    <3> QED
      BY <3>3
  <2>7. ASSUME ~asyncRecv', NEW i \in bulk' + 1 .. Length PROVE buffer'[i] = Sealed(Current, i)
    <3>1. ~(n = ChunkSize /\ bulk + n < Length)
      BY <1>1, <2>7, Zenon
    <3>2. ChunkSize = Length - bulk
      BY <1>1, <1>2, <1>4, <1>5, <2>7, <3>1 DEF ChunkSize
    <3>3. i \in bulk + 1 .. bulk + ChunkSize /\ i \notin bulk + 1 .. bulk + n
      BY <1>1, <1>2, <1>4, <2>7, <3>2
    <3> QED
      BY <1>1, <2>4, <3>3
  <2> QED
    BY <2>5, <2>6, <2>7
<1>11. Sound'
  <2> SUFFICES ASSUME ~torn
               PROVE  /\ asyncRecv' => intact' /\ \E p \in Nat : bulk' = p * Chunk
                      /\ ~asyncRecv' =>
                            intact' /\ \A i \in bulk' + 1 .. Length : buffer'[i] = Sealed(Current, i)
                      /\ tag = Sealed(Current, BodyLength)
    BY <1>1, <1>6 DEF Sound, Sealed
  <2>1. tag = Sealed(Current, BodyLength)
    BY <1>0, <1>1 DEF Sound
  <2> QED
    BY <1>10, <2>1
<1> QED
  BY <1>7, <1>8, <1>9, <1>11 DEF WholeInv

LEMMA DecryptRestWhole == ASSUME WholeInv, TlsInv, DecryptRest PROVE WholeInv'
<1>0. Types /\ NoneAlone /\ Ways /\ Sound /\ (AtOnce => Cut /\ InFront)
  BY DEF TlsInv, WholeInv
<1>1. /\ bulk \in Nat /\ Length \in Nat /\ bulk + (Length - bulk) = Length
      /\ BodyLength = Length + 1 /\ bulk <= Length
  BY <1>0, Sizes DEF Types
<1>2. /\ pc = "update" /\ pc' = "verify" /\ ~asyncRecv
      /\ UNCHANGED <<asyncRecv, descriptor, have, torn, pending, tag, read>>
      /\ bulk' = Length
      /\ intact' = (intact /\ \A i \in bulk + 1 .. Length : buffer[i] = Sealed(Current, i))
      /\ \A i \in Places : i \notin bulk + 1 .. Length => buffer'[i] = buffer[i]
  BY <1>1 DEF DecryptRest, Decrypt, recordVars, Places
<1>3. Current' = Current /\ Upto' = Upto
  BY <1>2 DEF Current, Upto
<1>4. NoneAlone'
  BY <1>0, <1>2, Zenon DEF NoneAlone, Body
<1>5. Ways'
  BY <1>0, <1>2 DEF Ways, Async
<1>6. AtOnce' => Cut' /\ InFront'
  <2> SUFFICES ASSUME AtOnce' PROVE Cut' /\ InFront'
    OBVIOUS
  <2>1. AtOnce
    BY <1>2 DEF AtOnce, Async
  <2>2. Cut'
    BY <1>0, <1>2, <1>3, <2>1, Zenon DEF Cut, Top, Sealed
  <2>3. ASSUME NEW i \in Places, Length < i, i <= Upto PROVE buffer'[i] = Sealed(Current, i)
    <3>1. i \in Nat /\ bulk < i /\ i \notin bulk + 1 .. Length
      BY <1>1, <2>3 DEF Places
    <3> QED
      BY <1>0, <1>2, <2>1, <2>3, <3>1 DEF InFront
  <2>4. InFront'
    BY <1>2, <1>3, <2>3, Zenon DEF InFront, Places, Sealed
  <2> QED
    BY <2>2, <2>4
<1>7. Sound'
  <2> SUFFICES ASSUME ~torn PROVE intact' /\ tag = Sealed(Current, BodyLength)
    BY <1>2, <1>3 DEF Sound, Sealed
  <2>1. intact /\ \A i \in bulk + 1 .. Length : buffer[i] = Sealed(Current, i)
    BY <1>0, <1>2 DEF Sound
  <2>2. tag = Sealed(Current, BodyLength)
    BY <1>0, <1>2 DEF Sound
  <2> QED
    BY <1>2, <2>1, <2>2, Zenon
<1> QED
  BY <1>4, <1>5, <1>6, <1>7 DEF WholeInv

LEMMA SslReadWhole == ASSUME WholeInv, TlsInv, SslRead PROVE WholeInv'
<1>0. NoneAlone /\ Ways /\ Sound
  BY DEF WholeInv
<1>1. /\ pc = "verify" /\ pc' \in {"poll", "failed"} /\ (~Verified <=> pc' = "failed")
      /\ UNCHANGED <<asyncRecv, descriptor, have, torn, pending>>
  BY DEF SslRead, recordVars
<1>2. NoneAlone'
  BY <1>0, <1>1, Zenon DEF NoneAlone, Body
<1>3. pc' = "failed" => torn
  BY <1>0, <1>1 DEF Sound, Verified
<1>4. Ways'
  BY <1>0, <1>1, <1>3 DEF Ways, Async
<1>5. ~AtOnce' /\ Sound'
  BY <1>1 DEF AtOnce, Sound
<1> QED
  BY <1>2, <1>4, <1>5 DEF WholeInv

\* A granule is copied: the cells in front of the descriptor go on to its end.
LEMMA CopierWhole == ASSUME WholeInv, TlsInv, CopierStep PROVE WholeInv'
<1> DEFINE g == pending[1].cells
<1>0. /\ Types /\ Waiting /\ NoneAlone /\ Ways /\ Sound /\ (AtOnce => Cut /\ InFront)
  BY DEF TlsInv, WholeInv
<1>1. /\ 1 \in 1 .. Len(pending) /\ Len(pending) \in Nat /\ pending # <<>>
      /\ Len(pending') = Len(pending) - 1
      /\ \A k \in 1 .. Len(pending') : k + 1 \in 1 .. Len(pending) /\ pending'[k] = pending[k + 1]
      /\ descriptor' = pending[1].last
  BY <1>0 DEF CopierStep, Types
<1>2. UNCHANGED <<pc, asyncRecv, have, torn, tag, bulk, intact, read>>
  BY DEF CopierStep, recordVars, cipherVars
<1>3. Current' = Current /\ Async
  BY <1>0, <1>1, <1>2 DEF Current, Ways
<1>4. buffer' = [i \in Places |-> IF i \in DOMAIN g THEN g[i] ELSE buffer[i]]
  BY <1>0, HeadIsStored
<1>5. descriptor' \in Int
  BY <1>0, <1>1, GranuleCells
<1>6. NoneAlone'
  <2> SUFFICES ASSUME NEW k \in 1 .. Len(pending')
               PROVE  Body \cap DOMAIN pending'[k].cells # {}
    BY Zenon DEF NoneAlone, Body
  <2> QED
    BY <1>0, <1>1 DEF NoneAlone
<1>7. Ways'
  <2>1. ~(pc = "recv" /\ ~torn)
    <3> SUFFICES ASSUME pc = "recv", ~torn PROVE FALSE
      OBVIOUS
    <3>1. have = 0
      BY <1>0 DEF Ways
    <3>2. InBuffer = 0
      BY <3>1 DEF InBuffer
    <3> QED
      BY <1>0, <1>1, <3>2, NothingPending
  <2> QED
    BY <1>0, <1>2, <1>3, <1>5, <2>1 DEF Ways, Async, Missing
<1>8. ASSUME AtOnce PROVE Cut' /\ InFront'
  <2>1. Cut /\ InFront /\ Upto \in Nat
    <3>1. Cut /\ InFront
      BY <1>0, <1>8
    <3>2. Upto \in 0 .. BodyLength
      BY <3>1 DEF Cut
    <3> QED
      BY <3>1, <3>2, Sizes
  <2>2. Granule \in Nat \ {0} /\ BodyLength \in Nat /\ Length \in Nat /\ BodyLength = Length + 1
    BY Sizes
  <2>3. DOMAIN g = Upto + 1 .. Top(1) /\ descriptor' = Top(1) - 1
    <3>1. Upto + (1 - 1) * Granule + 1 = Upto + 1
      BY <2>1, <2>2
    <3> QED
      BY <1>1, <2>1, <3>1 DEF Cut
  <2>4. /\ Top(1) \in Nat /\ Top(1) <= BodyLength
        /\ Top(1) = (IF Upto + Granule < BodyLength THEN Upto + Granule ELSE BodyLength)
    BY <2>1, <2>2 DEF Top
  <2>5. Upto' = Top(1)
    BY <2>3, <2>4 DEF Upto
  <2> HIDE DEF g
  <2>6. \A k \in 1 .. Len(pending') : \A i \in DOMAIN pending'[k].cells :
            pending'[k].cells[i] = Sealed(Current, i)
    BY <1>1, <2>1 DEF Cut
  <2>7. Cut'
    <3>1. CASE Top(1) = BodyLength
      <4>1. Len(pending') = 0
        <5> SUFFICES ASSUME 2 \in 1 .. Len(pending) PROVE FALSE
          BY <1>1
        <5>1. PICK i \in Body : i \in DOMAIN pending[2].cells
          BY <1>0 DEF NoneAlone
        <5>2. DOMAIN pending[2].cells = Upto + (2 - 1) * Granule + 1 .. Top(2)
          BY <2>1 DEF Cut
        <5>3. Upto + (2 - 1) * Granule + 1 = Upto + Granule + 1
          BY <2>2
        <5> QED
          BY <2>1, <2>2, <2>4, <3>1, <5>1, <5>2, <5>3 DEF Body
      <4>2. 0 * Granule = 0
        BY <2>2
      <4>3. /\ Upto' \in 0 .. BodyLength /\ Upto' = BodyLength
            /\ Upto' + Len(pending') * Granule >= BodyLength
        BY <2>2, <2>5, <3>1, <4>1, <4>2
      <4> QED
        BY <4>1, <4>3 DEF Cut
    <3>2. CASE Top(1) # BodyLength
      <4>1. Upto' = Upto + Granule /\ Upto' < BodyLength /\ Upto < BodyLength
        BY <2>1, <2>2, <2>4, <2>5, <3>2
      <4>2. PICK q \in Nat : Upto = q * Granule
        BY <2>1, <2>2, <4>1 DEF Cut
      <4>3. Upto' = (q + 1) * Granule
        BY <2>2, <4>1, <4>2
      <4>4. Upto' \in 0 .. BodyLength /\ \E r \in Nat : Upto' = r * Granule
        <5>1. q + 1 \in Nat
          OBVIOUS
        <5>2. Upto' \in 0 .. BodyLength
          BY <2>1, <2>2, <4>1
        <5> QED
          BY <4>3, <5>1, <5>2
      <4>5. Upto' + Len(pending') * Granule >= BodyLength
        <5>1. (Len(pending) - 1) * Granule = Len(pending) * Granule - Granule
          BY <1>1, <2>2
        <5>2. Len(pending) * Granule \in Int /\ Upto + Len(pending) * Granule >= BodyLength
          BY <1>1, <2>1, <2>2 DEF Cut
        <5> QED
          BY <1>1, <2>1, <2>2, <4>1, <5>1, <5>2
      <4>6. ASSUME NEW k \in 1 .. Len(pending')
            PROVE  /\ DOMAIN pending'[k].cells = Upto' + (k - 1) * Granule + 1 .. Top(k)'
                   /\ pending'[k].last = Top(k)' - 1
        <5>1. k + 1 \in 1 .. Len(pending) /\ pending'[k] = pending[k + 1] /\ k \in Nat
          BY <1>1
        <5>2. /\ DOMAIN pending[k + 1].cells = Upto + ((k + 1) - 1) * Granule + 1 .. Top(k + 1)
              /\ pending[k + 1].last = Top(k + 1) - 1
          BY <2>1, <5>1 DEF Cut
        <5>3. /\ ((k + 1) - 1) * Granule = (k - 1) * Granule + Granule
              /\ (k + 1) * Granule = k * Granule + Granule
              /\ (k - 1) * Granule \in Int /\ k * Granule \in Int
          BY <2>2, <5>1
        <5>4. Upto + ((k + 1) - 1) * Granule + 1 = Upto' + (k - 1) * Granule + 1
          BY <2>1, <2>2, <4>1, <5>3
        <5>5. Top(k)' = Top(k + 1)
          <6>1. Upto + (k + 1) * Granule = Upto' + k * Granule
            BY <2>1, <2>2, <4>1, <5>3
          <6> QED
            BY <6>1 DEF Top
        <5> QED
          BY <5>1, <5>2, <5>4, <5>5, Zenon
      <4> QED
        BY <1>3, <2>6, <4>4, <4>5, <4>6, Zenon DEF Cut, Sealed
    <3> QED
      BY <3>1, <3>2
  <2>8. InFront'
    <3> SUFFICES ASSUME NEW i \in Places, bulk < i, i <= Top(1) PROVE buffer'[i] = Sealed(Current, i)
      BY <1>2, <1>3, <2>5, Zenon DEF InFront, Places, Sealed
    <3>1. CASE i \in DOMAIN g
      BY <1>1, <1>4, <2>1, <3>1 DEF Cut, g
    <3>2. CASE i \notin DOMAIN g
      <4>1. i <= Upto
        BY <2>1, <2>2, <2>3, <2>4, <3>2 DEF Places
      <4> QED
        BY <1>4, <2>1, <3>2, <4>1 DEF InFront
    <3> QED
      BY <3>1, <3>2
  <2> QED
    BY <2>7, <2>8
<1>9. AtOnce' => AtOnce
  BY <1>2 DEF AtOnce, Async
<1>10. Sound'
  <2>1. ASSUME NEW i \in Body, buffer[i] = Sealed(Current, i) PROVE buffer'[i] = Sealed(Current, i)
    <3>1. i \in Places
      BY Sizes
    <3>2. CASE i \in DOMAIN g
      BY <1>0, <1>1, <1>4, <3>1, <3>2 DEF Waiting
    <3>3. CASE i \notin DOMAIN g
      BY <1>4, <2>1, <3>1, <3>3
    <3> QED
      BY <3>2, <3>3
  <2>2. \A i \in bulk + 1 .. Length : i \in Body
    BY <1>0, Sizes DEF Types, Body
  <2> HIDE DEF g
  <2> QED
    BY <1>0, <1>2, <1>3, <2>1, <2>2 DEF Sound, Async, Sealed
<1> QED
  BY <1>6, <1>7, <1>8, <1>9, <1>10 DEF WholeInv

-----------------------------------------------------------------------------
(* The values each variable may take                                       *)

\* The server has received the records it returned and what is in hand of the
\* next, of what came; and it waits in the descriptor for no more than the body.
InHand == IF pc \in {"poll", "header"} THEN 0 ELSE have + 1
Accounts ==
    /\ sent \in 0 .. Records
    /\ came \in Nat /\ taken \in Nat
    /\ taken <= came /\ came <= sent * RecordLength
    /\ taken = Len(read) * RecordLength + InHand
    /\ pc \in {"tag", "update", "verify"} => have = BodyLength
    /\ asyncRecv \in BOOLEAN /\ torn \in BOOLEAN
    /\ descriptor \in -1 .. BodyLength - 1

\* All cells are those of records that were sent.
OfRecords ==
    /\ tag \in Cells
    /\ \A i \in Places : buffer[i] \in Cells
    /\ \A k \in 1 .. Len(pending) :
          /\ pending[k].last \in -1 .. BodyLength - 1
          /\ \A i \in DOMAIN pending[k].cells : pending[k].cells[i] \in Cells

\* Whoever holds part of a record holds fewer whole ones.
LEMMA Fewer ==
    ASSUME NEW a \in Nat, NEW b \in Nat, NEW r \in Nat \ {0}, NEW k \in Nat, a * r + k <= b * r
    PROVE  a <= b /\ (k > 0 => a < b)
<1>1. a * r \in Nat /\ b * r \in Nat
  OBVIOUS
<1>2. CASE a > b
  <2>1. (a - b) * r >= 1
    BY <1>2
  <2>2. (a - b) * r = a * r - b * r
    OBVIOUS
  <2> QED
    BY <1>1, <2>1, <2>2
<1>3. CASE a = b
  BY <1>1, <1>3
<1>4. CASE a < b
  BY <1>4
<1> QED
  BY <1>2, <1>3, <1>4

\* The record in hand is one that was sent.
LEMMA InHandSent ==
    ASSUME TlsInv, Accounts
    PROVE  /\ Len(read) \in Nat /\ Len(read) <= sent
           /\ pc \notin {"poll", "header"} => Current \in 1 .. Records
<1>1. /\ Len(read) \in Nat /\ sent \in Nat /\ sent <= Records /\ Records \in Nat
      /\ RecordLength \in Nat \ {0} /\ have \in Nat
  BY Sizes, TlsAssumption DEF TlsAssumption, TlsInv, Types, Accounts, RecordLength
<1>2. InHand \in Nat /\ (pc \notin {"poll", "header"} => InHand > 0)
  BY <1>1 DEF InHand
<1>3. Len(read) * RecordLength \in Nat /\ sent * RecordLength \in Nat
  BY <1>1
<1>4. Len(read) * RecordLength + InHand <= sent * RecordLength
  BY <1>2, <1>3 DEF Accounts
<1>5. Len(read) <= sent /\ (InHand > 0 => Len(read) < sent)
  BY <1>1, <1>2, <1>4, Fewer
<1> QED
  BY <1>1, <1>2, <1>5 DEF Current

\* A cell of the record in hand.
LEMMA InHandCell ==
    ASSUME TlsInv, Accounts, pc \notin {"poll", "header"}, NEW i \in Places
    PROVE  Sealed(Current, i) \in Cells /\ Plain(Current, i) \in Cells
<1>1. Current \in 0 .. Records /\ i \in 0 .. BodyLength
  BY InHandSent, Sizes, TlsAssumption DEF TlsAssumption, Places
<1> QED
  BY <1>1 DEF Sealed, Plain, Cells

\* The accounts of the client, the network and the server.
LEMMA AccountsKept == ASSUME TlsInv, OfRecords, Accounts, [Next]_vars PROVE Accounts'
<1>0. /\ sent \in 0 .. Records /\ came \in Nat /\ taken \in Nat /\ taken <= came
      /\ came <= sent * RecordLength /\ taken = Len(read) * RecordLength + InHand
      /\ pc \in {"tag", "update", "verify"} => have = BodyLength
      /\ descriptor \in -1 .. BodyLength - 1
      /\ have \in 0 .. BodyLength /\ Len(read) \in Nat
      /\ Records \in Nat /\ Batch \in Nat /\ RecordLength \in Nat
      /\ BodyLength \in Nat \ {0} /\ RecordLength = BodyLength + 1
  BY Sizes, TlsAssumption DEF TlsAssumption, Accounts, TlsInv, Types, RecordLength
<1>c. RecordLength' = RecordLength /\ BodyLength' = BodyLength
  BY DEF RecordLength, BodyLength
<1>1. asyncRecv \in BOOLEAN /\ torn \in BOOLEAN
  BY DEF Accounts
<1>2. CASE Write
  <2>1. /\ sent' = sent + Batch /\ sent + Batch <= Records
        /\ UNCHANGED <<came, taken, pc, asyncRecv, descriptor, have, torn, read>>
    BY <1>2 DEF Write, socketVars, recordVars
  <2>2. (sent + Batch) * RecordLength = sent * RecordLength + Batch * RecordLength
    BY <1>0
  <2>3. sent * RecordLength \in Nat /\ Batch * RecordLength \in Nat
    BY <1>0
  <2>4. came <= sent' * RecordLength
    BY <1>0, <2>1, <2>2, <2>3
  <2>5. sent' \in 0 .. Records /\ InHand' = InHand
    BY <1>0, <2>1 DEF InHand
  <2> QED
    BY <1>0, <1>c, <1>1, <2>1, <2>4, <2>5 DEF Accounts
<1>3. CASE Arrive
  <2>1. /\ UNCHANGED <<sent, taken, pc, asyncRecv, descriptor, have, torn, read>>
        /\ \E n \in 1 .. sent * RecordLength - came : came' = came + n
    BY <1>3 DEF Arrive, recordVars
  <2>2. sent * RecordLength \in Nat
    BY <1>0
  <2>3. came' \in Nat /\ came' >= came /\ came' <= sent * RecordLength
    BY <1>0, <2>1, <2>2
  <2>4. InHand' = InHand
    BY <2>1 DEF InHand
  <2> QED
    BY <1>0, <1>c, <1>1, <2>1, <2>3, <2>4 DEF Accounts
<1>4. CASE CopierStep
  <2>1. /\ UNCHANGED <<sent, came, taken, pc, asyncRecv, have, torn, read>>
        /\ pending # <<>> /\ descriptor' = Head(pending).last
    BY <1>4 DEF CopierStep, socketVars, recordVars
  <2>2. pending \in Seq(GranuleType)
    BY DEF TlsInv, Types
  <2>3. 1 \in 1 .. Len(pending) /\ Head(pending) = pending[1]
    BY <2>1, <2>2
  <2>4. descriptor' \in -1 .. BodyLength - 1
    BY <2>1, <2>3 DEF OfRecords
  <2>5. InHand' = InHand
    BY <2>1 DEF InHand
  <2> QED
    BY <1>0, <1>c, <1>1, <2>1, <2>4, <2>5 DEF Accounts
<1>5. CASE PollReadable \/ PollTimeout \/ UNCHANGED vars
  <2>1. /\ UNCHANGED <<sent, came, taken, asyncRecv, descriptor, have, torn, read>>
        /\ pc' = pc \/ (pc = "poll" /\ pc' = "header")
    BY <1>5 DEF PollReadable, PollTimeout, vars, socketVars, recordVars
  <2>2. InHand' = InHand
    BY <2>1 DEF InHand
  <2> QED
    BY <1>0, <1>c, <1>1, <2>1, <2>2 DEF Accounts
<1>6. CASE ReadHeader
  <2>1. /\ UNCHANGED <<sent, came, descriptor, read>> /\ pc = "header" /\ pc' = "body"
        /\ Available > 0 /\ taken' = taken + 1 /\ have' = 0
    BY <1>6 DEF ReadHeader
  <2>2. asyncRecv' \in BOOLEAN /\ torn' \in BOOLEAN
    BY <1>6, Zenon DEF ReadHeader
  <2>3. InHand = 0 /\ InHand' = 1
    BY <2>1 DEF InHand
  <2>4. taken' <= came /\ taken' \in Nat
    BY <1>0, <2>1 DEF Available
  <2>5. Len(read) * RecordLength \in Nat
    BY <1>0
  <2>6. taken' = Len(read) * RecordLength + InHand'
    BY <1>0, <2>1, <2>3, <2>5
  <2> QED
    BY <1>0, <1>c, <2>1, <2>2, <2>4, <2>6 DEF Accounts
<1>7. CASE BodyAsync
  <2>1. /\ UNCHANGED <<sent, came, taken, have, torn, read>> /\ pc = "body" /\ pc' = "recv"
        /\ descriptor' = -1
    BY <1>7 DEF BodyAsync, socketVars, recordVars
  <2>2. asyncRecv' \in BOOLEAN
    BY <1>7, Zenon DEF BodyAsync
  <2>3. InHand' = InHand
    BY <2>1 DEF InHand
  <2> QED
    BY <1>0, <1>c, <1>1, <2>1, <2>2, <2>3 DEF Accounts
<1>8. CASE Arecv \/ BodySync
  <2> DEFINE n == IF Available < Missing THEN Available ELSE Missing
  <2>1. /\ UNCHANGED <<sent, came, descriptor, read>> /\ pc \in {"body", "recv"} /\ Received(n)
        /\ Available > 0
    BY <1>8 DEF Arecv, BodySync
  <2>2. asyncRecv' \in BOOLEAN
    BY <1>1, <1>8, Zenon DEF Arecv, BodySync
  <2>3. have < BodyLength
    BY <2>1 DEF TlsInv, Stages
  <2>4. n \in 1 .. Missing /\ n <= Available /\ n \in Nat
    BY <1>0, <2>1, <2>3 DEF Available, Missing
  <2> HIDE DEF n
  <2>5. have' = have + n /\ taken' = taken + n /\ pc' = IF n < Missing THEN "body" ELSE "tag"
    BY <2>1 DEF Received
  <2>6. torn' \in BOOLEAN
    BY <1>1, <2>1, Zenon DEF Received
  <2>7. InHand' = InHand + n
    BY <1>0, <2>1, <2>4, <2>5 DEF InHand
  <2>8. have' <= BodyLength /\ (pc' = "tag" => have' = BodyLength) /\ taken' <= came
    BY <1>0, <2>4, <2>5 DEF Missing, Available
  <2>9. Len(read) * RecordLength \in Nat /\ InHand \in Nat
    BY <1>0 DEF InHand
  <2>10. taken' \in Nat /\ pc' \in {"body", "tag"}
    BY <1>0, <2>4, <2>5
  <2>11. taken' = Len(read) * RecordLength + InHand'
    BY <1>0, <2>4, <2>5, <2>7, <2>9
  <2> QED
    BY <1>0, <1>c, <2>1, <2>2, <2>6, <2>8, <2>10, <2>11 DEF Accounts
<1>9. CASE SetTag \/ DecryptChunk \/ DecryptRest
  <2>1. /\ UNCHANGED <<sent, came, taken, descriptor, have, torn, read>>
        /\ pc \in {"tag", "update"} /\ pc' \in {"update", "verify"}
    BY <1>9 DEF SetTag, DecryptChunk, DecryptRest, socketVars, recordVars
  <2>2. asyncRecv' \in BOOLEAN
    BY <1>1, <1>9, Zenon DEF SetTag, DecryptChunk, DecryptRest
  <2>3. InHand' = InHand
    BY <2>1 DEF InHand
  <2> QED
    BY <1>0, <1>c, <1>1, <2>1, <2>2, <2>3 DEF Accounts
<1>10. CASE SslRead
  <2>1. /\ UNCHANGED <<sent, came, taken, asyncRecv, descriptor, have, torn>> /\ pc = "verify"
        /\ \/ pc' = "failed" /\ read' = read
           \/ pc' = "poll" /\ Len(read') = Len(read) + 1
    BY <1>10 DEF SslRead, socketVars, recordVars, TlsInv, Types
  <2>2. (Len(read) + 1) * RecordLength = Len(read) * RecordLength + RecordLength
    BY <1>0
  <2>3. Len(read) * RecordLength \in Nat /\ InHand = RecordLength
    BY <1>0, <2>1 DEF InHand
  <2>4. taken = Len(read') * RecordLength + InHand'
    BY <1>0, <2>1, <2>2, <2>3 DEF InHand
  <2>5. pc' \notin {"tag", "update", "verify"}
    BY <2>1
  <2> QED
    BY <1>0, <1>c, <1>1, <2>1, <2>4, <2>5 DEF Accounts
<1> QED
  BY <1>2, <1>3, <1>4, <1>5, <1>6, <1>7, <1>8, <1>9, <1>10 DEF Next, Server

\* No cell is of a record that was not sent.
LEMMA OfRecordsKept == ASSUME TlsInv, Accounts, OfRecords, [Next]_vars PROVE OfRecords'
<1>0. /\ tag \in Cells /\ \A i \in Places : buffer[i] \in Cells
      /\ \A k \in 1 .. Len(pending) :
            /\ pending[k].last \in -1 .. BodyLength - 1
            /\ \A i \in DOMAIN pending[k].cells : pending[k].cells[i] \in Cells
      /\ pending \in Seq(GranuleType) /\ Len(pending) \in Nat /\ have \in 0 .. BodyLength
      /\ BodyLength \in Nat \ {0} /\ Junk \in Cells
  BY Sizes, TlsAssumption DEF TlsAssumption, OfRecords, TlsInv, Types, Junk, Cells
<1>1. CASE \/ UNCHANGED <<tag, buffer, pending>>
  BY <1>0, <1>1 DEF OfRecords, Places, BodyLength, Cells
<1>2. CASE CopierStep
  <2>1. /\ pending' = Tail(pending) /\ pending # <<>> /\ tag' = tag
    BY <1>2 DEF CopierStep, cipherVars
  <2>2. /\ 1 \in 1 .. Len(pending) /\ Len(pending') = Len(pending) - 1
        /\ \A k \in 1 .. Len(pending') : k + 1 \in 1 .. Len(pending) /\ pending'[k] = pending[k + 1]
    BY <1>0, <2>1
  <2>3. \A i \in Places : buffer'[i] \in Cells
    BY <1>0, <1>2, <2>2, HeadIsStored DEF TlsInv
  <2>4. \A k \in 1 .. Len(pending') :
            /\ pending'[k].last \in -1 .. BodyLength - 1
            /\ \A i \in DOMAIN pending'[k].cells : pending'[k].cells[i] \in Cells
    BY <1>0, <2>2
  <2> QED
    BY <1>0, <2>1, <2>3, <2>4 DEF OfRecords, Places, BodyLength, Cells
<1>3. CASE Arecv
  <2> DEFINE n == IF Available < Missing THEN Available ELSE Missing
  <2>1. /\ UNCHANGED <<tag, buffer>> /\ pc = "recv" /\ Available > 0
        /\ pending' = pending \o Granules(n)
    BY <1>3 DEF Arecv, cipherVars
  <2>2. n \in 1 .. Missing
    <3>1. have < BodyLength
      BY <2>1 DEF TlsInv, Stages
    <3>2. came \in Nat /\ taken \in Nat
      BY DEF Accounts
    <3> QED
      BY <1>0, <2>1, <3>1, <3>2 DEF Available, Missing
  <2> HIDE DEF n
  <2>3. Types
    BY DEF TlsInv
  <2>4. /\ Granules(n) \in Seq(GranuleType) /\ Len(Granules(n)) \in Nat
        /\ \A k \in 1 .. Len(Granules(n)) :
              \A i \in DOMAIN Granules(n)[k].cells :
                 /\ i \in have + 1 .. have + n
                 /\ Granules(n)[k].cells[i] = Sealed(Current, i)
    BY <2>2, <2>3, GranulesAreDistinct
  <2>5. n \in Nat \ {0} /\ have + n <= BodyLength
    BY <1>0, <2>2 DEF Missing
  <2>6. \A i \in have + 1 .. have + n : i \in Places
    BY <1>0, <2>5 DEF Places
  <2>7. ASSUME NEW k \in 1 .. Len(Granules(n))
        PROVE  /\ Granules(n)[k].last \in -1 .. BodyLength - 1
               /\ \A i \in DOMAIN Granules(n)[k].cells : Granules(n)[k].cells[i] \in Cells
    <3>1. Granules(n)[k].last = GranuleEnd(k, n) - 1 /\ (k - 1) * Granule < n
      BY <2>2, <2>3, GranuleShape
    <3>2. GranuleEnd(k, n) \in 0 .. BodyLength
      <4>1. k * Granule \in Nat
        BY <2>4, Sizes
      <4> QED
        BY <1>0, <2>5, <4>1 DEF GranuleEnd
    <3>3. \A i \in DOMAIN Granules(n)[k].cells : Granules(n)[k].cells[i] \in Cells
      BY <2>1, <2>4, <2>6, InHandCell
    <3> QED
      BY <1>0, <3>1, <3>2, <3>3
  <2>8. \A k \in 1 .. Len(pending') :
            \/ k \in 1 .. Len(pending) /\ pending'[k] = pending[k]
            \/ /\ k - Len(pending) \in 1 .. Len(Granules(n))
               /\ pending'[k] = Granules(n)[k - Len(pending)]
    BY <1>0, <2>1, <2>4
  <2>9. \A k \in 1 .. Len(pending') :
            /\ pending'[k].last \in -1 .. BodyLength - 1
            /\ \A i \in DOMAIN pending'[k].cells : pending'[k].cells[i] \in Cells
    BY <1>0, <2>7, <2>8
  <2> QED
    BY <1>0, <2>1, <2>9 DEF OfRecords, Places, BodyLength, Cells
<1>4. CASE BodySync
  <2>1. UNCHANGED <<tag, pending>> /\ pc = "body"
    BY <1>4 DEF BodySync, cipherVars
  <2>2. \A i \in Places : buffer'[i] = buffer[i] \/ buffer'[i] = Sealed(Current, i)
    BY <1>4 DEF BodySync, Places
  <2>3. \A i \in Places : buffer'[i] \in Cells
    BY <1>0, <2>1, <2>2, InHandCell
  <2> QED
    BY <1>0, <2>1, <2>3 DEF OfRecords, Places, BodyLength, Cells
<1>5. CASE SetTag
  <2>1. UNCHANGED pending /\ pc = "tag"
    BY <1>5 DEF SetTag
  <2>2. /\ \A i \in Places : buffer'[i] = buffer[i] \/ buffer'[i] = Sealed(Current, i)
        /\ tag' = buffer'[BodyLength] /\ BodyLength \in Places
    BY <1>0, <1>5 DEF SetTag, Places
  <2>3. \A i \in Places : buffer'[i] \in Cells
    BY <1>0, <2>1, <2>2, InHandCell
  <2> QED
    BY <1>0, <2>1, <2>2, <2>3 DEF OfRecords, Places, BodyLength, Cells
<1>6. CASE DecryptChunk \/ DecryptRest
  <2>1. UNCHANGED <<tag, pending>> /\ pc = "update"
    BY <1>6 DEF DecryptChunk, DecryptRest
  <2>2. \A i \in Places : buffer'[i] \in {buffer[i], Plain(Current, i), Junk}
    BY <1>6 DEF DecryptChunk, DecryptRest, Decrypt, Places
  <2>3. \A i \in Places : buffer'[i] \in Cells
    BY <1>0, <2>1, <2>2, InHandCell
  <2> QED
    BY <1>0, <2>1, <2>3 DEF OfRecords, Places, BodyLength, Cells
<1>7. Write \/ Arrive \/ PollReadable \/ PollTimeout \/ ReadHeader \/ BodyAsync \/ SslRead
        \/ UNCHANGED vars => UNCHANGED <<tag, buffer, pending>>
  BY DEF Write, Arrive, PollReadable, PollTimeout, ReadHeader, BodyAsync, SslRead, vars, cipherVars
<1> QED
  BY <1>1, <1>2, <1>3, <1>4, <1>5, <1>6, <1>7 DEF Next, Server

-----------------------------------------------------------------------------
(* The theorems                                                            *)

\* A record whose body came in one piece does not fail, however the service, the
\* network and the cipher take turns: the wait for a chunk's first byte is a
\* wait for all of it, and the tag that is asked for first harms no cell.
THEOREM OnlyTornFails == ASSUME Aligned PROVE Spec => []OnlyTornFail
<1>1. Init => TlsInv /\ WholeInv
  BY InitHolds, WholeInit
<1>2. TlsInv /\ WholeInv /\ [Next]_vars => TlsInv' /\ WholeInv'
  <2>1. TlsInv /\ [Next]_vars => TlsInv'
    BY QuietStep, HeaderStep, CopyStep, ArecvStep, BodySyncStep, SetTagStep, DecryptStep, ReadStep
       DEF Next, Server
  <2>2. TlsInv /\ WholeInv /\ [Next]_vars => WholeInv'
    BY QuietWhole, HeaderWhole, BodyAsyncWhole, ArecvWhole, BodySyncWhole, SetTagWhole,
       DecryptChunkWhole, DecryptRestWhole, SslReadWhole, CopierWhole DEF Next, Server
  <2> QED
    BY <2>1, <2>2
<1>3. WholeInv => OnlyTornFail
  BY DEF WholeInv, Ways, OnlyTornFail
<1> QED
  BY <1>1, <1>2, <1>3, PTL DEF Spec

\* The values each variable may take: in particular no record is returned that
\* was not sent, and no cell of a record that was not comes into the buffer or
\* is taken for the tag (server.c, openssl.diff).
THEOREM TypeCorrect == Spec => []TypeOK
<1>1. Init => TlsInv /\ Accounts /\ OfRecords
  <2> SUFFICES ASSUME Init PROVE Accounts /\ OfRecords
    BY InitHolds
  <2>1. Records \in Nat /\ Length \in Nat \ {0} /\ BodyLength = Length + 1
    BY TlsAssumption, Sizes DEF TlsAssumption
  <2>2. /\ sent = 0 /\ came = 0 /\ taken = 0 /\ pc = "poll" /\ descriptor = -1 /\ read = <<>>
        /\ pending = <<>> /\ buffer = [i \in 1 .. BodyLength |-> Junk] /\ tag = Junk
    BY DEF Init
  <2>3. asyncRecv \in BOOLEAN /\ torn \in BOOLEAN
    BY Zenon DEF Init
  <2>4. Junk \in Cells
    BY <2>1 DEF Junk, Cells
  <2>5. InHand = 0 /\ Len(read) = 0 /\ RecordLength \in Nat
    BY <2>1, <2>2 DEF InHand, RecordLength
  <2>6. Accounts
    BY <2>1, <2>2, <2>3, <2>5 DEF Accounts
  <2>7. OfRecords
    BY <2>2, <2>4 DEF OfRecords, Places
  <2> QED
    BY <2>6, <2>7
<1>2. TlsInv /\ Accounts /\ OfRecords /\ [Next]_vars => TlsInv' /\ Accounts' /\ OfRecords'
  <2>1. TlsInv /\ [Next]_vars => TlsInv'
    BY QuietStep, HeaderStep, CopyStep, ArecvStep, BodySyncStep, SetTagStep, DecryptStep, ReadStep
       DEF Next, Server
  <2> QED
    BY <2>1, AccountsKept, OfRecordsKept
<1>3. TlsInv /\ Accounts /\ OfRecords => TypeOK
  <2> SUFFICES ASSUME TlsInv, Accounts, OfRecords PROVE TypeOK
    OBVIOUS
  <2>1. Len(read) <= sent
    BY InHandSent
  <2>2. buffer \in [1 .. BodyLength -> Cells]
    BY DEF OfRecords, TlsInv, Types, Places
  <2>3. tag \in Cells
    BY DEF OfRecords
  <2>4. /\ pc \in {"poll", "header", "body", "recv", "tag", "update", "verify", "failed"}
        /\ have \in 0 .. BodyLength /\ bulk \in 0 .. Length
    BY DEF TlsInv, Types
  <2>5. asyncRecv \in BOOLEAN /\ torn \in BOOLEAN
    BY DEF Accounts
  <2> QED
    BY <2>1, <2>2, <2>3, <2>4, <2>5 DEF TypeOK, Accounts
<1> QED
  BY <1>1, <1>2, <1>3, PTL DEF Spec
=============================================================================
