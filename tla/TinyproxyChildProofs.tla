------------------------ MODULE TinyproxyChildProofs ------------------------
(***************************************************************************)
(* The list of children is the set of threads, and SIGTERM lets one more   *)
(* connection in at most unless a reload throws its flag away, for any     *)
(* number of connections, signals, tries and whatever maxclients is set to.*)
(***************************************************************************)
EXTENDS TinyproxyChild, SequenceTheorems, TLAPS

-----------------------------------------------------------------------------
(* Lists without repetition                                                *)

LEMMA AppendNew ==
    ASSUME NEW S, NEW s \in Seq(S), NEW x \in S, IsInjective(s), x \notin ToSet(s)
    PROVE  /\ Append(s, x) \in Seq(S)
           /\ Len(Append(s, x)) = Len(s) + 1
           /\ IsInjective(Append(s, x))
           /\ ToSet(Append(s, x)) = ToSet(s) \cup {x}
<1>1. /\ Append(s, x) \in Seq(S) /\ Len(s) \in Nat
      /\ Len(Append(s, x)) = Len(s) + 1
      /\ \A j \in 1 .. Len(s) : Append(s, x)[j] = s[j]
      /\ Append(s, x)[Len(s) + 1] = x
  OBVIOUS
<1>2. DOMAIN s = 1 .. Len(s) /\ DOMAIN Append(s, x) = 1 .. Len(s) + 1
  BY <1>1
<1>3. \A j \in 1 .. Len(s) : s[j] # x
  BY <1>2 DEF ToSet
<1>4. IsInjective(Append(s, x))
  <2> SUFFICES ASSUME NEW a \in 1 .. Len(s) + 1, NEW b \in 1 .. Len(s) + 1,
                      Append(s, x)[a] = Append(s, x)[b]
               PROVE  a = b
    BY <1>2 DEF IsInjective
  <2>1. CASE a \in 1 .. Len(s) /\ b \in 1 .. Len(s)
    BY <1>1, <1>2, <2>1 DEF IsInjective
  <2>2. CASE a = Len(s) + 1 \/ b = Len(s) + 1
    BY <1>1, <1>3, <2>2
  <2> QED
    BY <1>1, <2>1, <2>2
<1>5. ToSet(Append(s, x)) = ToSet(s) \cup {x}
  <2>1. ASSUME NEW y \in ToSet(Append(s, x)) PROVE y \in ToSet(s) \cup {x}
    BY <1>1, <1>2, <2>1 DEF ToSet
  <2>2. ASSUME NEW y \in ToSet(s) PROVE y \in ToSet(Append(s, x))
    BY <1>1, <1>2, <2>2 DEF ToSet
  <2>3. x \in ToSet(Append(s, x))
    BY <1>1, <1>2 DEF ToSet
  <2> QED
    BY <2>1, <2>2, <2>3
<1> QED
  BY <1>1, <1>4, <1>5

LEMMA TailOfDistinct ==
    ASSUME NEW S, NEW s \in Seq(S), IsInjective(s), s # <<>>
    PROVE  /\ Tail(s) \in Seq(S)
           /\ Head(s) \in ToSet(s)
           /\ IsInjective(Tail(s))
           /\ ToSet(Tail(s)) = ToSet(s) \ {Head(s)}
<1>1. /\ Tail(s) \in Seq(S) /\ Len(s) \in Nat \ {0}
      /\ Len(Tail(s)) = Len(s) - 1
      /\ \A j \in 1 .. Len(s) - 1 : Tail(s)[j] = s[j + 1]
      /\ Head(s) = s[1]
  OBVIOUS
<1>2. DOMAIN s = 1 .. Len(s) /\ DOMAIN Tail(s) = 1 .. Len(s) - 1
  BY <1>1
<1>3. Head(s) \in ToSet(s)
  BY <1>1, <1>2 DEF ToSet
<1>4. IsInjective(Tail(s))
  <2> SUFFICES ASSUME NEW a \in 1 .. Len(s) - 1, NEW b \in 1 .. Len(s) - 1,
                      Tail(s)[a] = Tail(s)[b]
               PROVE  a = b
    BY <1>2 DEF IsInjective
  <2>1. s[a + 1] = s[b + 1] /\ a + 1 \in 1 .. Len(s) /\ b + 1 \in 1 .. Len(s)
    BY <1>1
  <2> QED
    BY <1>2, <2>1 DEF IsInjective
<1>5. ToSet(Tail(s)) = ToSet(s) \ {Head(s)}
  <2>1. ASSUME NEW y \in ToSet(Tail(s)) PROVE y \in ToSet(s) /\ y # Head(s)
    <3>1. PICK j \in 1 .. Len(s) - 1 : y = Tail(s)[j]
      BY <1>2, <2>1 DEF ToSet
    <3>2. y = s[j + 1] /\ j + 1 \in 1 .. Len(s) /\ 1 \in 1 .. Len(s) /\ j + 1 # 1
      BY <1>1, <3>1
    <3>3. s[j + 1] # s[1]
      BY <1>2, <3>2 DEF IsInjective
    <3> QED
      BY <1>1, <1>2, <3>2, <3>3 DEF ToSet
  <2>2. ASSUME NEW y \in ToSet(s), y # Head(s) PROVE y \in ToSet(Tail(s))
    <3>1. PICK j \in 1 .. Len(s) : y = s[j]
      BY <1>2, <2>2 DEF ToSet
    <3>2. j - 1 \in 1 .. Len(s) - 1 /\ Tail(s)[j - 1] = s[j]
      BY <1>1, <2>2, <3>1
    <3> QED
      BY <1>2, <3>1, <3>2 DEF ToSet
  <2> QED
    BY <2>1, <2>2
<1> QED
  BY <1>1, <1>3, <1>4, <1>5

LEMMA RemoveFromDistinct ==
    ASSUME NEW S, NEW s \in Seq(S), IsInjective(s), NEW i \in 1 .. Len(s)
    PROVE  /\ RemoveAt(s, i) \in Seq(S)
           /\ Len(RemoveAt(s, i)) = Len(s) - 1
           /\ IsInjective(RemoveAt(s, i))
           /\ ToSet(RemoveAt(s, i)) = ToSet(s) \ {s[i]}
<1> DEFINE front == SubSeq(s, 1, i - 1)
           back == SubSeq(s, i + 1, Len(s))
           r == RemoveAt(s, i)
           n == Len(s)
<1>1. n \in Nat \ {0} /\ DOMAIN s = 1 .. n
  OBVIOUS
<1>2. /\ front \in Seq(S) /\ Len(front) = i - 1
      /\ \A j \in 1 .. i - 1 : front[j] = s[j]
  BY <1>1, SubSeqProperties
<1>3. /\ back \in Seq(S) /\ Len(back) = n - i
      /\ \A j \in 1 .. n - i : back[j] = s[i + j]
  <2>1. back = [j \in 1 .. n - i |-> s[i + j]]
    <3>1. \A j : i + 1 + j - 1 = i + j \/ j \notin Int
      BY <1>1
    <3>2. 1 + n - (i + 1) = n - i
      BY <1>1
    <3> QED
      BY <1>1, <3>1, <3>2
  <2>2. n - i \in Nat /\ \A j \in 1 .. n - i : s[i + j] \in S
    BY <1>1
  <2> QED
    BY <2>1, <2>2
<1>4. r = front \o back
  BY DEF RemoveAt
<1> HIDE DEF front, back, r, n
<1>5. r \in Seq(S) /\ Len(r) = n - 1 /\ DOMAIN r = 1 .. n - 1
  BY <1>1, <1>2, <1>3, <1>4
<1>6. \A j \in 1 .. n - 1 : r[j] = IF j < i THEN s[j] ELSE s[j + 1]
  <2> SUFFICES ASSUME NEW j \in 1 .. n - 1
               PROVE  r[j] = IF j < i THEN s[j] ELSE s[j + 1]
    OBVIOUS
  <2>1. i \in 1 .. n
    BY DEF n
  <2>2. CASE j < i
    BY <1>1, <1>2, <1>3, <1>4, <2>1, <2>2
  <2>3. CASE ~(j < i)
    <3>1. j - (i - 1) \in 1 .. n - i /\ i + (j - (i - 1)) = j + 1
      BY <1>1, <2>1, <2>3
    <3>2. r[j] = back[j - (i - 1)]
      BY <1>1, <1>2, <1>3, <1>4, <2>1, <2>3
    <3> QED
      BY <1>3, <2>3, <3>1, <3>2
  <2> QED
    BY <2>2, <2>3
<1> DEFINE from(j) == IF j < i THEN j ELSE j + 1
<1>7. \A j \in 1 .. n - 1 : from(j) \in 1 .. n /\ from(j) # i /\ r[j] = s[from(j)]
  <2> SUFFICES ASSUME NEW j \in 1 .. n - 1
               PROVE  from(j) \in 1 .. n /\ from(j) # i /\ r[j] = s[from(j)]
    OBVIOUS
  <2>1. r[j] = s[from(j)]
    BY <1>6
  <2>2. from(j) \in 1 .. n /\ from(j) # i
    BY <1>1 DEF n
  <2> QED
    BY <2>1, <2>2
<1>8. \A a, b \in 1 .. n - 1 : from(a) = from(b) => a = b
  BY <1>1 DEF n
<1>9. \A k \in 1 .. n : k # i => \E j \in 1 .. n - 1 : from(j) = k
  <2> SUFFICES ASSUME NEW k \in 1 .. n, k # i
               PROVE  \E j \in 1 .. n - 1 : from(j) = k
    OBVIOUS
  <2>1. CASE k < i
    BY <1>1, <2>1 DEF n
  <2>2. CASE k > i
    <3>1. k - 1 \in 1 .. n - 1 /\ from(k - 1) = k
      BY <1>1, <2>2 DEF n
    <3> QED
      BY <3>1
  <2> QED
    BY <1>1, <2>1, <2>2 DEF n
<1> HIDE DEF from
<1>10. IsInjective(r)
  <2> SUFFICES ASSUME NEW a \in 1 .. n - 1, NEW b \in 1 .. n - 1, r[a] = r[b]
               PROVE  a = b
    BY <1>5 DEF IsInjective
  <2>1. from(a) = from(b)
    BY <1>1, <1>7 DEF IsInjective
  <2> QED
    BY <1>8, <2>1
<1>11. ToSet(r) = ToSet(s) \ {s[i]}
  <2>1. ASSUME NEW y \in ToSet(r) PROVE y \in ToSet(s) /\ y # s[i]
    <3>1. PICK j \in 1 .. n - 1 : y = r[j]
      BY <1>5, <2>1 DEF ToSet
    <3> QED
      BY <1>1, <1>7, <3>1 DEF IsInjective, ToSet, n
  <2>2. ASSUME NEW y \in ToSet(s), y # s[i] PROVE y \in ToSet(r)
    <3>1. PICK k \in 1 .. n : y = s[k]
      BY <1>1 DEF ToSet
    <3>2. PICK j \in 1 .. n - 1 : from(j) = k
      BY <1>9, <2>2, <3>1
    <3> QED
      BY <1>5, <1>7, <3>1, <3>2 DEF ToSet
  <2> QED
    BY <2>1, <2>2
<1> QED
  BY <1>5, <1>10, <1>11 DEF r, n

LEMMA FrontIsRemoveAt ==
    ASSUME NEW S, NEW s \in Seq(S), s # <<>>
    PROVE  Front(s) = RemoveAt(s, Len(s))
<1> DEFINE n == Len(s)
<1>1. n \in Nat \ {0}
  OBVIOUS
<1>2. SubSeq(s, n + 1, n) = <<>>
  BY <1>1
<1>3. SubSeq(s, 1, n - 1) \in Seq(S)
  BY <1>1, SubSeqProperties
<1>4. SubSeq(s, 1, n - 1) \o <<>> = SubSeq(s, 1, n - 1)
  BY ONLY <1>3
<1> QED
  BY <1>2, <1>4 DEF Front, RemoveAt

-----------------------------------------------------------------------------
(* The invariant                                                           *)

\* The kernel's queue holds the connections that are not accepted yet.
Queued ==
    /\ IsInjective(backlog)
    /\ ToSet(backlog) = {c \in Conns : thread[c] = "calling"}

\* There is room in the list wherever the loop is behind the check for it.
Room ==
    pc \in {"reload", "free", "swap", "reloaded", "poll", "accept"} => Len(childs) < MaxClients

\* A SIGTERM that no reload has thrown away is in the flag the loop looks at, and
\* after the connection that came too late the loop goes nowhere but there.
LastOne ==
    ~lost =>
        /\ terms = 0 => late = 0
        /\ terms > 0 => quit[config] \/ pc = "exited"
        /\ late = 0 \/ /\ late = 1
                       /\ pc \in {"check", "create", "kill", "gather", "close", "exited"}

\* There is something to accept behind the poll, and a child behind accept.
Polled ==
    /\ pc = "accept" => backlog # <<>>
    /\ pc = "create" => childs # <<>>

ChildInv == TypeOK /\ ListIsTheThreads /\ Queued /\ Room /\ Polled /\ LastOne

LEMMA InitHolds == Init => ChildInv
<1> SUFFICES ASSUME Init PROVE ChildInv
  OBVIOUS
<1> USE DEF Init
<1>1. TypeOK
  <2>0. /\ pc = "check" /\ at = 1 /\ tries = 0 /\ config = 0 /\ sighup = FALSE
        /\ reloads = 0 /\ terms = 0 /\ late = 0 /\ lost = FALSE
    OBVIOUS
  <2>1. idle \in [Slots -> BOOLEAN]
    BY Zenon
  <2>2. quit \in [Slots -> BOOLEAN] /\ limited \in [Conns -> BOOLEAN]
    BY Zenon
  <2>3. thread \in [Conns -> Alive \cup {"away", "calling", "freed"}]
    BY Zenon
  <2>6. limit \in [Slots -> 0 .. MaxClients]
    <3>1. PICK m \in Limits : limit = [s \in Slots |-> IF s = 0 THEN m ELSE 0]
      OBVIOUS
    <3>2. m \in 0 .. MaxClients /\ 0 \in 0 .. MaxClients
      BY ChildAssumption DEF Limits
    <3> QED
      BY <3>1, <3>2
  <2>4. backlog \in Seq(Conns) /\ childs \in Seq(Conns) /\ Len(childs) = 0
    OBVIOUS
  <2>5. /\ at \in 1 .. MaxClients + 1 /\ Len(childs) <= MaxClients
        /\ tries \in 0 .. MaxTries /\ config \in Slots
        /\ reloads \in 0 .. MaxReloads /\ terms \in 0 .. MaxTerms /\ late \in Nat
    BY <2>0, <2>4, ChildAssumption DEF Slots
  <2> QED
    BY <2>0, <2>1, <2>2, <2>3, <2>4, <2>5, <2>6, Zenon DEF TypeOK
<1>2. ListIsTheThreads
  BY DEF ListIsTheThreads, IsInjective, ToSet, Alive, Running
<1>3. Queued
  BY DEF Queued, IsInjective, ToSet
<1> QED
  BY <1>1, <1>2, <1>3 DEF ChildInv, Room, Polled, LastOne

\* A step that leaves every thread on its side of the list's border, and of
\* the queue's.
LEMMA SameMembers ==
    ASSUME ChildInv, UNCHANGED <<childs, backlog>>, pc = "exited" => pc' = "exited",
           pc = "create" => pc' = "create",
           \A c \in Conns : /\ thread'[c] \in Alive <=> thread[c] \in Alive
                            /\ thread'[c] = "calling" <=> thread[c] = "calling"
                            /\ thread'[c] = "listed" => thread[c] = "listed"
    PROVE  ListIsTheThreads' /\ Queued'
<1>1. {c \in Conns : thread'[c] \in Alive} = {c \in Conns : thread[c] \in Alive}
  <2>1. \A c \in Conns : thread'[c] \in Alive <=> thread[c] \in Alive
    OBVIOUS
  <2> QED
    BY ONLY <2>1, Zenon
<1>2. {c \in Conns : thread'[c] = "calling"} = {c \in Conns : thread[c] = "calling"}
  <2>1. \A c \in Conns : thread'[c] = "calling" <=> thread[c] = "calling"
    OBVIOUS
  <2> QED
    BY ONLY <2>1, Zenon
<1> QED
  BY <1>1, <1>2 DEF ChildInv, ListIsTheThreads, Queued

\* One thread moves on.
LEMMA ThreadMoves ==
    ASSUME ChildInv, UNCHANGED <<childs, backlog>>, pc = "exited" => pc' = "exited",
           pc = "create" => pc' = "create",
           NEW c \in Conns, NEW t \in Alive, thread[c] \in Alive,
           t = "listed" => thread[c] = "listed",
           thread' = [thread EXCEPT ![c] = t]
    PROVE  ListIsTheThreads' /\ Queued'
<1>1. \A d \in Conns : thread'[d] = IF d = c THEN t ELSE thread[d]
  BY DEF ChildInv, TypeOK
<1>2. "calling" \notin Alive
  BY DEF Alive, Running
<1>3. \A d \in Conns : /\ thread'[d] \in Alive <=> thread[d] \in Alive
                       /\ thread'[d] = "calling" <=> thread[d] = "calling"
                       /\ thread'[d] = "listed" => thread[d] = "listed"
  BY <1>1, <1>2
<1> QED
  BY <1>3, SameMembers

\* The steps of a thread.
LEMMA ThreadSteps ==
    ASSUME ChildInv, NEW c \in Conns, Thread(c) \/ Speaks(c) \/ Answers(c) \/ Relays(c)
    PROVE  \E f, t \in Alive \ {"listed"} : \E m \in BOOLEAN : Goes(c, f, t, m)
<1>1. idle[config] \in BOOLEAN
  BY DEF ChildInv, TypeOK
<1> QED
  BY <1>1 DEF Thread, Begins, ReadTimeout, Dials, Answers, RelayEnds, Ends, Speaks, Relays, Alive,
              Running

-----------------------------------------------------------------------------
(* The list and the queue                                                  *)

LEMMA ListStep == ChildInv /\ [Next]_vars => ListIsTheThreads' /\ Queued'
<1> SUFFICES ASSUME ChildInv, [Next]_vars PROVE ListIsTheThreads' /\ Queued'
  OBVIOUS
<1>0. /\ childs \in Seq(Conns) /\ backlog \in Seq(Conns)
      /\ thread \in [Conns -> Alive \cup {"away", "calling", "freed"}]
      /\ IsInjective(backlog) /\ ToSet(backlog) = {c \in Conns : thread[c] = "calling"}
  BY DEF ChildInv, TypeOK, Queued
<1>a. pc # "exited" => /\ IsInjective(childs)
                       /\ ToSet(childs) = {c \in Conns : thread[c] \in Alive}
                       /\ \A c \in Conns : thread[c] = "listed" =>
                              pc = "create" /\ c = Last(childs)
  BY DEF ChildInv, ListIsTheThreads
<1>b. {"away", "calling", "freed"} \cap Alive = {} /\ {"done", "new", "listed"} \subseteq Alive
  BY DEF Alive, Running
<1>1. CASE SigTerm
  BY <1>1, SameMembers DEF SigTerm, threadVars, Woken
<1>2. CASE SigUsr1
  BY <1>2, SameMembers DEF SigUsr1, threadVars, Woken
<1>3. ASSUME NEW c \in Conns, Call(c) PROVE ListIsTheThreads' /\ Queued'
  <2>1. /\ thread[c] = "away" /\ backlog' = Append(backlog, c)
        /\ \A d \in Conns : thread'[d] = IF d = c THEN "calling" ELSE thread[d]
        /\ UNCHANGED <<pc, childs>>
    BY <1>0, <1>3 DEF Call
  <2>2. /\ IsInjective(backlog') /\ ToSet(backlog') = ToSet(backlog) \cup {c}
    BY <1>0, <2>1, AppendNew
  <2>3. {d \in Conns : thread'[d] = "calling"} = ToSet(backlog) \cup {c}
    BY <1>0, <2>1
  <2>4. {d \in Conns : thread'[d] \in Alive} = {d \in Conns : thread[d] \in Alive}
    BY <1>b, <2>1
  <2> QED
    BY <1>a, <2>1, <2>2, <2>3, <2>4 DEF Queued, ListIsTheThreads
<1>4. CASE CollectThread
  <2>1. PICK c \in Conns : c = childs[at] /\ at \in 1 .. Len(childs)
    BY <1>0, <1>4 DEF CollectThread, ChildInv, TypeOK
  <2>2. CASE thread[c] # "done"
    BY <1>4, <2>1, <2>2, SameMembers DEF CollectThread
  <2>3. CASE thread[c] = "done"
    <3>1. /\ childs' = RemoveAt(childs, at)
          /\ \A d \in Conns : thread'[d] = IF d = c THEN "freed" ELSE thread[d]
          /\ UNCHANGED <<pc, backlog>> /\ pc # "exited" /\ pc # "create"
      BY <1>0, <1>4, <2>1, <2>3 DEF CollectThread, Delete
    <3>2. IsInjective(childs') /\ ToSet(childs') = ToSet(childs) \ {c}
      BY <1>0, <1>a, <2>1, <3>1, RemoveFromDistinct
    <3>3. {d \in Conns : thread'[d] \in Alive} = ToSet(childs) \ {c}
      BY <1>a, <1>b, <3>1
    <3>4. {d \in Conns : thread'[d] = "calling"} = ToSet(backlog)
      BY <1>0, <2>3, <3>1
    <3>5. \A d \in Conns : thread'[d] # "listed"
      BY <1>a, <3>1
    <3> QED
      BY <1>0, <3>1, <3>2, <3>3, <3>4, <3>5 DEF Queued, ListIsTheThreads
  <2> QED
    BY <2>2, <2>3
<1>5. ASSUME NEW t \in {"listed", "freed"}, pc = "accept",
             pc' # "exited", t = "listed" => pc' = "create", backlog' = Tail(backlog),
             thread' = [thread EXCEPT ![Head(backlog)] = t],
             childs' = IF t = "listed" THEN Append(childs, Head(backlog)) ELSE childs
      PROVE  ListIsTheThreads' /\ Queued'
  <2> DEFINE c == Head(backlog)
  <2>1. backlog # <<>>
    BY <1>5 DEF ChildInv, Polled
  <2>2. /\ c \in Conns /\ thread[c] = "calling"
        /\ IsInjective(Tail(backlog)) /\ ToSet(Tail(backlog)) = ToSet(backlog) \ {c}
    BY <1>0, <2>1, TailOfDistinct
  <2>3. c \notin ToSet(childs) /\ IsInjective(childs)
    BY <1>a, <1>b, <1>5, <2>2
  <2>4. \A d \in Conns : thread'[d] = IF d = c THEN t ELSE thread[d]
    BY <1>0, <1>5
  <2> HIDE DEF c
  <2>5. {d \in Conns : thread'[d] = "calling"} = ToSet(backlog) \ {c}
    BY <1>0, <1>5, <2>4
  <2>6. \A d \in Conns : thread'[d] = "listed" => pc' = "create" /\ d = Last(childs')
    <3>1. \A d \in Conns : thread'[d] = "listed" => t = "listed" /\ d = c
      BY <1>a, <1>5, <2>4
    <3>2. t = "listed" => Last(childs') = c
      <4>1. Last(Append(childs, c)) = c
        BY <1>0, <2>2, AppendProperties DEF Last
      <4> QED
        BY <1>5, <4>1 DEF c
    <3> QED
      BY <1>5, <3>1, <3>2
  <2>7. CASE t = "listed"
    <3>1. IsInjective(childs') /\ ToSet(childs') = ToSet(childs) \cup {c}
      BY <1>0, <1>5, <2>2, <2>3, <2>7, AppendNew DEF c
    <3>2. {d \in Conns : thread'[d] \in Alive} = ToSet(childs) \cup {c}
      BY <1>a, <1>b, <1>5, <2>2, <2>4, <2>7
    <3> QED
      BY <1>5, <2>2, <2>5, <2>6, <3>1, <3>2 DEF Queued, ListIsTheThreads
  <2>8. CASE t = "freed"
    <3>1. {d \in Conns : thread'[d] \in Alive} = ToSet(childs)
      BY <1>a, <1>b, <1>5, <2>2, <2>4, <2>8
    <3> QED
      BY <1>5, <2>2, <2>3, <2>5, <2>6, <2>8, <3>1 DEF Queued, ListIsTheThreads
  <2> QED
    BY <2>7, <2>8
<1>12. CASE Accept
  <2>1. pc = "accept" /\ pc' \in {"create", "check"} /\ backlog' = Tail(backlog)
    BY <1>12 DEF Accept, LoopTop
  <2>2. \/ /\ thread' = [thread EXCEPT ![Head(backlog)] = "listed"]
           /\ childs' = Append(childs, Head(backlog)) /\ pc' = "create"
        \/ thread' = [thread EXCEPT ![Head(backlog)] = "freed"] /\ childs' = childs
    BY <1>12 DEF Accept
  <2> QED
    BY <1>5, <2>1, <2>2
<1>13. CASE AcceptFails
  <2>1. pc = "accept" /\ pc' = "check" /\ childs' = childs
    BY <1>13 DEF AcceptFails, LoopTop
  <2>2. CASE UNCHANGED <<backlog, thread>>
    BY <2>1, <2>2, SameMembers
  <2>3. CASE backlog' = Tail(backlog) /\ thread' = [thread EXCEPT ![Head(backlog)] = "freed"]
    BY <1>5, <2>1, <2>3
  <2> QED
    BY <1>13, <2>2, <2>3 DEF AcceptFails
<1>14. CASE Create
  <2>1. /\ pc = "create" /\ pc' = "check" /\ backlog' = backlog
        /\ Len(childs) \in 1 .. Len(childs) /\ Last(childs) = childs[Len(childs)]
    BY <1>0, <1>14 DEF Create, LoopTop, ChildInv, Polled, Last
  <2> DEFINE n == Len(childs)
             c == childs[n]
  <2>2. c \in ToSet(childs) /\ c \in Conns /\ thread[c] \in Alive
    BY <1>0, <1>a, <2>1 DEF ToSet
  <2>3. \A d \in Conns : thread[d] = "listed" => d = c
    BY <1>a, <2>1
  <2>4. CASE thread' = [thread EXCEPT ![c] = "new"] /\ UNCHANGED childs
    <3>1. \A d \in Conns : thread'[d] = IF d = c THEN "new" ELSE thread[d]
      BY <1>0, <2>4
    <3>2. {d \in Conns : thread'[d] \in Alive} = ToSet(childs)
      BY <1>a, <1>b, <2>1, <2>2, <3>1
    <3>3. {d \in Conns : thread'[d] = "calling"} = ToSet(backlog)
      BY <1>0, <1>b, <2>2, <3>1
    <3>4. \A d \in Conns : thread'[d] # "listed"
      BY <2>3, <3>1
    <3> QED
      BY <1>0, <1>a, <2>1, <2>4, <3>2, <3>3, <3>4 DEF Queued, ListIsTheThreads
  <2>5. CASE thread' = [thread EXCEPT ![c] = "freed"] /\ childs' = RemoveAt(childs, n)
    <3>1. \A d \in Conns : thread'[d] = IF d = c THEN "freed" ELSE thread[d]
      BY <1>0, <2>5
    <3>2. IsInjective(childs') /\ ToSet(childs') = ToSet(childs) \ {c}
      BY <1>0, <1>a, <2>1, <2>5, RemoveFromDistinct
    <3>3. {d \in Conns : thread'[d] \in Alive} = ToSet(childs) \ {c}
      BY <1>a, <1>b, <2>1, <3>1
    <3>4. {d \in Conns : thread'[d] = "calling"} = ToSet(backlog)
      BY <1>0, <1>b, <2>2, <3>1
    <3>5. \A d \in Conns : thread'[d] # "listed"
      BY <2>3, <3>1
    <3> QED
      BY <1>0, <2>1, <3>2, <3>3, <3>4, <3>5 DEF Queued, ListIsTheThreads
  <2> QED
    <3>1. Front(childs) = RemoveAt(childs, n)
      BY <1>0, <2>1, FrontIsRemoveAt
    <3> QED
      BY <1>14, <2>1, <2>4, <2>5, <3>1 DEF Create, DropLast
<1>6. CASE KillThread
  <2>1. PICK t \in Interrupted(childs[at]) : thread' = [thread EXCEPT ![childs[at]] = t]
    BY <1>6 DEF KillThread
  <2>2. /\ at \in 1 .. Len(childs) /\ pc = "kill" /\ UNCHANGED <<pc, childs, backlog>>
    BY <1>6 DEF KillThread, ChildInv, TypeOK
  <2>3. childs[at] \in Conns /\ thread[childs[at]] \in Alive
    BY <1>0, <1>a, <2>2 DEF ToSet
  <2>4. t = thread[childs[at]] \/ t = "finish"
    BY <2>1 DEF Interrupted
  <2>5. t \in Alive /\ (t = "listed" => thread[childs[at]] = "listed")
    BY <2>3, <2>4 DEF Alive, Running
  <2> QED
    BY <2>1, <2>2, <2>3, <2>5, ThreadMoves
<1>7. CASE Close
  BY <1>0, <1>7 DEF Close, threadVars, ListIsTheThreads, Queued
<1>8. CASE Check \/ Collected \/ ReloadFile \/ FreeConfig \/ SwapConfig \/ Reloaded
           \/ PollReturns \/ Nap \/ Gathered
  <2>1. UNCHANGED <<childs, backlog, thread>> /\ pc # "exited" /\ pc # "create"
    BY <1>8 DEF Check, Collected, ReloadFile, FreeConfig, SwapConfig, Reloaded, PollReturns,
                Nap, Gathered, threadVars
  <2> QED
    BY <2>1, SameMembers
<1>9. ASSUME NEW c \in Conns, NEW f \in Alive, NEW t \in Alive \ {"listed"}, NEW m,
             Goes(c, f, t, m)
      PROVE  ListIsTheThreads' /\ Queued'
  BY <1>9, ThreadMoves DEF Goes
<1>10. ASSUME NEW c \in Conns, Thread(c) \/ Speaks(c) \/ Answers(c) \/ Relays(c)
       PROVE  ListIsTheThreads' /\ Queued'
  BY <1>9, <1>10, ThreadSteps
<1>11. CASE UNCHANGED vars
  BY <1>11, SameMembers DEF vars, threadVars
<1> QED
  BY <1>1, <1>2, <1>3, <1>4, <1>6, <1>7, <1>8, <1>10, <1>11, <1>12, <1>13, <1>14 DEF Next, Main

-----------------------------------------------------------------------------
(* Types                                                                   *)

LEMMA ListTypes ==
    ChildInv /\ [Next]_vars =>
        childs' \in Seq(Conns) /\ Len(childs') <= MaxClients /\ backlog' \in Seq(Conns)
<1> SUFFICES ASSUME ChildInv, [Next]_vars
             PROVE  childs' \in Seq(Conns) /\ Len(childs') <= MaxClients /\ backlog' \in Seq(Conns)
  OBVIOUS
<1>0. childs \in Seq(Conns) /\ Len(childs) <= MaxClients /\ backlog \in Seq(Conns)
  BY DEF ChildInv, TypeOK
<1>1. MaxClients \in Nat /\ Len(childs) \in Nat
  BY <1>0, ChildAssumption
<1>2. ASSUME NEW c \in Conns, Call(c) PROVE childs' = childs /\ backlog' \in Seq(Conns)
  BY <1>0, <1>2 DEF Call
<1>3. CASE CollectThread
  <2>1. at \in 1 .. Len(childs) /\ pc # "exited" /\ backlog' = backlog
    BY <1>3 DEF CollectThread, ChildInv, TypeOK
  <2>2. childs' = RemoveAt(childs, at) \/ childs' = childs
    BY <1>3 DEF CollectThread, Delete
  <2>3. IsInjective(childs)
    BY <2>1 DEF ChildInv, ListIsTheThreads
  <2> QED
    BY <1>0, <1>1, <2>1, <2>2, <2>3, RemoveFromDistinct
<1>4. CASE Accept
  <2>1. pc = "accept" /\ backlog # <<>> /\ Len(childs) < MaxClients /\ backlog' = Tail(backlog)
    BY <1>4 DEF Accept, ChildInv, Room, Polled
  <2>2. Head(backlog) \in Conns /\ Tail(backlog) \in Seq(Conns)
    BY <1>0, <2>1
  <2>3. childs' = Append(childs, Head(backlog)) \/ childs' = childs
    BY <1>4 DEF Accept
  <2>4. /\ Append(childs, Head(backlog)) \in Seq(Conns)
        /\ Len(Append(childs, Head(backlog))) = Len(childs) + 1
    BY <1>0, <2>2, AppendProperties
  <2>5. childs' \in Seq(Conns)
    BY <1>0, <2>3, <2>4
  <2>6. Len(childs') <= MaxClients
    BY <1>0, <1>1, <2>1, <2>3, <2>4
  <2> QED
    BY <2>1, <2>2, <2>5, <2>6
<1>8. CASE AcceptFails
  <2>1. childs' = childs /\ (backlog' = backlog \/ backlog' = Tail(backlog)) /\ backlog # <<>>
    BY <1>8 DEF AcceptFails, ChildInv, Polled
  <2> QED
    BY <1>0, <2>1
<1>9. CASE Create
  <2>1. childs # <<>> /\ backlog' = backlog
    BY <1>9 DEF Create, ChildInv, Polled
  <2>2. childs' = childs \/ childs' = RemoveAt(childs, Len(childs))
    BY <1>0, <1>9, <2>1, FrontIsRemoveAt DEF Create, DropLast
  <2>3. IsInjective(childs)
    BY <1>9 DEF Create, ChildInv, ListIsTheThreads
  <2>4. Len(childs) \in 1 .. Len(childs)
    BY <1>0, <2>1
  <2>5. CASE childs' = RemoveAt(childs, Len(childs))
    BY <1>0, <1>1, <2>1, <2>3, <2>4, <2>5, RemoveFromDistinct
  <2> QED
    BY <1>0, <2>1, <2>2, <2>5
<1>5. CASE Close
  <2>1. childs' = <<>> /\ backlog' = backlog
    BY <1>5 DEF Close
  <2> QED
    BY <1>0, <1>1, <2>1
<1>6. ASSUME NEW c \in Conns, Thread(c) \/ Speaks(c) \/ Answers(c) \/ Relays(c)
      PROVE  UNCHANGED <<childs, backlog>>
  BY <1>6, ThreadSteps DEF Goes
<1>7. CASE \/ SigTerm \/ SigUsr1 \/ Check \/ Collected \/ ReloadFile \/ FreeConfig \/ SwapConfig
           \/ Reloaded \/ PollReturns \/ KillThread \/ Nap \/ Gathered \/ UNCHANGED vars
  BY <1>0, <1>7 DEF SigTerm, SigUsr1, Check, Collected, ReloadFile, FreeConfig, SwapConfig,
                    Reloaded, PollReturns, KillThread, Nap, Gathered, vars
<1> QED
  BY <1>0, <1>2, <1>3, <1>4, <1>5, <1>6, <1>7, <1>8, <1>9 DEF Next, Main

LEMMA NumberTypes ==
    ChildInv /\ [Next]_vars =>
        /\ at' \in 1 .. MaxClients + 1 /\ tries' \in 0 .. MaxTries
        /\ late' \in Nat /\ lost' \in BOOLEAN
        /\ reloads' \in 0 .. MaxReloads /\ terms' \in 0 .. MaxTerms
<1> SUFFICES ASSUME ChildInv, [Next]_vars
             PROVE  /\ at' \in 1 .. MaxClients + 1 /\ tries' \in 0 .. MaxTries
                    /\ late' \in Nat /\ lost' \in BOOLEAN
                    /\ reloads' \in 0 .. MaxReloads /\ terms' \in 0 .. MaxTerms
  OBVIOUS
<1>0. /\ at \in 1 .. MaxClients + 1 /\ tries \in 0 .. MaxTries /\ late \in Nat /\ lost \in BOOLEAN
      /\ reloads \in 0 .. MaxReloads /\ terms \in 0 .. MaxTerms
      /\ Len(childs) \in Nat /\ Len(childs) <= MaxClients
  BY DEF ChildInv, TypeOK
<1>1. MaxClients \in Nat \ {0} /\ MaxTries \in Nat /\ MaxReloads \in Nat /\ MaxTerms \in Nat
  BY ChildAssumption
<1>2. CASE SigTerm \/ SigUsr1
  <2>1. UNCHANGED <<at, tries, late, lost>>
    BY <1>2 DEF SigTerm, SigUsr1, termVars
  <2>2. \/ terms < MaxTerms /\ terms' = terms + 1 /\ UNCHANGED reloads
        \/ reloads < MaxReloads /\ reloads' = reloads + 1 /\ UNCHANGED terms
    BY <1>2 DEF SigTerm, SigUsr1
  <2> QED
    BY <1>0, <1>1, <2>1, <2>2
<1>3. CASE CollectThread \/ KillThread
  <2>1. /\ at <= Len(childs) /\ (at' = at \/ at' = at + 1)
        /\ UNCHANGED <<tries, late, lost, reloads, terms>>
    BY <1>3 DEF CollectThread, KillThread, signalVars, termVars
  <2> QED
    BY <1>0, <1>1, <2>1
<1>4. CASE Check \/ Nap
  BY <1>0, <1>1, <1>4 DEF Check, Nap, signalVars, termVars
<1>5. CASE Accept
  BY <1>0, <1>5 DEF Accept, signalVars
<1>6. CASE Gathered
  BY <1>0, <1>1, <1>6 DEF Gathered, Again, Counted, signalVars, termVars
<1>7. CASE Collected \/ ReloadFile \/ Reloaded \/ PollReturns \/ AcceptFails \/ Create
           \/ Close \/ UNCHANGED vars
  BY <1>0, <1>7 DEF Collected, ReloadFile, Reloaded, PollReturns, AcceptFails, Create,
                    Close, vars, signalVars, termVars
<1>10. CASE FreeConfig \/ SwapConfig
  <2>1. lost' = (lost \/ quit[config]) /\ quit[config] \in BOOLEAN
    BY <1>10 DEF FreeConfig, SwapConfig, ChildInv, TypeOK
  <2>2. lost' \in BOOLEAN
    BY <1>0, <2>1, Zenon
  <2> QED
    BY <1>0, <1>10, <2>2 DEF FreeConfig, SwapConfig, signalVars
<1>8. ASSUME NEW c \in Conns, Call(c) PROVE UNCHANGED <<at, tries, late, lost, reloads, terms>>
  BY <1>8 DEF Call, signalVars, termVars
<1>9. ASSUME NEW c \in Conns, Thread(c) \/ Speaks(c) \/ Answers(c) \/ Relays(c)
      PROVE  UNCHANGED <<at, tries, late, lost, reloads, terms>>
  BY <1>9, ThreadSteps DEF Goes, signalVars, termVars
<1> QED
  BY <1>0, <1>2, <1>3, <1>4, <1>5, <1>6, <1>7, <1>8, <1>9, <1>10 DEF Next, Main

LEMMA MapTypes ==
    ChildInv /\ [Next]_vars =>
        /\ quit' \in [Slots -> BOOLEAN] /\ idle' \in [Slots -> BOOLEAN] /\ config' \in Slots
        /\ limit' \in [Slots -> 0 .. MaxClients]
        /\ thread' \in [Conns -> Alive \cup {"away", "calling", "freed"}]
        /\ limited' \in [Conns -> BOOLEAN]
<1> DEFINE Where == Alive \cup {"away", "calling", "freed"}
           Maps == /\ quit \in [Slots -> BOOLEAN] /\ idle \in [Slots -> BOOLEAN]
                   /\ config \in Slots /\ limit \in [Slots -> 0 .. MaxClients]
                   /\ thread \in [Conns -> Where] /\ limited \in [Conns -> BOOLEAN]
<1> SUFFICES ASSUME ChildInv, [Next]_vars PROVE Maps'
  OBVIOUS
<1>0. Maps
  BY DEF ChildInv, TypeOK
<1>1. Alive \subseteq Where /\ {"calling", "freed", "listed", "new", "finish"} \subseteq Where
  BY DEF Alive, Running
<1>2. NextConfig(config) \in Slots
  BY <1>0 DEF NextConfig, Slots
<1>13. 0 \in 0 .. MaxClients /\ Limits \subseteq 0 .. MaxClients
  BY ChildAssumption DEF Limits
<1> HIDE DEF Where
<1>3. CASE SigTerm
  BY <1>0, <1>3 DEF SigTerm, threadVars
<1>4. CASE ReloadFile
  BY <1>0, <1>2, <1>4, <1>13 DEF ReloadFile, threadVars
<1>5. CASE FreeConfig \/ Close
  BY <1>0, <1>5, <1>13 DEF FreeConfig, Close, threadVars
<1>6. CASE SwapConfig
  BY <1>0, <1>2, <1>6 DEF SwapConfig, threadVars
<1>7. ASSUME NEW c \in Conns, Call(c) PROVE Maps'
  BY <1>0, <1>1, <1>7 DEF Call, configVars
<1>8. CASE CollectThread
  BY <1>0, <1>1, <1>8 DEF CollectThread, configVars
<1>9. CASE Accept \/ AcceptFails \/ Create
  BY <1>0, <1>1, <1>9 DEF Accept, AcceptFails, Create, configVars
<1>10. CASE KillThread
  <2>1. PICK t \in Interrupted(childs[at]) :
            /\ thread' = [thread EXCEPT ![childs[at]] = t]
            /\ limited' = [limited EXCEPT ![childs[at]] = t # "finish" /\ @]
    BY <1>10 DEF KillThread
  <2>2. childs[at] \in Conns
    BY <1>10 DEF KillThread, ChildInv, TypeOK
  <2>3. t \in Where
    BY <1>0, <1>1, <2>2 DEF Interrupted
  <2>4. limited[childs[at]] \in BOOLEAN
    BY <1>0, <2>2
  <2>5. limited' \in [Conns -> BOOLEAN]
    BY <1>0, <2>1, <2>4, Zenon
  <2>6. thread' \in [Conns -> Where]
    BY <1>0, <2>1, <2>3
  <2> QED
    BY <1>0, <1>10, <2>5, <2>6 DEF KillThread, configVars
<1>11. CASE SigUsr1 \/ Check \/ Collected \/ Reloaded \/ PollReturns \/ Nap \/ Gathered
            \/ UNCHANGED vars
  <2>1. UNCHANGED <<quit, idle, config, limit, thread, limited>>
    BY <1>11 DEF SigUsr1, Check, Collected, Reloaded, PollReturns, Nap, Gathered, vars,
                 configVars, threadVars
  <2> QED
    BY <1>0, <2>1
<1>12. ASSUME NEW c \in Conns, Thread(c) \/ Speaks(c) \/ Answers(c) \/ Relays(c) PROVE Maps'
  <2>1. PICK f, t \in Alive : \E m \in BOOLEAN : Goes(c, f, t, m)
    BY <1>12, ThreadSteps
  <2>2. PICK m \in BOOLEAN : Goes(c, f, t, m)
    BY <2>1
  <2> QED
    BY <1>0, <1>1, <2>2 DEF Goes, configVars
<1> QED
  BY <1>3, <1>4, <1>5, <1>6, <1>7, <1>8, <1>9, <1>10, <1>11, <1>12 DEF Next, Main

\* Where the main thread goes.
LEMMA PlaceStep ==
    ChildInv /\ [Next]_vars =>
        /\ pc' \in {"check", "collect", "reload", "free", "swap", "reloaded", "poll", "accept",
                    "create", "kill", "gather", "close", "exited"}
        /\ sighup' \in BOOLEAN
        /\ Room' /\ Polled' /\ LastOne'
<1> DEFINE Places == {"check", "collect", "reload", "free", "swap", "reloaded", "poll", "accept",
                      "create", "kill", "gather", "close", "exited"}
           Place == pc \in Places /\ sighup \in BOOLEAN /\ Room /\ Polled /\ LastOne
<1> SUFFICES ASSUME ChildInv, [Next]_vars PROVE Place'
  OBVIOUS
<1>0. /\ Place /\ quit \in [Slots -> BOOLEAN] /\ config \in Slots
      /\ terms \in Nat /\ late \in Nat /\ lost \in BOOLEAN
  BY ChildAssumption DEF ChildInv, TypeOK
<1>1. Len(childs) \in Nat /\ MaxClients \in Nat /\ limit[config] \in Nat /\ limit[config] <= MaxClients
  BY ChildAssumption DEF ChildInv, TypeOK
<1> USE DEF Room, Polled, LastOne
<1>2. CASE SigTerm
  <2>1. quit'[config'] = TRUE
    BY <1>0, <1>2 DEF SigTerm
  <2> QED
    BY <1>0, <1>2, <2>1 DEF SigTerm, Woken, termVars
<1>3. CASE SigUsr1
  BY <1>0, <1>3 DEF SigUsr1, Woken, configVars, termVars
<1>4. CASE Check
  BY <1>0, <1>4 DEF Check, Begin, configVars, signalVars, termVars
<1>5. CASE CollectThread
  BY <1>0, <1>5 DEF CollectThread, configVars, signalVars, termVars
<1>6. CASE Collected
  BY <1>0, <1>1, <1>6 DEF Collected, ListFull, LoopTop, configVars, signalVars, termVars
<1>7. CASE ReloadFile
  <2>1. quit'[config'] = quit[config]
    <3>1. config \in {0, 1} /\ NextConfig(config) # config
      BY <1>0 DEF NextConfig, Slots
    <3>2. quit' = [quit EXCEPT ![NextConfig(config)] = FALSE] /\ config' = config
      BY <1>7 DEF ReloadFile
    <3> QED
      BY <1>0, <3>1, <3>2
  <2> QED
    BY <1>0, <1>7, <2>1 DEF ReloadFile, signalVars, termVars
<1>14. CASE FreeConfig \/ SwapConfig
  <2>1. ~lost' => ~lost /\ ~quit[config] /\ terms = 0 /\ late = 0
    BY <1>0, <1>14 DEF FreeConfig, SwapConfig
  <2> QED
    BY <1>0, <1>14, <2>1 DEF FreeConfig, SwapConfig, signalVars
<1>15. CASE Reloaded
  BY <1>0, <1>15 DEF Reloaded, configVars, signalVars, termVars
<1>8. CASE PollReturns
  BY <1>0, <1>8 DEF PollReturns, configVars, signalVars, termVars
<1>9. CASE Accept
  <2>1. /\ pc = "accept" /\ pc' \in {"create", "check"}
        /\ UNCHANGED <<sighup, config, quit, terms, lost>>
        /\ late' = IF terms > 0 THEN late + 1 ELSE late
    BY <1>9 DEF Accept, LoopTop, configVars, signalVars
  <2>2. pc' = "create" => childs' # <<>>
    BY <1>9 DEF Accept, LoopTop, ChildInv, TypeOK
  <2>3. ~lost => late = 0
    BY <1>0, <2>1
  <2> QED
    BY <1>0, <2>1, <2>2, <2>3
<1>16. CASE AcceptFails \/ Create
  BY <1>0, <1>16 DEF AcceptFails, Create, LoopTop, configVars, signalVars, termVars
<1>10. CASE KillThread \/ Nap \/ Gathered
  BY <1>0, <1>10 DEF KillThread, Nap, Gathered, configVars, signalVars, termVars
<1>17. CASE Close
  BY <1>0, <1>17 DEF Close, signalVars, termVars
<1>11. ASSUME NEW c \in Conns, Call(c) PROVE Place'
  <2>1. UNCHANGED <<pc, childs, sighup, config, quit, terms, late, lost>>
    BY <1>11 DEF Call, configVars, signalVars, termVars
  <2>2. backlog' # <<>>
    BY <1>11 DEF Call, ChildInv, TypeOK
  <2> QED
    BY <1>0, <2>1, <2>2
<1>12. ASSUME NEW c \in Conns, Thread(c) \/ Speaks(c) \/ Answers(c) \/ Relays(c) PROVE Place'
  <2>1. UNCHANGED <<pc, childs, backlog, sighup, config, quit, terms, late, lost>>
    BY <1>12, ThreadSteps DEF Goes, configVars, signalVars, termVars
  <2> QED
    BY <1>0, <2>1
<1>13. CASE UNCHANGED vars
  BY <1>0, <1>13 DEF vars, configVars, signalVars, termVars
<1> QED
  BY <1>2, <1>3, <1>4, <1>5, <1>6, <1>7, <1>8, <1>9, <1>10, <1>11, <1>12, <1>13, <1>14, <1>15,
     <1>16, <1>17 DEF Next, Main

-----------------------------------------------------------------------------
(* The theorems                                                            *)

LEMMA ChildInvAlways == Spec => []ChildInv
<1>1. ChildInv /\ [Next]_vars => TypeOK'
  BY ListTypes, NumberTypes, MapTypes, PlaceStep DEF TypeOK
<1>2. ChildInv /\ [Next]_vars => ChildInv'
  BY <1>1, ListStep, PlaceStep DEF ChildInv
<1> QED
  BY <1>2, InitHolds, PTL DEF Spec

\* The list, the flags and the threads stay in their types, and the list never
\* holds more than maxclients children.
THEOREM TypeCorrect == Spec => []TypeOK
<1>1. ChildInv => TypeOK
  BY DEF ChildInv
<1> QED
  BY <1>1, ChildInvAlways, PTL

\* The list of children is the set of the threads that are not joined yet,
\* whatever collect_threads deletes on its way and whichever thread cannot be
\* created.
THEOREM ListIsExact == Spec => []ListIsTheThreads
<1>1. ChildInv => ListIsTheThreads
  BY DEF ChildInv
<1> QED
  BY <1>1, ChildInvAlways, PTL

\* Of all the connections that come behind a SIGTERM, at whatever moment it comes,
\* at most one is accepted, or a reload has thrown the flag of the signal away.
THEOREM OneIsLate == Spec => []OneAfterTerm
<1>1. ChildInv => OneAfterTerm
  BY DEF ChildInv, LastOne, OneAfterTerm
<1> QED
  BY <1>1, ChildInvAlways, PTL
=============================================================================
