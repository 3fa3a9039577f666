----------------------------- MODULE CopierRing -----------------------------
(***************************************************************************)
(* The ring of copy tasks that a client process shares with the Copier     *)
(* service.  Every client in the repository posts an asynchronous copy in  *)
(* the same way: read write_index, fill entries[write_index], and publish  *)
(* the entry by storing (write_index + 1) modulo the number of entries.    *)
(* The threaded client (tinyproxy) brackets these steps with a mutex; the  *)
(* others post from one thread, which here is the case of one producer.    *)
(* No client ever compares write_index with thread_read_index before it    *)
(* claims an entry, so the ring is never found full: that the backlog      *)
(* stays below the length of the ring is up to the callers (MaxBacklog).   *)
(*                                                                         *)
(* The service is not part of the repository.  Its side (CopierTake,       *)
(* CopierFinish) is what the clients' code presumes of it: tasks are taken *)
(* in ring order, and thread_read_index moves past an entry only when its  *)
(* copy is complete, or waiting for thread_read_index = write_index would  *)
(* not be a wait for the copies.                                           *)
(***************************************************************************)
EXTENDS Integers, Sequences

CONSTANTS Producers,    \* the client's threads that post copies
          Tasks,        \* the copies they may ask for
          NoTask,       \* an entry or argument that holds no task
          NoProducer,   \* the owner of the mutex when it is free
          QueueLen,     \* number of entries of the ring
          MaxBacklog,   \* bound: tasks the callers leave incomplete at a time
          MaxPosts      \* bound: tasks posted in a behaviour

ASSUME RingAssumption ==
    /\ QueueLen \in Nat \ {0}
    /\ MaxBacklog \in Nat
    /\ MaxBacklog < QueueLen        \* one entry always stays unused
    /\ MaxPosts \in Nat
    /\ NoTask \notin Tasks
    /\ NoProducer \notin Producers

VARIABLES entries,      \* cp_in_queue->entries
          writeIndex,   \* cp_in_queue->write_index
          readIndex,    \* cp_in_queue->thread_read_index
          mutex,        \* the producer that holds copier_queue_mutex
          pc,           \* where each producer stands in its call
          local,        \* the local variable write_index of each producer
          task,         \* the arguments dst, src and n of each producer's call
          current,      \* the task the service is carrying out
          posted,       \* history: the tasks published so far
          executed      \* history: the tasks completed so far

producerVars == <<mutex, pc, local, task>>
vars == <<entries, writeIndex, readIndex, producerVars, current, posted, executed>>

Slots == 0 .. QueueLen - 1
OnePast(i) == (i + 1) % (QueueLen + 1)   \* the modulus is off by one
NextSlot(i) == (i + 1) % QueueLen

\* Tasks that were published and are not complete, counted by the histories.
Backlog == Len(posted) - Len(executed)

\* The entries between the two indices, as anyone sees them who reads the
\* shared memory: the oldest first.
Outstanding ==
    [i \in 1 .. (writeIndex - readIndex) % QueueLen |->
        entries[(readIndex + i - 1) % QueueLen]]

-----------------------------------------------------------------------------
Init ==
    /\ entries = [i \in Slots |-> NoTask]
    /\ writeIndex = 0
    /\ readIndex = 0
    /\ mutex = NoProducer
    /\ pc = [p \in Producers |-> "idle"]
    /\ local = [p \in Producers |-> 0]
    /\ task = [p \in Producers |-> NoTask]
    /\ current = NoTask
    /\ posted = <<>>
    /\ executed = <<>>

\* Producer p moves from one point of its call to the next.
Step(p, from, to) ==
    /\ pc[p] = from
    /\ pc' = [pc EXCEPT ![p] = to]

\* p calls smartInputDescriptorBufferMemcpyAsyncSend for the copy t.
Call(p, t) ==
    /\ Step(p, "idle", "lock")
    /\ task' = [task EXCEPT ![p] = t]
    /\ UNCHANGED <<entries, writeIndex, readIndex, mutex, local, current, posted, executed>>

\* The same without waiting for the other holder of the mutex.
LockUnguarded(p) ==
    /\ Step(p, "lock", "locked")
    /\ mutex' = p
    /\ UNCHANGED <<entries, writeIndex, readIndex, local, task, current, posted, executed>>

\* pthread_mutex_lock(&copier_queue_mutex)
Lock(p) ==
    /\ Step(p, "lock", "locked")
    /\ mutex = NoProducer
    /\ mutex' = p
    /\ UNCHANGED <<entries, writeIndex, readIndex, local, task, current, posted, executed>>

\* The callers' restraint, which the code of the ring does not enforce.
OneTooMany == Backlog <= MaxBacklog /\ Len(posted) < MaxPosts  \* the ring may fill up
RoomLeft == Backlog < MaxBacklog /\ Len(posted) < MaxPosts

\* write_index = cp_in_queue->write_index
ReadIndex(p) ==
    /\ Step(p, "locked", "claimed")
    /\ RoomLeft
    /\ local' = [local EXCEPT ![p] = writeIndex]
    /\ UNCHANGED <<entries, writeIndex, readIndex, mutex, task, current, posted, executed>>

\* The entry stored to, when the index is advanced before the stores.
AdvancedEntry(p) == NextSlot(local[p])
ClaimedEntry(p) == local[p]

\* The stores to the fields of entries[write_index].
Fill(p) ==
    /\ Step(p, "claimed", "filled")
    /\ entries' = [entries EXCEPT ![ClaimedEntry(p)] = task[p]]
    /\ UNCHANGED <<writeIndex, readIndex, mutex, local, task, current, posted, executed>>

\* cp_in_queue->write_index = (write_index + 1) % DEFUALT_CP_IN_ENTRY_NUM
Publish(p) ==
    /\ Step(p, "filled", "published")
    /\ writeIndex' = NextSlot(local[p])
    /\ posted' = Append(posted, task[p])
    /\ UNCHANGED <<entries, readIndex, mutex, local, task, current, executed>>

\* pthread_mutex_unlock(&copier_queue_mutex), and the call returns.
Unlock(p) ==
    /\ Step(p, "published", "idle")
    /\ mutex' = NoProducer
    /\ UNCHANGED <<entries, writeIndex, readIndex, local, task, current, posted, executed>>

\* The service finds an entry between the indices and starts to copy.
CopierTake ==
    /\ current = NoTask
    /\ readIndex # writeIndex
    /\ current' = entries[readIndex]
    /\ UNCHANGED <<entries, writeIndex, readIndex, producerVars, posted, executed>>

\* The copy is complete: the service gives the entry back.
CopierFinish ==
    /\ current # NoTask
    /\ current' = NoTask
    /\ executed' = Append(executed, current)
    /\ readIndex' = NextSlot(readIndex)
    /\ UNCHANGED <<entries, writeIndex, producerVars, posted>>

Post(p) ==
    \/ \E t \in Tasks : Call(p, t)
    \/ Lock(p)
    \/ ReadIndex(p)
    \/ Fill(p)
    \/ Publish(p)
    \/ Unlock(p)

Next ==
    \/ \E p \in Producers : Post(p)
    \/ CopierTake
    \/ CopierFinish

\* The service polls its queues for ever; nothing obliges a client to post.
Fairness == WF_vars(CopierTake) /\ WF_vars(CopierFinish)

Spec == Init /\ [][Next]_vars /\ Fairness

-----------------------------------------------------------------------------
\* The values each variable may take.
TypeOK ==
    /\ entries \in [Slots -> Tasks \cup {NoTask}]
    /\ writeIndex \in Slots
    /\ readIndex \in Slots
    /\ mutex \in Producers \cup {NoProducer}
    /\ pc \in [Producers -> {"idle", "lock", "locked", "claimed", "filled", "published"}]
    /\ local \in [Producers -> Slots]
    /\ task \in [Producers -> Tasks \cup {NoTask}]
    /\ current \in Tasks \cup {NoTask}
    /\ posted \in Seq(Tasks)
    /\ executed \in Seq(Tasks)

\* The service carries out exactly the published copies, each once and in the
\* order of publication: what makes a chain of copies (receive into the input
\* buffer, copy on into an object) deliver the bytes a synchronous program
\* would have seen.
ExactlyOnceInOrder ==
    /\ Len(executed) <= Len(posted)
    /\ \A k \in 1 .. Len(executed) : executed[k] = posted[k]

\* The wait of recvWithsmartInputDescriptorBufferRedis and arecv: equal indices
\* mean that no published copy is incomplete.
DrainMeansDone == readIndex = writeIndex => Len(executed) = Len(posted)

\* An entry the service has not finished is never written by a client.
PendingEntryStable ==
    [][\A i \in 1 .. (writeIndex - readIndex) % QueueLen :
          LET s == (readIndex + i - 1) % QueueLen IN entries'[s] = entries[s]]_vars

-----------------------------------------------------------------------------
\* The ring implements the unbounded queue of CopierFifo: a copy is posted by
\* the store to write_index and complete with the store to thread_read_index,
\* which every posted copy comes to in the end (CopierFifo is fair).
Fifo == INSTANCE CopierFifo WITH queue <- Outstanding, done <- executed

FifoSpec == Fifo!Spec
=============================================================================
