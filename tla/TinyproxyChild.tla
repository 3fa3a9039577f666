--------------------------- MODULE TinyproxyChild ---------------------------
(***************************************************************************)
(* The main thread of tinyproxy (the variant with a thread per connection):*)
(* it accepts connections up to maxclients, collects the threads that are  *)
(* done, reloads the configuration on SIGUSR1 and shuts down on SIGTERM.   *)
(* The threads of the connections read the configuration as they run.      *)
(*                                                                         *)
(* Signals are handled by the main thread, between any two of its steps;   *)
(* one that comes while it is blocked in poll ends the poll.               *)
(***************************************************************************)
EXTENDS Integers, Sequences, SequencesExt

CONSTANTS Conns,        \* the connections
          MaxClients,   \* the most that a configuration sets maxclients to
          Silent,       \* connections whose client and server may say nothing
          MaxTries,     \* times the threads are signalled again at the end
          MaxReloads,   \* bound: SIGUSR1 signals
          MaxTerms      \* bound: SIGTERM signals

ASSUME ChildAssumption ==
    /\ MaxClients \in Nat \ {0}
    /\ Silent \subseteq Conns
    /\ MaxTries \in Nat
    /\ MaxReloads \in Nat
    /\ MaxTerms \in Nat

Slots == {0, 1}

\* What a configuration says for maxclients.
Limits == 1 .. MaxClients

VARIABLES pc,           \* where the main thread is
          backlog,      \* the connections the kernel has for accept
          at,           \* i of collect_threads and child_kill_children
          childs,       \* the list of children
          tries,        \* tries of child_kill_children
          config,       \* which of configs[2] is in use
          quit,         \* quit[s]: configs[s].quit
          idle,         \* idle[s]: configs[s].idletimeout is not 0
          limit,        \* limit[s]: configs[s].maxclients
          sighup,       \* received_sighup
          thread,       \* thread[c]: how far a connection is
          limited,      \* limited[c]: the read or the poll c is in has a timeout
                        \* (for poll, one that is not 0)
          reloads,      \* SIGUSR1 signals so far
          terms,        \* SIGTERM signals so far
          late,         \* connections accepted since the first SIGTERM
          lost          \* whether a reload has thrown a SIGTERM away

configVars == <<config, quit, idle, limit>>
threadVars == <<thread, limited>>
signalVars == <<reloads, terms>>
termVars == <<late, lost>>
vars == <<pc, backlog, at, childs, tries, configVars, sighup, threadVars, signalVars, termVars>>

Init ==
    /\ pc = "check"
    /\ backlog = <<>>
    /\ at = 1
    /\ childs = <<>>
    /\ tries = 0
    /\ config = 0
    /\ quit = [s \in Slots |-> FALSE]
    /\ idle = [s \in Slots |-> s = 0]
    /\ \E m \in Limits : limit = [s \in Slots |-> IF s = 0 THEN m ELSE 0]
    /\ sighup = FALSE
    /\ thread = [c \in Conns |-> "away"]
    /\ limited = [c \in Conns |-> FALSE]
    /\ reloads = 0
    /\ terms = 0
    /\ late = 0
    /\ lost = FALSE

\* The threads that run.
Running == {"new", "head", "dial", "answer", "poll", "finish"}

\* Where the connection of a child is that is in the list.
Alive == {"listed"} \cup Running \cup {"done"}

-----------------------------------------------------------------------------
(* Signals and clients                                                     *)

\* poll returns with EINTR; every other call goes on.
Woken == IF pc = "poll" THEN "check" ELSE pc

SigTerm ==
    /\ pc # "exited"
    /\ terms < MaxTerms
    /\ terms' = terms + 1
    /\ quit' = [quit EXCEPT ![config] = TRUE]
    /\ pc' = Woken
    /\ UNCHANGED <<backlog, at, childs, tries, config, idle, limit, sighup, threadVars, reloads, termVars>>

SigUsr1 ==
    /\ pc # "exited"
    /\ reloads < MaxReloads
    /\ reloads' = reloads + 1
    /\ sighup' = TRUE
    /\ pc' = Woken
    /\ UNCHANGED <<backlog, at, childs, tries, configVars, threadVars, terms, termVars>>

\* A client connects; the kernel queues it.
Call(c) ==
    /\ thread[c] = "away"
    /\ thread' = [thread EXCEPT ![c] = "calling"]
    /\ backlog' = Append(backlog, c)
    /\ UNCHANGED <<pc, at, childs, tries, configVars, sighup, limited,
                   signalVars, termVars>>

-----------------------------------------------------------------------------
(* The main loop                                                           *)

\* Where the loop goes on, and where it goes from there.
LoopTopUnchecked == "collect"
LoopTop == "check"
BeginUnlessFull == IF Len(childs) >= limit[config] THEN "check" ELSE "collect"
Begin == "collect"

\* Whether no more connections are taken.
ListFull == Len(childs) >= limit[config]

Check ==
    /\ pc = "check"
    /\ at' = 1
    /\ pc' = IF quit[config] THEN "kill" ELSE Begin
    /\ UNCHANGED <<backlog, childs, tries, configVars, sighup, threadVars, signalVars, termVars>>

\* The list without its child number i.
Delete(i) == RemoveAt(childs, i)

\* One child in collect_threads.
CollectThread ==
    /\ pc \in {"collect", "gather"}
    /\ at <= Len(childs)
    /\ LET c == childs[at]
       IN IF thread[c] = "done"
          THEN /\ childs' = Delete(at)
               /\ thread' = [thread EXCEPT ![c] = "freed"]
               /\ UNCHANGED at
          ELSE /\ at' = at + 1
               /\ UNCHANGED <<backlog, childs, thread>>
    /\ UNCHANGED <<pc, backlog, tries, configVars, sighup, limited, signalVars, termVars>>

\* Behind collect_threads: with a full list the loop sleeps for 16 microseconds
\* and goes on, otherwise a reload that was asked for comes first.
Collected ==
    /\ pc = "collect"
    /\ at > Len(childs)
    /\ pc' = IF ListFull THEN LoopTop
             ELSE IF sighup THEN "reload" ELSE "poll"
    /\ UNCHANGED <<backlog, at, childs, tries, configVars, sighup, threadVars, signalVars, termVars>>

\* get_next_config.
NextConfig(s) == 1 - s

\* The file is read into the other configuration, or is found wanting.
ReloadFile ==
    /\ pc = "reload"
    /\ quit' = [quit EXCEPT ![NextConfig(config)] = FALSE]
    /\ idle' = [idle EXCEPT ![NextConfig(config)] = TRUE]
    /\ \E m \in Limits : limit' = [limit EXCEPT ![NextConfig(config)] = m]
    /\ pc' \in {"free", "reloaded"}
    /\ UNCHANGED <<backlog, at, childs, tries, config, sighup, threadVars, signalVars, termVars>>

\* free_config fills the configuration that is still in use with zeros; a flag
\* set in it is gone, and one set before the pointer moves is left behind.
FreeConfig ==
    /\ pc = "free"
    /\ quit' = [quit EXCEPT ![config] = FALSE]
    /\ idle' = [idle EXCEPT ![config] = FALSE]
    /\ limit' = [limit EXCEPT ![config] = 0]
    /\ lost' = (lost \/ quit[config])
    /\ pc' = "swap"
    /\ UNCHANGED <<backlog, at, childs, tries, config, sighup, threadVars, signalVars, late>>

SwapConfig ==
    /\ pc = "swap"
    /\ config' = NextConfig(config)
    /\ lost' = (lost \/ quit[config])
    /\ pc' = "reloaded"
    /\ UNCHANGED <<backlog, at, childs, tries, quit, idle, limit, sighup, threadVars, signalVars,
                   late>>

Reloaded ==
    /\ pc = "reloaded"
    /\ sighup' = FALSE
    /\ pc' = "poll"
    /\ UNCHANGED <<backlog, at, childs, tries, configVars, threadVars, signalVars, termVars>>

PollReturns ==
    /\ pc = "poll"
    /\ backlog # <<>>
    /\ pc' = "accept"
    /\ UNCHANGED <<backlog, at, childs, tries, configVars, sighup, threadVars, signalVars, termVars>>

\* A connection is accepted and its child goes into the list; without memory for
\* the child it is closed again.
Accept ==
    /\ pc = "accept"
    /\ LET c == Head(backlog)
       IN \/ /\ childs' = Append(childs, c)
             /\ thread' = [thread EXCEPT ![c] = "listed"]
             /\ pc' = "create"
          \/ /\ thread' = [thread EXCEPT ![c] = "freed"]
             /\ pc' = LoopTop
             /\ UNCHANGED childs
    /\ backlog' = Tail(backlog)
    /\ late' = IF terms > 0 THEN late + 1 ELSE late
    /\ UNCHANGED <<at, tries, configVars, sighup, limited, signalVars, lost>>

\* accept fails: there is no descriptor, or the client has gone.
AcceptFails ==
    /\ pc = "accept"
    /\ \/ UNCHANGED <<backlog, thread>>
       \/ /\ backlog' = Tail(backlog)
          /\ thread' = [thread EXCEPT ![Head(backlog)] = "freed"]
    /\ pc' = LoopTop
    /\ UNCHANGED <<at, childs, tries, configVars, sighup, limited, signalVars, termVars>>

\* The list once the child that was added last gets no thread.
LeaveLast == childs
DropLast == Front(childs)

\* The child gets its thread, or leaves the list and is freed.
Create ==
    /\ pc = "create"
    /\ \/ /\ thread' = [thread EXCEPT ![Last(childs)] = "new"]
          /\ UNCHANGED childs
       \/ /\ thread' = [thread EXCEPT ![Last(childs)] = "freed"]
          /\ childs' = DropLast
    /\ pc' = LoopTop
    /\ UNCHANGED <<backlog, at, tries, configVars, sighup, limited, signalVars, termVars>>

-----------------------------------------------------------------------------
(* The end                                                                 *)

\* What SIGCHLD does to a thread: a poll it meets fails, and so does a read from
\* a socket with a timeout; a connect may fail.  A thread that is between two
\* calls, or anywhere else, does not notice.
Interrupted(c) ==
    {thread[c]} \cup
    IF \/ thread[c] \in {"poll", "dial"}
       \/ thread[c] \in {"head", "answer"} /\ limited[c]
    THEN {"finish"} ELSE {}

KillThread ==
    /\ pc = "kill"
    /\ at <= Len(childs)
    /\ at' = at + 1
    /\ \E t \in Interrupted(childs[at]) :
          /\ thread' = [thread EXCEPT ![childs[at]] = t]
          /\ limited' = [limited EXCEPT ![childs[at]] = t # "finish" /\ @]
    /\ UNCHANGED <<pc, backlog, childs, tries, configVars, sighup, signalVars, termVars>>

\* They are given 8 milliseconds.
Nap ==
    /\ pc = "kill"
    /\ at > Len(childs)
    /\ at' = 1
    /\ pc' = "gather"
    /\ UNCHANGED <<backlog, childs, tries, configVars, sighup, threadVars, signalVars, termVars>>

\* Whether it is tried again, and how often it was then.
OnceMore == Len(childs) # 0 /\ tries <= MaxTries
Again == Len(childs) # 0 /\ tries < MaxTries
Uncounted == tries
Counted == tries + 1

Gathered ==
    /\ pc = "gather"
    /\ at > Len(childs)
    /\ at' = 1
    /\ IF Again
       THEN tries' = Counted /\ pc' = "kill"
       ELSE UNCHANGED tries /\ pc' = "close"
    /\ UNCHANGED <<backlog, childs, configVars, sighup, threadVars, signalVars, termVars>>

\* The sockets, the list and the configuration go, whoever still uses them, and
\* with the process all the threads.
Close ==
    /\ pc = "close"
    /\ childs' = <<>>
    /\ quit' = [quit EXCEPT ![config] = FALSE]
    /\ idle' = [idle EXCEPT ![config] = FALSE]
    /\ limit' = [limit EXCEPT ![config] = 0]
    /\ pc' = "exited"
    /\ UNCHANGED <<backlog, at, tries, config, sighup, threadVars, signalVars, termVars>>

Main ==
    \/ Check \/ CollectThread \/ Collected
    \/ ReloadFile \/ FreeConfig \/ SwapConfig \/ Reloaded
    \/ PollReturns \/ Accept \/ AcceptFails \/ Create
    \/ KillThread \/ Nap \/ Gathered \/ Close

-----------------------------------------------------------------------------
(* The threads                                                             *)

\* The thread goes from one place to another, where it waits for as long as
\* the configuration says when it looks there, or does not wait.
Goes(c, from, to, timeout) ==
    /\ pc # "exited"
    /\ thread[c] = from
    /\ thread' = [thread EXCEPT ![c] = to]
    /\ limited' = [limited EXCEPT ![c] = timeout]
    /\ UNCHANGED <<pc, backlog, at, childs, tries, configVars, sighup, signalVars, termVars>>

\* The socket of the client gets its timeout, and the request is read.
Begins(c) == Goes(c, "new", "head", idle[config])

\* The client sends its request, or closes.
Speaks(c) == Goes(c, "head", "dial", FALSE) \/ Goes(c, "head", "finish", FALSE)

\* The server is connected, with the timeout of the moment for its socket, or it
\* fails.  Behind a CONNECT there is nothing to read before relay_connection.
Dials(c) ==
    \/ Goes(c, "dial", "answer", idle[config])
    \/ Goes(c, "dial", "poll", idle[config])
    \/ Goes(c, "dial", "finish", FALSE)

\* The server answers, or closes; relay_connection waits with the timeout of the
\* moment.
Answers(c) ==
    \/ Goes(c, "answer", "poll", idle[config])
    \/ Goes(c, "answer", "finish", FALSE)

\* The read of the request or of the answer times out.
ReadTimeout(c) ==
    /\ limited[c]
    /\ Goes(c, "head", "finish", FALSE) \/ Goes(c, "answer", "finish", FALSE)

\* There is something to relay; relay_connection waits again.
Relays(c) == Goes(c, "poll", "poll", idle[config])

\* Both sides are done or silent; with a timeout of 0 poll returns at once.
RelayEnds(c) == Goes(c, "poll", "finish", FALSE)

\* handle_connection has returned.
Ends(c) == Goes(c, "finish", "done", FALSE)

Thread(c) ==
    \/ Begins(c) \/ ReadTimeout(c) \/ Dials(c) \/ RelayEnds(c) \/ Ends(c)
    \/ c \notin Silent /\ (Speaks(c) \/ Answers(c))

Next ==
    \/ SigTerm \/ SigUsr1
    \/ Main
    \/ \E c \in Conns : Call(c) \/ Thread(c) \/ Speaks(c) \/ Answers(c) \/ Relays(c)

\* The main thread and the threads run.  Nothing is asked of silent peers, but
\* what is relayed comes to an end, if only by the timeout.  accept does not fail
\* for ever.
Fairness ==
    /\ WF_vars(Main)
    /\ SF_vars(Accept)
    /\ \A c \in Conns : WF_vars(Thread(c))

Spec == Init /\ [][Next]_vars /\ Fairness

-----------------------------------------------------------------------------
\* The values each variable may take; the list is never longer than the largest
\* maxclients, whatever the configurations say.
TypeOK ==
    /\ pc \in {"check", "collect", "reload", "free", "swap", "reloaded", "poll", "accept",
               "create", "kill", "gather", "close", "exited"}
    /\ backlog \in Seq(Conns)
    /\ at \in 1 .. MaxClients + 1
    /\ childs \in Seq(Conns) /\ Len(childs) <= MaxClients
    /\ tries \in 0 .. MaxTries
    /\ config \in Slots
    /\ quit \in [Slots -> BOOLEAN] /\ idle \in [Slots -> BOOLEAN]
    /\ limit \in [Slots -> 0 .. MaxClients]
    /\ sighup \in BOOLEAN
    /\ thread \in [Conns -> Alive \cup {"away", "calling", "freed"}]
    /\ limited \in [Conns -> BOOLEAN]
    /\ reloads \in 0 .. MaxReloads /\ terms \in 0 .. MaxTerms
    /\ late \in Nat /\ lost \in BOOLEAN

\* Until the end the list holds every connection whose thread is to be created,
\* runs or is to be joined, once, and no other: no child is freed under its
\* thread, or lost, and none without a thread stays behind.
ListIsTheThreads ==
    pc # "exited" =>
        /\ IsInjective(childs)
        /\ ToSet(childs) = {c \in Conns : thread[c] \in Alive}
        /\ \A c \in Conns : thread[c] = "listed" => pc = "create" /\ c = Last(childs)

\* Of all the connections that come after a SIGTERM at most one is accepted,
\* unless a reload has thrown the flag away that the signal set.
OneAfterTerm == lost \/ late <= 1

\* Every child there is room for is one whose peer is silent and whose read has
\* no timeout, for it began while a reload had the timeout at 0.
Crowded ==
    /\ ListFull
    /\ \A i \in 1 .. Len(childs) :
          /\ childs[i] \in Silent /\ ~limited[childs[i]]
          /\ thread[childs[i]] \in {"head", "answer"}

\* A connection is accepted in the end, however many there are, although those
\* before it are not told to hurry, unless all the room is taken for good by
\* connections a reload has left without a timeout.
AcceptsAgain ==
    \A c \in Conns : thread[c] = "calling" ~> (thread[c] # "calling" \/ pc = "exited" \/ []Crowded)

\* A SIGTERM ends the process, whatever the threads do, unless a reload throws its
\* flag away, or it comes between the check of the flag and the poll that
\* follows and nobody calls any more.
TermEnds == terms > 0 ~> (pc = "exited" \/ lost \/ [](pc = "poll" /\ backlog = <<>>))

\* A connection that is relayed waits for its peers for some time: a reload
\* closes none of them ("without dropping active connections").
ReloadDropsNone == \A c \in Conns : thread[c] = "poll" => limited[c]
=============================================================================
