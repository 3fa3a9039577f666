----------------------------- MODULE MCRedisRecv -----------------------------
(***************************************************************************)
(* Clients and scripts for the runs of RedisRecv.                          *)
(***************************************************************************)
EXTENDS RedisRecv

CONSTANTS c1, c2

\* One client stores twice and reads; the other reads, and stores.
SetGetScript == c1 :> <<"set", "set", "get">> @@ c2 :> <<"get", "set">>

\* Requests that come in pieces.
SplitScript == c1 :> <<"set", "set", "get">> @@ c2 :> <<"empty">>

\* Requests without a long argument.
ShortScript == c1 :> <<"block", "get", "ping">> @@ c2 :> <<"get", "block">>

\* The scripts below show the disagreements of README, section 3; no run of the
\* project checks them.

\* An empty line, before a PING (protocol.tcl, "Handle an empty query").
EmptyScript == c1 :> <<"empty", "ping">>

\* A value is stored and read back (string.tcl, "Very big payload in GET/SET").
ReadBackScript == c1 :> <<"set", "get">>

\* Two blocking requests in a row (protocol.tcl, "Regression for a crash with
\* blocking ops and pipelining").
BlockingScript == c1 :> <<"block", "block">>

\* A script that is long enough to be copied by Copier.
EvalScript == c1 :> <<"eval">>

\* Two values in turn (string.tcl, "Very big payload random access").
SetSetScript == c1 :> <<"set", "set">>
=============================================================================
