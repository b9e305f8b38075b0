------------------------------- MODULE Alerts -------------------------------
(***************************************************************************)
(* One alert of options.alerts (src/host/notify.rs; run_alert and          *)
(* deliver_all in duckext/src/serve.rs).  The notify thread checks it on   *)
(* its schedule, the session that started the server whenever it likes: a  *)
(* check runs the alert's panel, compares its rows with what the alert     *)
(* remembers, tells every channel, and remembers what it told, in memory   *)
(* and in a file that a restarted server reads.  A channel may fail, or    *)
(* take the message and fail to say so.                                    *)
(***************************************************************************)
EXTENDS Naturals

CONSTANTS
  Checker,     \* threads that check the alert
  Channels,    \* number of its channels, in the order deliver_all takes them
  Hash,        \* hashes of the rows its panel may return
  NoRows,      \* the panel returns none
  MaxExits     \* model bound: restarts of the server

VARIABLES
  rows,     \* what the panel returns now
  memory,   \* AlertState: the hash last told about (NoRows: not firing), and
            \* whether repeat_after has passed since last_sent
  saved,    \* the same in the file options.notify.state
  check,    \* per checker: where run_alert is, the rows it saw, the channel
            \* it is at and whether one failed
  heard,    \* history: per channel, the rows of its last message
  quiet,    \* history: the last check found no rows and nothing to say
  exits     \* restarts so far

vars == <<rows, memory, saved, check, heard, quiet, exits>>

Rows == Hash \cup {NoRows}
Forgotten == [hash |-> NoRows, old |-> FALSE]
NoCheck == [pc |-> "idle", seen |-> NoRows, next |-> 1, bad |-> FALSE]

Init ==
  /\ rows = NoRows
  /\ memory = Forgotten /\ saved = Forgotten
  /\ check = [c \in Checker |-> NoCheck]
  /\ heard = [i \in 1..Channels |-> NoRows]
  /\ quiet = FALSE
  /\ exits = 0

Done(c) == check' = [check EXCEPT ![c] = NoCheck]

-----------------------------------------------------------------------------

\* The panel runs as the alert's principal, or fails, which ends the check.
Evaluate(c) ==
  /\ check[c].pc = "idle"
  /\ check' = [check EXCEPT ![c] = [NoCheck EXCEPT !.pc = "decide", !.seen = rows]]
  /\ quiet' = FALSE
  /\ UNCHANGED <<rows, memory, saved, heard, exits>>

\* decide: rows that appeared, changed or are gone; the same rows again when
\* repeat_after has passed.
Tells(seen) ==
  \/ seen # memory.hash
  \/ seen # NoRows /\ memory.old

Decide(c) ==
  /\ check[c].pc = "decide"
  /\ IF Tells(check[c].seen)
     THEN /\ check' = [check EXCEPT ![c].pc = "send"]
          /\ UNCHANGED quiet
     ELSE /\ Done(c)
          /\ quiet' = (check[c].seen = NoRows)
  /\ UNCHANGED <<rows, memory, saved, heard, exits>>

\* No message: the attachment fails or is too large, or max_per_hour is used up.
Refused(c) ==
  /\ check[c].pc = "send" /\ check[c].next = 1
  /\ Done(c)
  /\ UNCHANGED <<rows, memory, saved, heard, quiet, exits>>

\* The next channel gets the message, or the send fails, or both.
Send(c) ==
  /\ check[c].pc = "send" /\ check[c].next <= Channels
  /\ \E got, ok \in BOOLEAN :
       /\ ok => got
       /\ heard' = IF got THEN [heard EXCEPT ![check[c].next] = check[c].seen]
                   ELSE heard
       /\ check' = [check EXCEPT ![c].next = @ + 1, ![c].bad = @ \/ ~ok]
  /\ UNCHANGED <<rows, memory, saved, quiet, exits>>

\* Every channel was told: remembered under the mutex of alert_states, where
\* save_states may fail.  After a failed send the old state stays.
Remember(c) ==
  /\ check[c].pc = "send" /\ check[c].next > Channels
  /\ LET now == [hash |-> check[c].seen, old |-> FALSE] IN
       IF check[c].bad
       THEN UNCHANGED <<memory, saved>>
       ELSE /\ memory' = now
            /\ saved' = now \/ UNCHANGED saved
  /\ Done(c)
  /\ UNCHANGED <<rows, heard, quiet, exits>>

-----------------------------------------------------------------------------

\* The data changes.
Change ==
  /\ rows' \in Rows \ {rows}
  /\ quiet' = FALSE
  /\ UNCHANGED <<memory, saved, check, heard, exits>>

\* repeat_after has passed since the message last remembered.
Age ==
  /\ memory' = [memory EXCEPT !.old = TRUE]
  /\ saved' = [saved EXCEPT !.old = TRUE]
  /\ UNCHANGED <<rows, check, heard, quiet, exits>>

\* The server ends, in the middle of checks, and starts again: load_states.
Restart ==
  /\ exits < MaxExits
  /\ exits' = exits + 1
  /\ memory' = saved
  /\ check' = [c \in Checker |-> NoCheck]
  /\ UNCHANGED <<rows, saved, heard, quiet>>

Next ==
  \/ Change \/ Age \/ Restart
  \/ \E c \in Checker :
       Evaluate(c) \/ Decide(c) \/ Refused(c) \/ Send(c) \/ Remember(c)

Spec == Init /\ [][Next]_vars

-----------------------------------------------------------------------------

(* "A message goes out when the rows appear (FIRING) ... and once when they*)
(* are gone (RESOLVED)" (docs/secure-serving.md:1559): when a check finds  *)
(* no rows and has nothing to say, nobody's last message says FIRING.      *)
ResolvedTold == quiet => \A i \in 1..Channels : heard[i] = NoRows
=============================================================================
