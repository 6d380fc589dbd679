----------------------------- MODULE CommandFeed -----------------------------
(***************************************************************************)
(* What the Telegram side promises: an instance takes only messages that   *)
(* are meant for it and, as long as its update offset could be stored,     *)
(* takes them in the order they were sent and none twice, whatever polls   *)
(* fail and whenever it is killed.  Module TelegramPolling implements it.  *)
(***************************************************************************)
EXTENDS Naturals, Sequences

CONSTANTS
  Instances,
  Messages,
  Audience   \* the instances a message is meant for

VARIABLES
  log,       \* all messages to the bot so far
  queued,    \* the messages each instance has taken, by their position in log
  exact      \* the instances whose offset was always stored

feedVars == <<log, queued, exact>>

Newer(i, n) == \A k \in DOMAIN queued[i] : queued[i][k] < n

Init == log = << >> /\ queued = [i \in Instances |-> << >>] /\ exact = Instances

Send == /\ \E m \in Messages : log' = Append(log, m)
        /\ UNCHANGED <<queued, exact>>

Take(i) == /\ \E n \in DOMAIN log :
                /\ i \in Audience[log[n]]
                /\ i \in exact => Newer(i, n)
                /\ queued' = [queued EXCEPT ![i] = Append(@, n)]
           /\ UNCHANGED <<log, exact>>

Withdraw(i) == exact' = exact \ {i} /\ UNCHANGED <<log, queued>>

Next == Send \/ \E i \in Instances : Take(i) \/ Withdraw(i)

Spec == Init /\ [][Next]_feedVars
=============================================================================
