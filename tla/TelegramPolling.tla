--------------------------- MODULE TelegramPolling ---------------------------
(***************************************************************************)
(* The Telegram listeners of several supervisors that share a bot token    *)
(* (telegram.py; set up by main.py run_supervisor; hurried by scheduler.py *)
(* through poll_urgency).  The server keeps the updates above the highest  *)
(* offset anybody asked beyond; each instance keeps its own offset file.   *)
(*                                                                         *)
(* An update is its position in log.  Requests take no time of the model's *)
(* clock; waiting and failing do.                                          *)
(***************************************************************************)
EXTENDS CommandParser, FiniteSets

CONSTANTS
  Instances,
  Name,            \* the configured name of each instance
  Chat,            \* its telegram_chat_id
  Senders,         \* the senders it accepts
  Messages,        \* [chat, sender, text]
  Interval,        \* telegram_poll_interval
  UrgentInterval,  \* the 3 s while a two-factor prompt waits
  Backoff,         \* a failed request: up to 15 s, and 5 s of sleep
  MaxUpdates,      \* bound on the messages sent
  MaxTaken,        \* bound: no store fails once so many commands were queued
  Events           \* which of kill, error, nostore and prompt each instance meets

ASSUME PollingAssumption ==
  Interval \in Nat /\ UrgentInterval \in Nat /\ Backoff \in Nat

ASSUME TextsAreWords ==
  /\ \A m \in Messages : m.text \in Seq(STRING)
  /\ \A i \in Instances : Name[i] \in Seq(STRING)

\* The names tell the instances apart, and from the words of a bare command.
ASSUME NamesApart ==
  \A i, j \in Instances : i # j =>
    /\ Name[i] # Name[j]
    /\ Name[j] = << >> => Hear(<< >>, Name[i]) = Ignored

VARIABLES
  log, confirmed,  \* the server: updates, and how many of them it dropped
  age,             \* how long an update has been waited for since a good poll, up to MaxAge
  pc,              \* off, wait, backoff, store, write, queue
  offset,          \* the offset file; 0 stands for missing or unreadable
  batch,           \* the updates received and not yet queued
  timer,           \* what is left of the wait or the back-off
  urgent,          \* poll_urgency
  queued,          \* history: the updates whose commands were put in the queue
  exact,           \* history: instances whose offset was always stored
  rivals,          \* history: who was served since this instance was
  excused,         \* history: overtaken by a rival, or killed with a batch
  misses,          \* history: failed polls since the last good one, up to 2
  urgentFor        \* history: how long urgency has been set

server == <<log, confirmed, age>>
listener == <<pc, offset, batch, timer>>
history == <<queued, exact, rivals, excused, misses, urgentFor>>
vars == <<server, listener, urgent, history>>

Larger(m, n) == IF m > n THEN m ELSE n
\* The interval may be set below the urgent one.
LongestPause == Larger(Interval, UrgentInterval)
MaxAge == 2 * LongestPause + Backoff + 1

Nothing == [lo |-> 1, hi |-> 0]
Held(i) == batch[i].lo .. batch[i].hi
Accepts(i, m) ==
  /\ m.chat = Chat[i] /\ m.sender \in Senders[i]
  /\ Hear(Name[i], m.text) # Ignored

Taken(i) == {queued[i][k] : k \in DOMAIN queued[i]}
Meant(i) == {n \in DOMAIN log : Accepts(i, log[n])}

\* Messages the instance could still get and has not got.
Waiting(i) == {n \in Meant(i) : n > confirmed /\ n > offset[i]} \ (Taken(i) \union Held(i))

\* The listener ------------------------------------------------------------------

\* _load_offset + 1.  Mutant: the last update seen is asked for again.
AskAgain(i) == offset[i]
Requested(i) == offset[i] + 1

\* The server drops everything below the offset it is asked for, for good.
Dropped(i) == Larger(confirmed, Requested(i) - 1)
Confirm(i) ==
  /\ confirmed' = Dropped(i)
  /\ excused' = [k \in Instances |-> excused[k] \/ (k # i /\ i \in rivals[k])]

PollOk(i) ==
  /\ pc[i] = "wait" /\ timer[i] = 0
  /\ Confirm(i)
  /\ IF Dropped(i) < Len(log)
     THEN /\ batch' = [batch EXCEPT ![i] = [lo |-> Dropped(i) + 1, hi |-> Len(log)]]
          /\ pc' = [pc EXCEPT ![i] = "store"]
     ELSE batch' = [batch EXCEPT ![i] = Nothing] /\ pc' = [pc EXCEPT ![i] = "queue"]
  /\ rivals' = [k \in Instances |-> IF k = i THEN {} ELSE rivals[k] \union {i}]
  /\ misses' = [misses EXCEPT ![i] = 0]
  /\ UNCHANGED <<log, age, offset, timer, urgent, queued, exact, urgentFor>>

\* The request or its answer is lost, or two polls collide.
PollFails(i) ==
  /\ "error" \in Events[i]
  /\ pc[i] = "wait" /\ timer[i] = 0
  /\ Confirm(i) \/ UNCHANGED <<confirmed, excused>>
  /\ pc' = [pc EXCEPT ![i] = "backoff"]
  /\ timer' = [timer EXCEPT ![i] = Backoff]
  /\ misses' = [misses EXCEPT ![i] = IF @ < 2 THEN @ + 1 ELSE @]
  /\ UNCHANGED <<log, age, offset, batch, urgent, queued, exact, rivals, urgentFor>>

\* write_text truncates the file before it writes.
Truncate(i) ==
  /\ pc[i] = "store"
  /\ offset' = [offset EXCEPT ![i] = 0]
  /\ pc' = [pc EXCEPT ![i] = "write"]
  /\ UNCHANGED <<server, batch, timer, urgent, history>>

\* Mutants: the stored offset is the newest update, or the next one expected.
StoreNewest(i) == Len(log)
StoreNext(i) == batch[i].hi + 1
Stored(i) == batch[i].hi

Write(i) ==
  /\ pc[i] = "write"
  /\ offset' = [offset EXCEPT ![i] = Stored(i)]
  /\ pc' = [pc EXCEPT ![i] = "queue"]
  /\ UNCHANGED <<server, batch, timer, urgent, history>>

\* An OSError of either step is only logged.
StoreFails(i) ==
  /\ "nostore" \in Events[i] /\ Len(queued[i]) < MaxTaken
  /\ pc[i] \in {"store", "write"}
  /\ pc' = [pc EXCEPT ![i] = "queue"]
  /\ exact' = exact \ {i}
  /\ UNCHANGED <<server, offset, batch, timer, urgent, queued, rivals, excused, misses,
                 urgentFor>>

Queue(i) ==
  /\ pc[i] = "queue" /\ Held(i) # {}
  /\ LET n == batch[i].lo
     IN queued' = IF Accepts(i, log[n]) THEN [queued EXCEPT ![i] = Append(@, n)] ELSE queued
  /\ batch' = [batch EXCEPT ![i] = [lo |-> @.lo + 1, hi |-> @.hi]]
  /\ UNCHANGED <<server, pc, offset, timer, urgent, exact, rivals, excused, misses,
                 urgentFor>>

\* Mutants: a longer wait, or one that ignores the urgency.
LongerPause(i) == IF urgent[i] THEN UrgentInterval ELSE Interval + 1
SamePause(i) == Interval
Pause(i) == IF urgent[i] THEN UrgentInterval ELSE Interval

BeginWait(i) ==
  /\ \/ pc[i] = "queue" /\ Held(i) = {}
     \/ pc[i] = "backoff" /\ timer[i] = 0
  /\ pc' = [pc EXCEPT ![i] = "wait"]
  /\ timer' = [timer EXCEPT ![i] = Pause(i)]
  /\ batch' = [batch EXCEPT ![i] = Nothing]
  /\ UNCHANGED <<server, offset, urgent, history>>

\* The rest of the instance --------------------------------------------------------

\* run_supervisor starts the listener, which polls at once.
Start(i) ==
  /\ pc[i] = "off"
  /\ pc' = [pc EXCEPT ![i] = "wait"]
  /\ UNCHANGED <<server, offset, batch, timer, urgent, history>>

Kill(i) ==
  /\ "kill" \in Events[i] /\ pc[i] # "off"
  /\ pc' = [pc EXCEPT ![i] = "off"]
  /\ batch' = [batch EXCEPT ![i] = Nothing]
  /\ timer' = [timer EXCEPT ![i] = 0]
  /\ urgent' = [urgent EXCEPT ![i] = FALSE]
  /\ excused' = [excused EXCEPT ![i] = @ \/ Held(i) # {}]
  /\ misses' = [misses EXCEPT ![i] = 2]
  /\ urgentFor' = [urgentFor EXCEPT ![i] = 0]
  /\ UNCHANGED <<server, offset, queued, exact, rivals>>

\* The supervisor notices a prompt, and resets the flow.
SetUrgency(i) ==
  /\ "prompt" \in Events[i] /\ pc[i] # "off"
  /\ urgent' = [urgent EXCEPT ![i] = ~@]
  /\ urgentFor' = [urgentFor EXCEPT ![i] = 0]
  /\ UNCHANGED <<server, listener, queued, exact, rivals, excused, misses>>

\* The users, and the clock ----------------------------------------------------------

Send ==
  /\ Len(log) < MaxUpdates
  /\ \E m \in Messages : log' = Append(log, m)
  /\ age' = Append(age, 0)
  /\ UNCHANGED <<confirmed, listener, urgent, history>>

Resting(i) == pc[i] = "off" \/ (pc[i] \in {"wait", "backoff"} /\ timer[i] > 0)

Clock ==
  /\ \A i \in Instances : Resting(i)
  /\ timer' = [i \in Instances |-> IF timer[i] > 0 THEN timer[i] - 1 ELSE 0]
  /\ age' = [n \in DOMAIN age |->
               IF \A i \in Instances : misses[i] = 2 \/ n \notin Waiting(i) THEN 0
               ELSE IF age[n] < MaxAge THEN age[n] + 1 ELSE MaxAge]
  /\ urgentFor' = [i \in Instances |-> IF urgent[i] /\ urgentFor[i] <= Interval
                                       THEN urgentFor[i] + 1 ELSE urgentFor[i]]
  /\ UNCHANGED <<log, confirmed, pc, offset, batch, urgent, queued, exact, rivals,
                 excused, misses>>

\* Specification -----------------------------------------------------------------------

Init ==
  /\ log = << >> /\ confirmed = 0 /\ age = << >>
  /\ pc = [i \in Instances |-> "off"]
  /\ offset = [i \in Instances |-> 0]
  /\ batch = [i \in Instances |-> Nothing]
  /\ timer = [i \in Instances |-> 0]
  /\ urgent = [i \in Instances |-> FALSE]
  /\ queued = [i \in Instances |-> << >>]
  /\ exact = Instances
  /\ rivals = [i \in Instances |-> {}]
  /\ excused = [i \in Instances |-> FALSE]
  /\ misses = [i \in Instances |-> 2]
  /\ urgentFor = [i \in Instances |-> 0]

Listen(i) ==
  PollOk(i) \/ PollFails(i) \/ Truncate(i) \/ Write(i) \/ StoreFails(i) \/ Queue(i) \/ BeginWait(i)

Next ==
  \/ \E i \in Instances : Listen(i) \/ Start(i) \/ Kill(i) \/ SetUrgency(i)
  \/ Send \/ Clock

Spec == Init /\ [][Next]_vars

-------------------------------------------------------------------------------
\* Properties

\* Every variable has its type; no offset is ahead of the updates sent, as a
\* later message would be skipped (telegram.py's offset file and batch).
TypeOK ==
  /\ log \in Seq(Messages) /\ confirmed \in 0 .. Len(log)
  /\ age \in Seq(0 .. MaxAge) /\ Len(age) = Len(log)
  /\ pc \in [Instances -> {"off", "wait", "backoff", "store", "write", "queue"}]
  /\ offset \in [Instances -> 0 .. Len(log)]
  /\ batch \in [Instances -> [lo : 1 .. Len(log) + 1, hi : 0 .. Len(log)]]
  /\ timer \in [Instances -> 0 .. MaxAge] /\ urgent \in [Instances -> BOOLEAN]
  /\ queued \in [Instances -> Seq(1 .. Len(log))] /\ exact \subseteq Instances
  /\ rivals \in [Instances -> SUBSET Instances] /\ excused \in [Instances -> BOOLEAN]
  /\ misses \in [Instances -> 0 .. 2] /\ urgentFor \in [Instances -> 0 .. Interval + 1]

\* The listeners keep the promise of CommandFeed: no command of a stranger, none
\* out of order and none twice, although the offset is stored by truncation
\* before the texts are queued and a kill may come between any two steps.
Audience == [m \in Messages |-> {i \in Instances : Accepts(i, m)}]
Feed == INSTANCE CommandFeed
FeedKept == Feed!Spec

\* "Instances with similar polling cadences each see every message"
\* (poll_updates): a message is dropped by the server before an instance has
\* it only if another one was served and came back between two of its polls, or
\* if the instance was killed with the message in hand.
Delivered ==
  \A i \in Instances :
    ~excused[i] => {n \in Meant(i) : n <= confirmed} \subseteq Taken(i) \union Held(i)

\* No two instances act on the same command, though both read it
\* (run_supervisor's require_prefix: "without all of them reacting").
OneTaker == \A i, j \in Instances : i # j => Taken(i) \cap Taken(j) = {}

\* A message worded as the help says is understood as the help says, by every
\* instance whose name is a single word (_send_help against parse_command).
HelpUnderstood ==
  \A i \in Instances, n \in DOMAIN log : Len(Name[i]) <= 1 =>
    \A line \in Advertised(Name[i]) :
      log[n].text = line.text => Hear(Name[i], log[n].text) = line.command

\* A command waits no longer than the poll interval, or the urgent one where that
\* is the longer, plus such a wait and a back-off if one poll failed (the loop of
\* TelegramListener.run).
CommandLatency ==
  \A i \in Instances : misses[i] < 2 =>
    \A n \in Waiting(i) : age[n] <= LongestPause + misses[i] * (LongestPause + Backoff)

\* Once urgency has lasted an interval a code waits no longer than the urgent
\* interval; before that the listener may still sleep a full one.
UrgentLatency ==
  \A i \in Instances : urgentFor[i] > Interval /\ misses[i] = 0 =>
    \A n \in Waiting(i) : age[n] <= UrgentInterval
=============================================================================
