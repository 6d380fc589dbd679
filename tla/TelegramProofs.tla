---------------------------- MODULE TelegramProofs ----------------------------
(***************************************************************************)
(* Theorems about TelegramPolling, for every number of instances, every    *)
(* message and every fault.                                                *)
(***************************************************************************)
EXTENDS TelegramPolling, SequenceTheorems, TLAPS

-------------------------------------------------------------------------------
\* Types

\* The larger of two numbers is one of them and below neither.
LEMMA LargerFacts ==
  ASSUME NEW m \in Nat, NEW n \in Nat
  PROVE  Larger(m, n) \in Nat /\ Larger(m, n) >= m /\ Larger(m, n) >= n
         /\ Larger(m, n) \in {m, n}
BY DEF Larger

\* What the server has dropped after a request: no less than before, everything
\* the instance has stored, and nothing that was not sent.
LEMMA DroppedFacts ==
  ASSUME TypeOK, NEW i \in Instances
  PROVE  /\ Dropped(i) \in 0 .. Len(log) /\ Dropped(i) \in Nat
         /\ Dropped(i) >= confirmed /\ Dropped(i) >= offset[i]
         /\ Dropped(i) \in {confirmed, offset[i]}
BY DEF TypeOK, Dropped, Requested, Larger

LEMMA WiderSequence ==
  ASSUME NEW S, NEW T, S \subseteq T, NEW s \in Seq(S)
  PROVE  s \in Seq(T)
OBVIOUS

\* The positions an instance works with.
LEMMA PositionFacts ==
  ASSUME TypeOK, NEW i \in Instances
  PROVE  confirmed \in Nat /\ offset[i] \in Nat /\ batch[i].lo \in Nat /\ batch[i].hi \in Nat
<1>1. Len(log) \in Nat /\ confirmed \in 0 .. Len(log) /\ offset[i] \in 0 .. Len(log)
  BY DEF TypeOK
<1>2. batch[i] \in [lo : 1 .. Len(log) + 1, hi : 0 .. Len(log)]
  BY DEF TypeOK
<1> QED BY <1>1, <1>2

\* All but the server's variables are indexed by the instances.
Indexed ==
  /\ DOMAIN pc = Instances /\ DOMAIN offset = Instances /\ DOMAIN batch = Instances
  /\ DOMAIN timer = Instances /\ DOMAIN urgent = Instances /\ DOMAIN queued = Instances
  /\ DOMAIN misses = Instances /\ DOMAIN urgentFor = Instances

LEMMA IndexedType == TypeOK => Indexed
BY DEF TypeOK, Indexed

\* The listener's steps leave every variable in its type.
LEMMA TypeListen ==
  ASSUME TypeOK, NEW i \in Instances, Listen(i)
  PROVE  TypeOK'
<1>0. Dropped(i) \in 0 .. Len(log)
  BY DroppedFacts
<1> USE PollingAssumption DEF TypeOK, MaxAge, LongestPause, Larger, Nothing, Held, Confirm
<1>1. CASE PollOk(i)
  <2>1. Dropped(i) \in 0 .. Len(log)
    BY <1>0
  <2> DEFINE new == IF Dropped(i) < Len(log) THEN [lo |-> Dropped(i) + 1, hi |-> Len(log)]
                                             ELSE Nothing
  <2>f. Len(log) \in Nat
    OBVIOUS
  <2>a. new \in [lo : 1 .. Len(log) + 1, hi : 0 .. Len(log)]
    <3>1. CASE Dropped(i) < Len(log)
      <4>1. new = [lo |-> Dropped(i) + 1, hi |-> Len(log)]
        BY <3>1
      <4>2. Dropped(i) + 1 \in 1 .. Len(log) + 1 /\ Len(log) \in 0 .. Len(log)
        BY ONLY <2>1, <2>f
      <4> QED BY ONLY <4>1, <4>2
    <3>2. CASE ~(Dropped(i) < Len(log))
      <4>1. new = [lo |-> 1, hi |-> 0]
        BY <3>2
      <4>2. 1 \in 1 .. Len(log) + 1 /\ 0 \in 0 .. Len(log)
        BY ONLY <2>f
      <4> QED BY ONLY <4>1, <4>2
    <3> QED BY <3>1, <3>2
  <2>b. batch' = [batch EXCEPT ![i] = new]
    BY <1>1 DEF PollOk
  <2> HIDE DEF new
  <2>2. batch' \in [Instances -> [lo : 1 .. Len(log) + 1, hi : 0 .. Len(log)]]
    BY <2>a, <2>b
  <2>3. excused' \in [Instances -> BOOLEAN] /\ rivals' \in [Instances -> SUBSET Instances]
    BY <1>1 DEF PollOk
  <2>c. \E p \in {"store", "queue"} : pc' = [pc EXCEPT ![i] = p]
    BY <1>1 DEF PollOk
  <2>4. pc' \in [Instances -> {"off", "wait", "backoff", "store", "write", "queue"}]
    BY <2>c
  <2>5. misses' \in [Instances -> 0 .. 2]
    BY <1>1 DEF PollOk
  <2> QED BY <1>1, <2>1, <2>2, <2>3, <2>4, <2>5 DEF PollOk
<1>2. CASE PollFails(i)
  <2>1. confirmed' \in 0 .. Len(log)
    BY <1>0, <1>2 DEF PollFails
  <2>2. excused' \in [Instances -> BOOLEAN]
    BY <1>2 DEF PollFails
  <2>3. pc' \in [Instances -> {"off", "wait", "backoff", "store", "write", "queue"}]
    BY <1>2 DEF PollFails
  <2>4. timer' \in [Instances -> 0 .. MaxAge]
    BY <1>2 DEF PollFails
  <2>5. misses' \in [Instances -> 0 .. 2]
    <3> DEFINE more == IF misses[i] < 2 THEN misses[i] + 1 ELSE misses[i]
    <3>1. misses \in [Instances -> 0 .. 2] /\ misses[i] \in 0 .. 2
      OBVIOUS
    <3>2. more \in 0 .. 2
      BY <3>1
    <3>3. misses' = [misses EXCEPT ![i] = more]
      BY <1>2 DEF PollFails
    <3> HIDE DEF more
    <3> QED BY <3>1, <3>2, <3>3
  <2> QED BY <1>2, <2>1, <2>2, <2>3, <2>4, <2>5 DEF PollFails
<1>3. CASE Truncate(i)
  BY <1>3 DEF Truncate, server, history
<1>4. CASE Write(i)
  BY <1>4 DEF Write, Stored, server, history
<1>5. CASE StoreFails(i)
  BY <1>5 DEF StoreFails, server
<1>6. CASE Queue(i)
  <2>a. batch[i].lo \in 1 .. Len(log) + 1 /\ batch[i].hi \in 0 .. Len(log)
    BY DEF TypeOK
  <2>1. batch[i].lo \in 1 .. Len(log)
    BY <1>6, <2>a DEF Queue
  <2>b. batch' = [batch EXCEPT ![i] = [lo |-> batch[i].lo + 1, hi |-> batch[i].hi]]
    BY <1>6 DEF Queue
  <2>c. [lo |-> batch[i].lo + 1, hi |-> batch[i].hi] \in [lo : 1 .. Len(log) + 1, hi : 0 .. Len(log)]
    <3>1. Len(log) \in Nat
      OBVIOUS
    <3>2. batch[i].lo + 1 \in 1 .. Len(log) + 1
      BY ONLY <2>1, <3>1
    <3> QED BY ONLY <2>a, <3>2
  <2>2. batch' \in [Instances -> [lo : 1 .. Len(log) + 1, hi : 0 .. Len(log)]]
    BY <2>b, <2>c
  <2>d. Append(queued[i], batch[i].lo) \in Seq(1 .. Len(log))
    BY <2>1
  <2>3. queued' \in [Instances -> Seq(1 .. Len(log))]
    BY <1>6, <2>d DEF Queue
  <2> QED BY <1>6, <2>2, <2>3 DEF Queue, server
<1>7. CASE BeginWait(i)
  <2>1. Pause(i) \in 0 .. MaxAge
    BY DEF Pause
  <2>2. timer' \in [Instances -> 0 .. MaxAge]
    BY <1>7, <2>1 DEF BeginWait
  <2>3. batch' \in [Instances -> [lo : 1 .. Len(log) + 1, hi : 0 .. Len(log)]]
    BY <1>7 DEF BeginWait
  <2> QED BY <1>7, <2>2, <2>3 DEF BeginWait, server, history
<1> QED BY <1>1, <1>2, <1>3, <1>4, <1>5, <1>6, <1>7 DEF Listen

\* So do the steps of the environment.
LEMMA TypeEnvironment ==
  ASSUME TypeOK, (\E i \in Instances : Start(i) \/ Kill(i) \/ SetUrgency(i)) \/ Send \/ Clock
  PROVE  TypeOK'
<1> USE PollingAssumption DEF TypeOK, MaxAge, LongestPause, Larger, Nothing
<1>1. ASSUME NEW i \in Instances, Start(i) PROVE TypeOK'
  BY <1>1 DEF Start, server, history
<1>2. ASSUME NEW i \in Instances, Kill(i) PROVE TypeOK'
  <2>1. excused' \in [Instances -> BOOLEAN]
    BY <1>2, Zenon DEF Kill
  <2>2. batch' \in [Instances -> [lo : 1 .. Len(log) + 1, hi : 0 .. Len(log)]]
    BY <1>2 DEF Kill
  <2>3. pc' \in [Instances -> {"off", "wait", "backoff", "store", "write", "queue"}]
    BY <1>2 DEF Kill
  <2>4. timer' \in [Instances -> 0 .. MaxAge] /\ urgent' \in [Instances -> BOOLEAN]
    BY <1>2 DEF Kill
  <2>5. misses' \in [Instances -> 0 .. 2]
    BY <1>2 DEF Kill
  <2>6. urgentFor' \in [Instances -> 0 .. Interval + 1]
    BY <1>2 DEF Kill
  <2> QED BY <1>2, <2>1, <2>2, <2>3, <2>4, <2>5, <2>6 DEF Kill, server
<1>3. ASSUME NEW i \in Instances, SetUrgency(i) PROVE TypeOK'
  <2>1. urgent' \in [Instances -> BOOLEAN]
    BY <1>3 DEF SetUrgency
  <2>2. urgentFor' \in [Instances -> 0 .. Interval + 1]
    BY <1>3 DEF SetUrgency
  <2> QED BY <1>3, <2>1, <2>2 DEF SetUrgency, server, listener
<1>4. CASE Send
  <2>1. PICK m \in Messages : log' = Append(log, m)
    BY <1>4 DEF Send
  <2>2. log' \in Seq(Messages) /\ Len(log') = Len(log) + 1
    BY <2>1
  <2>a. 0 \in 0 .. MaxAge /\ age' = Append(age, 0)
    BY <1>4 DEF Send
  <2> HIDE DEF MaxAge
  <2>3. age' \in Seq(0 .. MaxAge) /\ Len(age') = Len(log')
    BY <2>a, <2>2
  <2>b. 1 .. Len(log) \subseteq 1 .. Len(log')
    BY <2>2
  <2>4. queued \in [Instances -> Seq(1 .. Len(log'))]
    <3>1. \A i \in Instances : queued[i] \in Seq(1 .. Len(log))
      OBVIOUS
    <3>2. \A i \in Instances : queued[i] \in Seq(1 .. Len(log'))
      BY ONLY <2>b, <3>1, WiderSequence
    <3>3. queued = [i \in Instances |-> queued[i]]
      OBVIOUS
    <3> DEFINE wide == Seq(1 .. Len(log'))
    <3>4. \A i \in Instances : queued[i] \in wide
      BY ONLY <3>2
    <3> HIDE DEF wide
    <3>5. queued \in [Instances -> wide]
      BY ONLY <3>3, <3>4
    <3> QED BY ONLY <3>5 DEF wide
  <2>5. UNCHANGED <<confirmed, listener, urgent, history>>
    BY <1>4 DEF Send
  <2>6. /\ offset' = offset /\ offset' \in [Instances -> 0 .. Len(log')]
        /\ confirmed' \in 0 .. Len(log')
    BY <2>2, <2>5 DEF listener
  <2>7. batch' \in [Instances -> [lo : 1 .. Len(log') + 1, hi : 0 .. Len(log')]]
    <3>1. batch \in [Instances -> [lo : 1 .. Len(log) + 1, hi : 0 .. Len(log)]]
      OBVIOUS
    <3>2. batch' = batch /\ Len(log) \in Nat /\ Len(log') = Len(log) + 1
      BY <2>2, <2>5 DEF listener
    <3> QED BY ONLY <3>1, <3>2
  <2>8. queued' \in [Instances -> Seq(1 .. Len(log'))]
    BY <2>4, <2>5 DEF history
  <2> QED BY <2>2, <2>3, <2>5, <2>6, <2>7, <2>8 DEF listener, history
<1>5. CASE Clock
  <2> DEFINE Older(n) == IF \A i \in Instances : misses[i] = 2 \/ n \notin Waiting(i) THEN 0
                         ELSE IF age[n] < MaxAge THEN age[n] + 1 ELSE MaxAge
  <2>a. age' = [n \in 1 .. Len(age) |-> Older(n)]
    BY <1>5 DEF Clock
  <2>d. age \in Seq(0 .. MaxAge) /\ MaxAge \in Nat
    OBVIOUS
  <2>c. Len(age) \in Nat /\ MaxAge \in Nat /\ \A n \in 1 .. Len(age) : age[n] \in 0 .. MaxAge
    BY ONLY <2>d
  <2> HIDE DEF MaxAge
  <2>b. ASSUME NEW n \in 1 .. Len(age) PROVE Older(n) \in 0 .. MaxAge
    <3>1. CASE \A i \in Instances : misses[i] = 2 \/ n \notin Waiting(i)
      BY <3>1, <2>c
    <3>2. CASE ~\A i \in Instances : misses[i] = 2 \/ n \notin Waiting(i)
      <4>1. Older(n) = IF age[n] < MaxAge THEN age[n] + 1 ELSE MaxAge
        BY <3>2
      <4>2. age[n] \in 0 .. MaxAge /\ MaxAge \in Nat
        BY <2>c
      <4> HIDE DEF Older, TypeOK
      <4> QED BY <4>1, <4>2
    <3> QED BY <3>1, <3>2
  <2> HIDE DEF Older
  <2>1. age' \in Seq(0 .. MaxAge) /\ Len(age') = Len(age)
    BY <2>a, <2>b, <2>c
  <2>2. timer' \in [Instances -> 0 .. MaxAge]
    <3>1. timer \in [Instances -> 0 .. MaxAge] /\ MaxAge \in Nat
      BY <2>d
    <3>2. timer' = [i \in Instances |-> IF timer[i] > 0 THEN timer[i] - 1 ELSE 0]
      BY <1>5 DEF Clock
    <3> QED BY ONLY <3>1, <3>2
  <2>3. urgentFor' \in [Instances -> 0 .. Interval + 1]
    BY <1>5 DEF Clock
  <2> QED BY <1>5, <2>1, <2>2, <2>3 DEF Clock
<1> QED BY <1>1, <1>2, <1>3, <1>4, <1>5

LEMMA TypeInit == Init => TypeOK
BY PollingAssumption DEF Init, TypeOK, MaxAge, LongestPause, Larger, Nothing

LEMMA TypeStep == TypeOK /\ [Next]_vars => TypeOK'
<1>1. TypeOK /\ Next => TypeOK'
  BY TypeListen, TypeEnvironment DEF Next
<1>2. TypeOK /\ UNCHANGED vars => TypeOK'
  BY DEF TypeOK, vars, server, listener, history
<1> QED BY <1>1, <1>2

\* The type invariant of the polling listeners, whatever fails.
THEOREM PollingTypes == Spec => []TypeOK
<1> QED BY TypeInit, TypeStep, PTL DEF Spec

-------------------------------------------------------------------------------
\* Order and repetition

\* A batch is in hand only between a poll and the next wait.
HandsEmpty(i) == pc[i] \in {"off", "wait", "backoff"} => batch[i] = Nothing

\* The next update to queue is newer than all queued ones.
NextIsNewer(i) == Held(i) # {} => \A n \in Taken(i) : n < batch[i].lo

\* What was queued will not be sent again: the server dropped it, or the offset
\* file says so; while the file is being rewritten, the server dropped it.
NotAgain(i) ==
  \A n \in Taken(i) : n <= confirmed \/ (pc[i] \notin {"store", "write"} /\ n <= offset[i])

\* Texts are queued after the offset of their batch was stored.
StoredFirst(i) == pc[i] = "queue" /\ Held(i) # {} => batch[i].hi <= offset[i]

FeedInv ==
  /\ TypeOK
  /\ \A i \in Instances : HandsEmpty(i)
  /\ \A i \in exact : NextIsNewer(i) /\ NotAgain(i) /\ StoredFirst(i)

Ordered(i) == NextIsNewer(i) /\ NotAgain(i) /\ StoredFirst(i)

LEMMA TakenType ==
  ASSUME TypeOK, NEW i \in Instances
  PROVE  \A n \in Taken(i) : n \in Nat /\ n \in 1 .. Len(log)
<1>1. queued[i] \in Seq(1 .. Len(log))
  BY DEF TypeOK
<1>2. \A k \in DOMAIN queued[i] : queued[i][k] \in 1 .. Len(log)
  BY <1>1
<1>3. Len(log) \in Nat
  BY DEF TypeOK
<1> QED BY <1>2, <1>3 DEF Taken

Elements(s) == {s[k] : k \in DOMAIN s}

\* Queueing an update adds it to what the instance has taken, or nothing.
LEMMA TakenAppend ==
  ASSUME NEW S, NEW s \in Seq(S), NEW n
  PROVE  Elements(Append(s, n)) = Elements(s) \union {n}
<1>1. DOMAIN Append(s, n) = DOMAIN s \union {Len(s) + 1} /\ Len(s) + 1 \notin DOMAIN s
  OBVIOUS
<1>2. Append(s, n)[Len(s) + 1] = n /\ \A k \in DOMAIN s : Append(s, n)[k] = s[k]
  OBVIOUS
<1> QED BY <1>1, <1>2 DEF Elements

\* An instance whose own variables do not change keeps its part of the invariant.
Quiet(k) == /\ pc'[k] = pc[k] /\ offset'[k] = offset[k]
            /\ batch'[k] = batch[k] /\ queued'[k] = queued[k]

LEMMA QuietOrdered ==
  ASSUME TypeOK, TypeOK', NEW k \in Instances, Quiet(k), confirmed' >= confirmed, Ordered(k)
  PROVE  Ordered(k)'
<1>1. Taken(k)' = Taken(k) /\ Held(k)' = Held(k)
  BY DEF Quiet, Taken, Held
<1>2. \A n \in Taken(k) : n \in Nat
  BY TakenType
<1>3. confirmed \in Nat /\ confirmed' \in Nat
  BY DEF TypeOK
<1>4. NotAgain(k)'
  BY <1>1, <1>2, <1>3 DEF Ordered, NotAgain, Quiet
<1> QED BY <1>1, <1>4 DEF Ordered, NextIsNewer, StoredFirst, Quiet

\* What the acting instance queued, after each of its steps.
LEMMA OrderedPoll ==
  ASSUME TypeOK, NEW i \in Instances, PollOk(i), Ordered(i)
  PROVE  Ordered(i)'
<1>1. Taken(i)' = Taken(i) /\ \A n \in Taken(i) : n \in Nat
  BY DEF PollOk, Taken, TypeOK
<1>2. \A n \in Taken(i) : n <= Dropped(i)
  <2>1. confirmed \in Nat /\ offset[i] \in Nat
    BY DEF TypeOK
  <2>2. \A n \in Taken(i) : n <= confirmed \/ n <= offset[i]
    BY DEF Ordered, NotAgain
  <2> QED BY <1>1, <2>1, <2>2, DroppedFacts
<1>3. confirmed' = Dropped(i) /\ Dropped(i) \in Nat /\ Len(log) \in Nat
  BY DroppedFacts DEF PollOk, Confirm, TypeOK
<1>4. NotAgain(i)'
  BY <1>1, <1>2, <1>3 DEF NotAgain
<1>5. CASE Dropped(i) < Len(log)
  <2>1. batch'[i] = [lo |-> Dropped(i) + 1, hi |-> Len(log)] /\ pc'[i] = "store"
    BY <1>5 DEF PollOk, TypeOK
  <2>2. NextIsNewer(i)'
    BY <2>1, <1>1, <1>2, <1>3 DEF NextIsNewer
  <2>3. StoredFirst(i)'
    BY <2>1 DEF StoredFirst
  <2> QED BY <1>4, <2>2, <2>3 DEF Ordered
<1>6. CASE ~(Dropped(i) < Len(log))
  <2>1. Held(i)' = {}
    BY <1>6 DEF PollOk, TypeOK, Nothing, Held
  <2> QED BY <1>4, <2>1 DEF Ordered, NextIsNewer, StoredFirst
<1> QED BY <1>5, <1>6

\* What an instance has taken after it queued an update.
LEMMA TakenQueue ==
  ASSUME TypeOK, NEW i \in Instances, Queue(i)
  PROVE  Taken(i)' = IF Accepts(i, log[batch[i].lo]) THEN Taken(i) \union {batch[i].lo} ELSE Taken(i)
<1>1. queued[i] \in Seq(1 .. Len(log)) /\ batch[i].lo \in 1 .. Len(log)
  BY DEF TypeOK, Queue, Held
<1>2. Elements(Append(queued[i], batch[i].lo)) = Elements(queued[i]) \union {batch[i].lo}
  BY <1>1, TakenAppend
<1>3. Taken(i) = Elements(queued[i]) /\ Taken(i)' = Elements(queued'[i])
  BY DEF Taken, Elements
<1>4. queued'[i] = IF Accepts(i, log[batch[i].lo]) THEN Append(queued[i], batch[i].lo) ELSE queued[i]
  BY DEF Queue, TypeOK
<1> QED BY <1>2, <1>3, <1>4

LEMMA OrderedQueue ==
  ASSUME TypeOK, NEW i \in Instances, Queue(i), Ordered(i)
  PROVE  Ordered(i)'
<1> DEFINE lo == batch[i].lo
           hi == batch[i].hi
<1>1. lo \in Nat /\ hi \in Nat /\ lo <= hi /\ offset[i] \in Nat /\ confirmed \in Nat
  BY DEF TypeOK, Queue, Held
<1>2. batch'[i] = [lo |-> lo + 1, hi |-> hi] /\ pc'[i] = "queue" /\ offset' = offset
      /\ confirmed' = confirmed /\ pc[i] = "queue"
  BY DEF Queue, TypeOK, server
<1>3. queued[i] \in Seq(Nat) /\ (queued'[i] = queued[i] \/ queued'[i] = Append(queued[i], lo))
  BY DEF Queue, TypeOK
<1>4. Taken(i)' \subseteq Taken(i) \union {lo} /\ \A n \in Taken(i) : n \in Nat
  <2>1. \A n \in Taken(i) : n \in Nat
    BY TakenType
  <2>2. Elements(Append(queued[i], lo)) = Elements(queued[i]) \union {lo}
    BY <1>3, TakenAppend
  <2>3. Taken(i) = Elements(queued[i]) /\ Taken(i)' = Elements(queued'[i])
    BY DEF Taken, Elements
  <2> QED BY <1>3, <2>1, <2>2, <2>3
<1>5. hi <= offset[i] /\ \A n \in Taken(i) : n < lo
  BY <1>1, <1>2 DEF Ordered, StoredFirst, NextIsNewer, Queue
<1> HIDE DEF lo, hi
<1>6. NextIsNewer(i)'
  BY <1>1, <1>2, <1>4, <1>5 DEF NextIsNewer
<1>7. NotAgain(i)'
  BY <1>1, <1>2, <1>4, <1>5 DEF NotAgain, Ordered
<1>8. StoredFirst(i)'
  BY <1>2, <1>5 DEF StoredFirst
<1> QED BY <1>6, <1>7, <1>8 DEF Ordered

\* The other steps of the listener and of its instance.
LEMMA OrderedRest ==
  ASSUME FeedInv, TypeOK', NEW i \in exact',
         \/ PollFails(i) \/ Truncate(i) \/ Write(i) \/ StoreFails(i) \/ BeginWait(i)
         \/ Start(i) \/ Kill(i) \/ SetUrgency(i)
  PROVE  Ordered(i)'
<1>1. TypeOK /\ i \in Instances /\ Ordered(i) /\ HandsEmpty(i)
  BY DEF FeedInv, Ordered, TypeOK, PollFails, Truncate, Write, StoreFails, BeginWait, Start,
         Kill, SetUrgency, history
<1>2. Taken(i)' = Taken(i) /\ \A n \in Taken(i) : n \in Nat
  <2>1. queued' = queued
    BY DEF PollFails, Truncate, Write, StoreFails, BeginWait, Start, Kill, SetUrgency, history
  <2> QED BY <1>1, <2>1, TakenType DEF Taken
<1>3. confirmed \in Nat /\ offset[i] \in Nat /\ batch[i].lo \in Nat /\ batch[i].hi \in Nat
  BY <1>1, PositionFacts
<1>4. confirmed' = confirmed \/ (confirmed' = Dropped(i) /\ PollFails(i))
  BY DEF PollFails, Confirm, Truncate, Write, StoreFails, BeginWait, Start, Kill, SetUrgency, server
<1>5. confirmed' \in Nat /\ confirmed' >= confirmed
  <2>1. Dropped(i) \in Nat /\ Dropped(i) >= confirmed
    BY <1>1, DroppedFacts
  <2> QED BY <1>3, <1>4, <2>1
<1>6. CASE PollFails(i)
  <2>1. pc'[i] = "backoff" /\ offset' = offset /\ batch' = batch
    BY <1>1, <1>6 DEF PollFails, TypeOK
  <2>2. pc[i] = "wait"
    BY <1>6 DEF PollFails
  <2>3. NotAgain(i)'
    BY <1>1, <1>2, <1>3, <1>5, <2>1, <2>2 DEF Ordered, NotAgain
  <2>4. NextIsNewer(i)' /\ StoredFirst(i)'
    BY <1>1, <1>2, <2>1 DEF Ordered, NextIsNewer, StoredFirst, Held
  <2> QED BY <2>3, <2>4 DEF Ordered
<1>7. CASE Truncate(i)
  BY <1>1, <1>2, <1>3, <1>5, <1>7 DEF Truncate, Ordered, NotAgain, NextIsNewer, StoredFirst, Held, TypeOK, server
<1>8. CASE Write(i)
  BY <1>1, <1>2, <1>3, <1>5, <1>8 DEF Write, Stored, Ordered, NotAgain, NextIsNewer, StoredFirst, Held, TypeOK, server
<1>9. CASE StoreFails(i)
  BY <1>1, <1>9 DEF StoreFails
<1>10. CASE BeginWait(i)
  BY <1>1, <1>2, <1>3, <1>5, <1>10 DEF BeginWait, Ordered, NotAgain, NextIsNewer, StoredFirst, Held, Nothing, TypeOK, server
<1>11. CASE Start(i)
  <2>1. Held(i)' = {}
    BY <1>1, <1>11 DEF Start, listener, HandsEmpty, Nothing, Held, TypeOK
  <2> QED BY <1>1, <1>2, <1>3, <1>5, <1>11, <2>1
          DEF Start, Ordered, NotAgain, NextIsNewer, StoredFirst, TypeOK, server
<1>13. CASE SetUrgency(i)
  BY <1>1, <1>2, <1>3, <1>5, <1>13
     DEF SetUrgency, Ordered, NotAgain, NextIsNewer, StoredFirst, Held, TypeOK, server, listener
<1>12. CASE Kill(i)
  BY <1>1, <1>2, <1>3, <1>5, <1>12 DEF Kill, Ordered, NotAgain, NextIsNewer, StoredFirst, Held, Nothing, TypeOK, server
<1> QED BY <1>6, <1>7, <1>8, <1>9, <1>10, <1>11, <1>12, <1>13

\* The hands of an instance are empty again when it waits or is dead.
LEMMA HandsStep ==
  ASSUME TypeOK, NEW i \in Instances, Listen(i) \/ Start(i) \/ Kill(i) \/ SetUrgency(i),
         \A k \in Instances : HandsEmpty(k)
  PROVE  \A k \in Instances : HandsEmpty(k)'
<1> SUFFICES ASSUME NEW k \in Instances PROVE HandsEmpty(k)'
  OBVIOUS
<1> USE DEF HandsEmpty, TypeOK
<1>1. CASE PollOk(i)
  BY <1>1 DEF PollOk
<1>2. CASE PollFails(i)
  BY <1>2 DEF PollFails
<1>3. CASE Truncate(i) \/ Write(i) \/ StoreFails(i)
  BY <1>3 DEF Truncate, Write, StoreFails, server, history
<1>4. CASE Queue(i)
  BY <1>4 DEF Queue
<1>5. CASE BeginWait(i)
  BY <1>5 DEF BeginWait
<1>6. CASE Start(i)
  BY <1>6 DEF Start
<1>7. CASE Kill(i)
  BY <1>7 DEF Kill
<1>8. CASE SetUrgency(i)
  BY <1>8 DEF SetUrgency, listener
<1> QED BY <1>1, <1>2, <1>3, <1>4, <1>5, <1>6, <1>7, <1>8 DEF Listen

\* A step of one instance leaves the others alone and only grows what was dropped.
LEMMA OthersQuiet ==
  ASSUME TypeOK, NEW i \in Instances, Listen(i) \/ Start(i) \/ Kill(i) \/ SetUrgency(i)
  PROVE  /\ \A k \in Instances \ {i} : Quiet(k)
         /\ exact' \subseteq exact /\ confirmed' >= confirmed /\ log' = log
<1>0. Indexed /\ confirmed \in Nat /\ Dropped(i) >= confirmed
  BY IndexedType, DroppedFacts, PositionFacts
<1> USE <1>0 DEF Indexed, Quiet
<1>1. CASE PollOk(i)
  BY <1>1 DEF PollOk, Confirm
<1>2. CASE PollFails(i)
  BY <1>2 DEF PollFails, Confirm
<1>3. CASE Truncate(i) \/ Write(i) \/ StoreFails(i)
  BY <1>3 DEF Truncate, Write, StoreFails, server, history
<1>4. CASE Queue(i)
  BY <1>4 DEF Queue, server
<1>5. CASE BeginWait(i) \/ Start(i)
  BY <1>5 DEF BeginWait, Start, server, history
<1>6. CASE Kill(i) \/ SetUrgency(i)
  BY <1>6 DEF Kill, SetUrgency, server, listener
<1> QED BY <1>1, <1>2, <1>3, <1>4, <1>5, <1>6 DEF Listen

LEMMA FeedStep == FeedInv /\ [Next]_vars => FeedInv'
<1> SUFFICES ASSUME FeedInv, [Next]_vars PROVE FeedInv'
  OBVIOUS
<1>1. TypeOK /\ TypeOK'
  BY TypeStep DEF FeedInv
<1>2. ASSUME NEW i \in Instances, Listen(i) \/ Start(i) \/ Kill(i) \/ SetUrgency(i)
      PROVE  FeedInv'
  <2>1. \A k \in Instances : HandsEmpty(k)'
    BY <1>1, <1>2, HandsStep DEF FeedInv
  <2>2. /\ \A k \in Instances \ {i} : Quiet(k)
        /\ exact' \subseteq exact /\ confirmed' >= confirmed
    BY <1>1, <1>2, OthersQuiet
  <2>3. \A k \in exact' \ {i} : Ordered(k)'
    BY <1>1, <2>2, QuietOrdered DEF FeedInv, Ordered, TypeOK
  <2>4. ASSUME i \in exact' PROVE Ordered(i)'
    <3>1. Ordered(i)
      BY <2>2, <2>4 DEF FeedInv, Ordered
    <3>2. CASE PollOk(i)
      BY <1>1, <3>1, <3>2, OrderedPoll
    <3>3. CASE Queue(i)
      BY <1>1, <3>1, <3>3, OrderedQueue
    <3>4. CASE ~PollOk(i) /\ ~Queue(i)
      BY <1>1, <1>2, <2>4, <3>4, OrderedRest DEF Listen
    <3> QED BY <3>2, <3>3, <3>4
  <2> QED BY <1>1, <2>1, <2>3, <2>4 DEF FeedInv, Ordered
<1>3. CASE Send \/ Clock \/ UNCHANGED vars
  <2>2. UNCHANGED <<confirmed, pc, offset, batch, queued, exact>>
    BY <1>3 DEF Send, Clock, vars, server, listener, history
  <2>3. \A k \in Instances : HandsEmpty(k)'
    BY <2>2 DEF FeedInv, HandsEmpty, Nothing
  <2>4. \A k \in exact : Ordered(k)'
    BY <2>2 DEF FeedInv, Ordered, NextIsNewer, NotAgain, StoredFirst, Held, Taken
  <2> QED BY <1>1, <2>2, <2>3, <2>4 DEF FeedInv, Ordered
<1> QED BY <1>2, <1>3 DEF Next

LEMMA FeedInit == Init => FeedInv
<1> SUFFICES ASSUME Init PROVE FeedInv
  OBVIOUS
<1>1. \A i \in Instances : Taken(i) = {} /\ Held(i) = {} /\ batch[i] = Nothing /\ pc[i] = "off"
  BY DEF Init, Taken, Held, Nothing
<1> QED BY <1>1, TypeInit DEF Init, FeedInv, HandsEmpty, NextIsNewer, NotAgain, StoredFirst

\* Every step is a step of CommandFeed: Queue takes, a failed store withdraws.
LEMMA FeedRefined == FeedInv /\ [Next]_vars => [Feed!Next]_Feed!feedVars
<1> SUFFICES ASSUME FeedInv, [Next]_vars PROVE [Feed!Next]_Feed!feedVars
  OBVIOUS
<1> USE DEF Feed!feedVars
<1>1. TypeOK
  BY DEF FeedInv
<1>2. ASSUME NEW i \in Instances, Queue(i) PROVE Feed!Take(i) \/ UNCHANGED Feed!feedVars
  <2> DEFINE n == batch[i].lo
  <2>1. n \in DOMAIN log
    BY <1>1, <1>2 DEF Queue, Held, TypeOK
  <2>2. CASE Accepts(i, log[n])
    <3>1. queued' = [queued EXCEPT ![i] = Append(@, n)] /\ UNCHANGED <<log, exact>>
      BY <1>2, <2>2 DEF Queue, server
    <3>2. log[n] \in Messages
      BY <1>1, <2>1 DEF TypeOK
    <3>3. i \in Audience[log[n]]
      BY <2>2, <3>2 DEF Audience
    <3>4. i \in exact => Feed!Newer(i, n)
      BY <1>2 DEF FeedInv, NextIsNewer, Taken, Queue, Feed!Newer
    <3> HIDE DEF n
    <3> QED BY <2>1, <3>1, <3>3, <3>4 DEF Feed!Take
  <2>3. CASE ~Accepts(i, log[n])
    BY <1>2, <2>3 DEF Queue, server
  <2> QED BY <2>2, <2>3
<1>3. ASSUME NEW i \in Instances, StoreFails(i) PROVE Feed!Withdraw(i)
  BY <1>3 DEF StoreFails, Feed!Withdraw, server
<1>4. CASE Send
  <2>1. PICK m \in Messages : log' = Append(log, m)
    BY <1>4 DEF Send
  <2>2. UNCHANGED <<queued, exact>>
    BY <1>4 DEF Send, history
  <2> QED BY <2>1, <2>2 DEF Feed!Next, Feed!Send
<1>5. ASSUME NEW i \in Instances,
             \/ PollOk(i) \/ PollFails(i) \/ Truncate(i) \/ Write(i) \/ BeginWait(i)
             \/ Start(i) \/ Kill(i) \/ SetUrgency(i)
      PROVE  UNCHANGED Feed!feedVars
  BY <1>5 DEF PollOk, PollFails, Truncate, Write, BeginWait, Start, Kill, SetUrgency,
              server, history
<1>6. CASE Clock \/ UNCHANGED vars
  BY <1>6 DEF Clock, vars, server, history
<1> QED BY <1>2, <1>3, <1>4, <1>5, <1>6 DEF Next, Listen, Feed!Next

\* The listeners implement CommandFeed: whatever polls fail and whenever an
\* instance dies, nobody takes a stranger's message, and nobody whose offset was
\* stored takes one twice or out of order.
THEOREM FeedImplemented == Spec => FeedKept
<1>1. Init => Feed!Init
  BY DEF Init, Feed!Init
<1> QED BY <1>1, FeedInit, FeedStep, FeedRefined, PTL DEF Spec, FeedKept, Feed!Spec

-------------------------------------------------------------------------------
\* Every instance sees every message

Got(i, n) == n \in Taken(i) \/ n \in Held(i)

\* What the next request of j may make the server drop: what it stored or holds.
Reached(j, n) == n <= offset[j] \/ n <= batch[j].hi

\* Whatever was dropped, and whatever an instance that was not served since could
\* make the server drop, i has.
Served(i) ==
  ~excused[i] =>
    \A n \in Meant(i) :
      n <= confirmed \/ (\E j \in Instances \ rivals[i] : Reached(j, n)) => Got(i, n)

ServedInv ==
  /\ FeedInv
  /\ \A i \in Instances : i \notin rivals[i] /\ Taken(i) \subseteq Meant(i) /\ Served(i)

LEMMA MeantType ==
  ASSUME TypeOK, NEW i \in Instances
  PROVE  \A n \in Meant(i) : n \in Nat /\ n > 0 /\ n <= Len(log)
BY DEF Meant, TypeOK

\* What suffices for an instance that is not served in a step.
LEMMA ServedKept ==
  ASSUME TypeOK, NEW i \in Instances, Served(i), log' = log,
         ~excused'[i] => ~excused[i],
         ~excused'[i] => \A n \in Meant(i) : Got(i, n) => Got(i, n)',
         ~excused'[i] => confirmed' = confirmed
                         \/ (\E j \in Instances \ rivals[i] : confirmed' = offset[j]),
         rivals[i] \subseteq rivals'[i],
         \A j \in Instances \ rivals'[i], n \in Nat : n > 0 /\ Reached(j, n)' => Reached(j, n)
  PROVE  Served(i)'
<1> SUFFICES ASSUME ~excused'[i], NEW n \in Meant(i),
                    n <= confirmed' \/ (\E j \in Instances \ rivals'[i] : Reached(j, n)')
             PROVE  Got(i, n)'
  BY DEF Served, Meant, Accepts
<1>1. n \in Nat /\ n > 0
  BY MeantType
<1>2. n <= confirmed \/ \E j \in Instances \ rivals[i] : Reached(j, n)
  <2>1. CASE n <= confirmed'
    BY <2>1 DEF Reached
  <2>2. ASSUME NEW j \in Instances \ rivals'[i], Reached(j, n)'
        PROVE  \E k \in Instances \ rivals[i] : Reached(k, n)
    BY <1>1, <2>2
  <2> QED BY <2>1, <2>2
<1> QED BY <1>2 DEF Served

\* Only a good poll takes an instance further than it was.
LEMMA ReachedBefore ==
  ASSUME TypeOK, NEW a \in Instances,
         \/ PollFails(a) \/ Truncate(a) \/ Write(a) \/ StoreFails(a) \/ Queue(a) \/ BeginWait(a)
         \/ Start(a) \/ Kill(a) \/ SetUrgency(a)
  PROVE  \A n \in Nat : n > 0 /\ Reached(a, n)' => Reached(a, n)
<1>1. /\ offset'[a] \in {offset[a], 0, batch[a].hi}
      /\ batch'[a].hi \in {batch[a].hi, 0}
  BY DEF TypeOK, PollFails, Truncate, Write, Stored, StoreFails, Queue, BeginWait, Start, Kill,
         SetUrgency, Nothing, listener
<1>2. offset[a] \in Nat /\ batch[a].hi \in Nat
  BY DEF TypeOK
<1> QED BY <1>1, <1>2 DEF Reached

\* A good poll serves the one who polls with everything there is.
LEMMA ServedPoll ==
  ASSUME ServedInv, NEW a \in Instances, PollOk(a)
  PROVE  Served(a)'
<1>1. TypeOK /\ Held(a) = {} /\ a \notin rivals[a] /\ Served(a)
  BY DEF ServedInv, FeedInv, HandsEmpty, PollOk, Held, Nothing
<1>2. Taken(a)' = Taken(a) /\ Meant(a)' = Meant(a) /\ excused'[a] = excused[a]
  BY <1>1 DEF PollOk, Confirm, Taken, Meant, Accepts, TypeOK
<1> SUFFICES ASSUME ~excused[a], NEW n \in Meant(a) PROVE Got(a, n)'
  BY <1>2 DEF Served
<1>3. n \in Nat /\ n <= Len(log) /\ Len(log) \in Nat
  <2>1. Len(log) \in Nat
    BY <1>1 DEF TypeOK
  <2> QED BY <1>1, <2>1, MeantType
<1>4. CASE n <= confirmed \/ n <= offset[a]
  BY <1>1, <1>2, <1>4 DEF Served, Reached, Got
<1>5. CASE ~(n <= confirmed \/ n <= offset[a])
  <2>1. Dropped(a) < n /\ Dropped(a) \in Nat
    <3>1. Dropped(a) \in {confirmed, offset[a]} /\ Dropped(a) \in Nat
      BY <1>1, DroppedFacts
    <3>2. confirmed \in Nat /\ offset[a] \in Nat
      BY <1>1 DEF TypeOK
    <3> QED BY <1>3, <1>5, <3>1, <3>2
  <2>2. batch'[a] = [lo |-> Dropped(a) + 1, hi |-> Len(log)]
    BY <1>1, <1>3, <2>1 DEF PollOk, TypeOK
  <2>3. n \in Held(a)'
    BY <1>3, <2>1, <2>2 DEF Held
  <2> QED BY <2>3 DEF Got
<1> QED BY <1>4, <1>5

\* Its own other steps lose nothing an instance has got, unless it is excused.
LEMMA GotKept ==
  ASSUME ServedInv, NEW a \in Instances, ~excused'[a],
         \/ PollFails(a) \/ Truncate(a) \/ Write(a) \/ StoreFails(a) \/ Queue(a) \/ BeginWait(a)
         \/ Start(a) \/ Kill(a) \/ SetUrgency(a)
  PROVE  \A n \in Meant(a) : Got(a, n) => Got(a, n)'
<1> SUFFICES ASSUME NEW n \in Meant(a), Got(a, n) PROVE Got(a, n)'
  OBVIOUS
<1>1. TypeOK /\ HandsEmpty(a)
  BY DEF ServedInv, FeedInv
<1>2. CASE \/ PollFails(a) \/ Truncate(a) \/ Write(a) \/ StoreFails(a) \/ Start(a) \/ SetUrgency(a)
  <2>1. queued' = queued /\ batch' = batch
    BY <1>2 DEF PollFails, Truncate, Write, StoreFails, Start, SetUrgency, history, listener
  <2> QED BY <2>1 DEF Got, Taken, Held
<1>3. CASE BeginWait(a)
  <2>1. queued' = queued /\ Held(a) = {}
    BY <1>1, <1>3 DEF BeginWait, HandsEmpty, Nothing, Held, history
  <2> QED BY <2>1 DEF Got, Taken
<1>5. CASE Kill(a)
  <2>1. excused' = [excused EXCEPT ![a] = excused[a] \/ Held(a) # {}] /\ queued' = queued
    BY <1>5 DEF Kill
  <2>2. a \in DOMAIN excused
    BY <1>1 DEF TypeOK
  <2>3. Held(a) = {}
    BY <2>1, <2>2, Zenon
  <2> QED BY <2>1, <2>3 DEF Got, Taken
<1>4. CASE Queue(a)
  <2> DEFINE lo == batch[a].lo
             hi == batch[a].hi
  <2>1. lo \in Nat /\ hi \in Nat /\ n \in Nat
    BY <1>1, MeantType, PositionFacts
  <2>2. batch'[a] = [lo |-> lo + 1, hi |-> hi]
    BY <1>1, <1>4 DEF Queue, TypeOK
  <2>3. Taken(a)' = IF Accepts(a, log[lo]) THEN Taken(a) \union {lo} ELSE Taken(a)
    BY <1>1, <1>4, TakenQueue
  <2>4. Accepts(a, log[n])
    BY DEF Meant
  <2> HIDE DEF lo, hi
  <2>5. CASE n = lo
    BY <2>3, <2>4, <2>5 DEF Got
  <2>6. CASE n # lo
    <3>1. n \in Held(a) => n \in Held(a)'
      BY <2>1, <2>2, <2>6 DEF Held, lo, hi
    <3> QED BY <2>3, <3>1 DEF Got
  <2> QED BY <2>5, <2>6
<1> QED BY <1>2, <1>3, <1>4, <1>5

\* A step of one instance: the rivals of another grow by nobody but it, and what
\* is dropped is what it stored, at the excuse of those it had overtaken.
LEMMA RivalStep ==
  ASSUME ServedInv, NEW a \in Instances, NEW i \in Instances \ {a},
         Listen(a) \/ Start(a) \/ Kill(a) \/ SetUrgency(a)
  PROVE  Served(i)' /\ i \notin rivals'[i]
<1>1. TypeOK /\ Served(i) /\ i \notin rivals[i]
  BY DEF ServedInv, FeedInv
<1>2. log' = log /\ \A k \in Instances \ {a} : Quiet(k)
  BY <1>1, OthersQuiet
<1>3. \A n : Got(i, n) => Got(i, n)'
  BY <1>2 DEF Quiet, Got, Taken, Held
<1>4. /\ rivals[i] \subseteq rivals'[i] /\ i \notin rivals'[i]
      /\ PollOk(a) => a \in rivals'[i]
  <2>1. CASE PollOk(a)
    BY <1>1, <2>1 DEF PollOk
  <2>2. CASE ~PollOk(a)
    <3>1. rivals' = rivals
      BY <2>2 DEF Listen, PollFails, Truncate, Write, StoreFails, Queue, BeginWait, Start, Kill,
                  SetUrgency, history
    <3> QED BY <1>1, <2>2, <3>1
  <2> QED BY <2>1, <2>2
<1>5. ~excused'[i] => ~excused[i]
  <2>1. CASE Confirm(a)
    BY <1>1, <2>1, Zenon DEF Confirm
  <2>2. CASE Kill(a)
    BY <1>1, <2>2 DEF Kill, TypeOK
  <2>3. CASE ~Confirm(a) /\ ~Kill(a)
    BY <2>3 DEF Listen, PollOk, PollFails, Truncate, Write, StoreFails, Queue, BeginWait, Start,
                SetUrgency, history
  <2> QED BY <2>1, <2>2, <2>3
<1>6. ~excused'[i] => confirmed' = confirmed \/ \E j \in Instances \ rivals[i] : confirmed' = offset[j]
  <2>1. CASE Confirm(a)
    <3>1. confirmed' \in {confirmed, offset[a]}
      BY <1>1, <2>1, DroppedFacts DEF Confirm
    <3>2. ~excused'[i] => a \notin rivals[i]
      BY <1>1, <2>1, Zenon DEF Confirm
    <3> QED BY <3>1, <3>2
  <2>2. CASE ~Confirm(a)
    BY <2>2 DEF Listen, PollOk, PollFails, Truncate, Write, StoreFails, Queue, BeginWait, Start,
                Kill, SetUrgency, server
  <2> QED BY <2>1, <2>2
<1>7. \A j \in Instances \ rivals'[i], n \in Nat : n > 0 /\ Reached(j, n)' => Reached(j, n)
  <2> SUFFICES ASSUME NEW j \in Instances \ rivals'[i], NEW n \in Nat, n > 0, Reached(j, n)'
               PROVE  Reached(j, n)
    OBVIOUS
  <2>1. CASE j = a
    BY <1>1, <1>4, <2>1, ReachedBefore DEF Listen
  <2>2. CASE j # a
    BY <1>2, <2>2 DEF Quiet, Reached
  <2> QED BY <2>1, <2>2
<1> QED BY <1>1, <1>2, <1>3, <1>4, <1>5, <1>6, <1>7, ServedKept

\* The same for the one who acts.
LEMMA OwnStep ==
  ASSUME ServedInv, NEW a \in Instances, Listen(a) \/ Start(a) \/ Kill(a) \/ SetUrgency(a)
  PROVE  Served(a)' /\ a \notin rivals'[a]
<1>1. TypeOK /\ Served(a) /\ a \notin rivals[a]
  BY DEF ServedInv, FeedInv
<1>2. CASE PollOk(a)
  BY <1>1, <1>2, ServedPoll DEF PollOk, TypeOK
<1>3. CASE ~PollOk(a)
  <2>1. rivals' = rivals
    BY <1>3 DEF Listen, PollFails, Truncate, Write, StoreFails, Queue, BeginWait, Start, Kill,
                SetUrgency, history
  <2>2. ~excused'[a] => ~excused[a]
    <3>1. CASE Confirm(a)
      BY <1>1, <3>1, Zenon DEF Confirm
    <3>2. CASE Kill(a)
      <4>1. excused' = [excused EXCEPT ![a] = excused[a] \/ Held(a) # {}] /\ a \in DOMAIN excused
        BY <1>1, <3>2 DEF Kill, TypeOK
      <4> QED BY <4>1, Zenon
    <3>3. CASE ~Confirm(a) /\ ~Kill(a)
      BY <1>3, <3>3 DEF Listen, PollFails, Truncate, Write, StoreFails, Queue, BeginWait, Start,
                        SetUrgency, history
    <3> QED BY <3>1, <3>2, <3>3
  <2>3. confirmed' \in {confirmed, offset[a]}
    BY <1>1, <1>3, DroppedFacts DEF Listen, PollFails, Confirm, Truncate, Write, StoreFails, Queue,
       BeginWait, Start, Kill, SetUrgency, server
  <2>4. \A j \in Instances, n \in Nat : n > 0 /\ Reached(j, n)' => Reached(j, n)
    <3> SUFFICES ASSUME NEW j \in Instances, NEW n \in Nat, n > 0, Reached(j, n)'
                 PROVE  Reached(j, n)
      OBVIOUS
    <3>1. CASE j = a
      BY <1>1, <1>3, <3>1, ReachedBefore DEF Listen
    <3>2. CASE j # a
      BY <1>1, <3>2, OthersQuiet DEF Quiet, Reached
    <3> QED BY <3>1, <3>2
  <2>5. ~excused'[a] => \A n \in Meant(a) : Got(a, n) => Got(a, n)'
    BY <1>3, GotKept DEF Listen
  <2>6. log' = log
    BY <1>1, OthersQuiet
  <2> QED BY <1>1, <2>1, <2>2, <2>3, <2>4, <2>5, <2>6, ServedKept
<1> QED BY <1>2, <1>3

\* Only messages meant for an instance are taken.
LEMMA MeantStep ==
  ASSUME ServedInv, NEW a \in Instances, Listen(a) \/ Start(a) \/ Kill(a) \/ SetUrgency(a),
         NEW i \in Instances
  PROVE  Taken(i)' \subseteq Meant(i)'
<1>1. TypeOK /\ Taken(i) \subseteq Meant(i)
  BY DEF ServedInv, FeedInv
<1>2. Meant(i)' = Meant(i)
  BY <1>1, OthersQuiet DEF Meant, Accepts
<1>3. CASE Queue(a) /\ i = a
  <2>1. batch[i].lo \in DOMAIN log
    BY <1>1, <1>3 DEF Queue, Held, TypeOK
  <2> QED BY <1>1, <1>2, <1>3, <2>1, TakenQueue DEF Meant
<1>4. CASE i # a
  BY <1>1, <1>2, <1>4, OthersQuiet DEF Quiet, Taken
<1>5. CASE ~Queue(a)
  <2>1. queued' = queued
    BY <1>5 DEF Listen, PollOk, PollFails, Truncate, Write, StoreFails, BeginWait, Start, Kill,
                SetUrgency, history
  <2> QED BY <1>1, <1>2, <2>1 DEF Taken
<1> QED BY <1>3, <1>4, <1>5

LEMMA ServedStep == ServedInv /\ [Next]_vars => ServedInv'
<1> SUFFICES ASSUME ServedInv, [Next]_vars PROVE ServedInv'
  OBVIOUS
<1>1. TypeOK /\ TypeOK' /\ FeedInv'
  BY FeedStep, TypeStep DEF ServedInv, FeedInv
<1>2. ASSUME NEW a \in Instances, Listen(a) \/ Start(a) \/ Kill(a) \/ SetUrgency(a)
      PROVE  ServedInv'
  BY <1>1, <1>2, RivalStep, OwnStep, MeantStep DEF ServedInv
<1>3. CASE Send
  <2>1. UNCHANGED <<confirmed, offset, batch, queued, rivals, excused>>
    BY <1>3 DEF Send, listener, history
  <2>2. PICK m \in Messages : log' = Append(log, m)
    BY <1>3 DEF Send
  <2>3. Len(log) \in Nat /\ DOMAIN log' = 1 .. Len(log) + 1 /\ DOMAIN log = 1 .. Len(log)
        /\ \A n \in DOMAIN log : log'[n] = log[n]
    BY <1>1, <2>2 DEF TypeOK
  <2>4. \A i \in Instances : Meant(i) \subseteq Meant(i)'
    BY <2>3 DEF Meant, Accepts
  <2>5. ASSUME NEW i \in Instances PROVE Served(i)'
    <3> SUFFICES ASSUME ~excused[i], NEW n \in Meant(i)',
                        n <= confirmed \/ \E j \in Instances \ rivals[i] : Reached(j, n)
                 PROVE  Got(i, n)
      BY <2>1 DEF Served, Reached, Got, Taken, Held
    <3>1. n \in Nat /\ n > 0
      BY <2>3 DEF Meant
    <3>2. n <= Len(log)
      <4>1. confirmed <= Len(log) /\ confirmed \in Nat
        BY <1>1 DEF TypeOK
      <4>2. ASSUME NEW j \in Instances, Reached(j, n) PROVE n <= Len(log)
        <5>1. /\ offset[j] \in Nat /\ offset[j] <= Len(log)
              /\ batch[j].hi \in Nat /\ batch[j].hi <= Len(log)
          BY <1>1 DEF TypeOK
        <5> QED BY <2>3, <3>1, <4>2, <5>1 DEF Reached
      <4> QED BY <2>3, <3>1, <4>1, <4>2
    <3>3. n \in Meant(i)
      BY <2>3, <3>1, <3>2 DEF Meant, Accepts
    <3> QED BY <3>3 DEF ServedInv, Served
  <2> QED BY <1>1, <2>1, <2>4, <2>5 DEF ServedInv, Taken
<1>4. CASE Clock \/ UNCHANGED vars
  <2>1. UNCHANGED <<log, confirmed, offset, batch, queued, rivals, excused>>
    BY <1>4 DEF Clock, vars, server, listener, history
  <2> QED BY <1>1, <2>1 DEF ServedInv, Served, Meant, Accepts, Reached, Got, Taken, Held
<1> QED BY <1>2, <1>3, <1>4 DEF Next

LEMMA ServedInit == Init => ServedInv
BY FeedInit DEF Init, ServedInv, Served, Meant, Taken

\* "Instances with similar polling cadences each see every message" (poll_updates):
\* for any number of instances, intervals and faults, a message leaves the server
\* unseen by one it is meant for only if that one was overtaken or killed with it.
THEOREM EveryMessageSeen == Spec => []Delivered
<1>1. ServedInv => Delivered
  <2> SUFFICES ASSUME ServedInv, NEW i \in Instances, ~excused[i],
                      NEW n \in Meant(i), n <= confirmed
               PROVE  n \in Taken(i) \union Held(i)
    BY DEF Delivered
  <2> QED BY DEF ServedInv, Served, Got
<1> QED BY <1>1, ServedInit, ServedStep, PTL DEF Spec

-------------------------------------------------------------------------------
\* Who understands what

\* A named instance hears only texts that begin with its name.
LEMMA NamedHears ==
  ASSUME NEW name, NEW text, name # << >>, Hear(name, text) # Ignored
  PROVE  text # << >> /\ name = <<Head(text)>>
BY DEF Hear, Parse, Prefixed

\* An unnamed instance hears one word, or words after one of the two aliases.
LEMMA UnnamedHears ==
  ASSUME NEW text, Hear(<< >>, text) # Ignored
  PROVE  \/ text # << >> /\ Head(text) \in {"user", "icloudpd"}
         \/ Len(text) = 1
BY DEF Hear, Parse, Prefixed

LEMMA AliasAlone == ASSUME NEW word \in {"user", "icloudpd"} PROVE Hear(<< >>, <<word>>) # Ignored
BY DEF Hear, Parse, Prefixed, Command, Ignored

\* No text is a command for two instances.
LEMMA HeardByOne ==
  ASSUME NEW i \in Instances, NEW j \in Instances, i # j, NEW text, NEW S, text \in Seq(S),
         Hear(Name[i], text) # Ignored, Name[i] # << >>
  PROVE  Hear(Name[j], text) = Ignored
<1> SUFFICES ASSUME Hear(Name[j], text) # Ignored PROVE FALSE
  OBVIOUS
<1>1. text # << >> /\ Name[i] = <<Head(text)>>
  BY NamedHears
<1>2. CASE Name[j] # << >>
  BY <1>1, <1>2, NamedHears, NamesApart
<1>3. CASE Name[j] = << >>
  <2>1. Hear(<< >>, Name[i]) = Ignored
    BY <1>3, NamesApart
  <2>2. CASE Head(text) \in {"user", "icloudpd"}
    BY <1>1, <2>1, <2>2, AliasAlone
  <2>3. CASE Len(text) = 1
    <3>1. text = <<Head(text)>>
      BY <1>1, <2>3
    <3> QED BY <1>1, <1>3, <2>1, <3>1
  <2> QED BY <1>3, <2>2, <2>3, UnnamedHears
<1> QED BY <1>2, <1>3

\* "Without all of them reacting to a bare 'sync' or 2FA code" (run_supervisor): for
\* any instances whose names tell them apart, a command is taken by one of them.
THEOREM TakenByOne == Spec => []OneTaker
<1>1. ServedInv => OneTaker
  <2> SUFFICES ASSUME ServedInv, NEW i \in Instances, NEW j \in Instances, i # j,
                      NEW n \in Taken(i), n \in Taken(j)
               PROVE  FALSE
    BY DEF OneTaker
  <2>1. n \in DOMAIN log /\ Accepts(i, log[n]) /\ Accepts(j, log[n])
    BY DEF ServedInv, Meant
  <2>2. log[n].text \in Seq(STRING)
    BY <2>1, TextsAreWords DEF ServedInv, FeedInv, TypeOK
  <2>3. Hear(Name[i], log[n].text) # Ignored /\ Hear(Name[j], log[n].text) # Ignored
    BY <2>1 DEF Accepts
  <2>4. Name[i] # << >> \/ Name[j] # << >>
    BY NamesApart
  <2> QED BY <2>2, <2>3, <2>4, HeardByOne
<1> QED BY <1>1, ServedInit, ServedStep, PTL DEF Spec

\* A word the help advertises means what the help says.
LEMMA AdvertisedWords ==
  ASSUME NEW name, NEW line \in Advertised(name)
  PROVE  \E w : /\ w \notin {"user", "icloudpd"}
                /\ line.text = Append(name, w) /\ line.command = Meaning(w)
<1>1. CASE line \in {[text |-> Append(name, c), command |-> [kind |-> "code", value |-> c]] : c \in Codes}
  <2>1. PICK c \in Codes : line = [text |-> Append(name, c), command |-> [kind |-> "code", value |-> c]]
    BY <1>1
  <2>2. c \notin {"user", "icloudpd"} /\ line.command = Meaning(c) /\ line.text = Append(name, c)
    BY <2>1, CodesAreDigits DEF Meaning
  <2> QED BY <2>2
<1>2. CASE line \in {[text |-> Append(name, w), command |-> Command(w)] : w \in {"sync", "reauth", "status"}}
  <2>1. PICK w \in {"sync", "reauth", "status"} : line = [text |-> Append(name, w), command |-> Command(w)]
    BY <1>2
  <2>2. w \notin Codes /\ w \in DOMAIN Keywords /\ Keywords[w] = w
    BY CodesAreDigits DEF Keywords
  <2>3. Meaning(w) = Command(w)
    BY <2>2 DEF Meaning
  <2> QED BY <2>1, <2>3
<1> QED BY <1>1, <1>2 DEF Advertised

LEMMA TwoWords == ASSUME NEW a, NEW b PROVE Append(<<a>>, b) = <<a, b>>
<1> DEFINE S == {a, b}
           s == Append(<<a>>, b)
           t == <<a, b>>
<1>1. <<a>> \in Seq(S) /\ b \in S /\ Len(<<a>>) = 1
  OBVIOUS
<1>2. s \in Seq(S) /\ Len(s) = 2 /\ s[1] = a /\ s[2] = b
  BY <1>1
<1>3. t \in Seq(S) /\ Len(t) = 2 /\ t[1] = a /\ t[2] = b
  OBVIOUS
<1>4. \A i \in 1 .. Len(s) : s[i] = t[i]
  BY <1>2, <1>3
<1> HIDE DEF S, s, t
<1>5. s = t
  BY <1>2, <1>3, <1>4, SeqEqual
<1> QED BY <1>5 DEF s, t

LEMMA AdvertisedHeard ==
  ASSUME NEW name \in Seq(STRING), Len(name) <= 1, NEW line \in Advertised(name)
  PROVE  Hear(name, line.text) = line.command
<1>1. PICK w : /\ w \notin {"user", "icloudpd"}
               /\ line.text = Append(name, w) /\ line.command = Meaning(w)
  BY AdvertisedWords
<1>2. CASE Len(name) = 0
  <2>1. name = << >> /\ Append(<< >>, w) = <<w>>
    BY <1>2
  <2>2. Head(<<w>>) = w /\ Len(<<w>>) = 1 /\ <<w>>[1] = w
    OBVIOUS
  <2>3. ~Prefixed(<<w>>, {<<"user">>, <<"icloudpd">>})
    BY <1>1, <2>2 DEF Prefixed
  <2>4. Hear(<< >>, <<w>>) = Meaning(w)
    BY <2>2, <2>3 DEF Hear, Parse
  <2> QED BY <1>1, <2>1, <2>4
<1>3. CASE Len(name) = 1
  <2> DEFINE first == name[1]
  <2>a. name = <<first>>
    BY <1>3
  <2> HIDE DEF first
  <2>b. Append(<<first>>, w) = <<first, w>>
    BY TwoWords
  <2>1. name = <<first>> /\ Append(name, w) = <<first, w>>
    BY <2>a, <2>b
  <2>2. Head(<<first, w>>) = first /\ Tail(<<first, w>>) = <<w>> /\ <<first, w>> # << >>
    OBVIOUS
  <2>3. Prefixed(<<first, w>>, {<<first>>})
    BY <2>2 DEF Prefixed
  <2>4. Hear(<<first>>, <<first, w>>) = Meaning(w)
    BY <2>2, <2>3 DEF Hear, Parse
  <2> QED BY <1>1, <2>1, <2>4
<1>4. Len(name) = 0 \/ Len(name) = 1
  <2>1. Len(name) \in Nat
    OBVIOUS
  <2> QED BY <2>1
<1> QED BY <1>2, <1>3, <1>4

\* The help and the parser agree, for every name of one word and every code.
THEOREM HelpHonest == Spec => []HelpUnderstood
<1>1. HelpUnderstood
  BY AdvertisedHeard, TextsAreWords DEF HelpUnderstood
<1>2. HelpUnderstood'
  BY AdvertisedHeard, TextsAreWords DEF HelpUnderstood
<1> QED BY <1>1, <1>2, PTL

-------------------------------------------------------------------------------
\* How long a command waits

\* The two pauses, the longer of which a wait can take.
Pauses ==
  /\ LongestPause \in Nat /\ Interval <= LongestPause /\ UrgentInterval <= LongestPause
  /\ LongestPause = Interval \/ LongestPause = UrgentInterval
USE DEF Pauses

\* What the timer of a listener can show.
Timing(i) ==
  /\ pc[i] = "off" => misses[i] = 2 /\ timer[i] = 0
  /\ pc[i] \in {"store", "write"} => offset[i] <= confirmed
  /\ pc[i] = "wait" => timer[i] <= LongestPause
  /\ pc[i] = "backoff" => timer[i] <= Backoff /\ misses[i] > 0
  /\ urgentFor[i] > 0 => urgent[i]
  /\ pc[i] = "wait" /\ urgentFor[i] + timer[i] > Interval => timer[i] <= UrgentInterval

\* The allowance for a failed poll.
Spent(i) == IF misses[i] = 0 THEN 0 ELSE LongestPause + Backoff

\* The age a command can still reach before the next poll.
OnTime(i, n) ==
  /\ pc[i] = "wait" => age[n] + timer[i] <= LongestPause + Spent(i)
  /\ pc[i] = "wait" /\ misses[i] = 0 /\ urgentFor[i] + timer[i] > Interval
       => age[n] + timer[i] <= UrgentInterval
  /\ pc[i] = "backoff" => age[n] + timer[i] <= Spent(i)
  /\ pc[i] \in {"store", "write", "queue"} => age[n] = 0

Late(i) == misses[i] < 2 => \A n \in Waiting(i) : OnTime(i, n)

LateInv == \A i \in Instances : Timing(i) /\ Late(i)

\* The numbers a latency is made of.
LEMMA Numbers ==
  ASSUME TypeOK, NEW i \in Instances
  PROVE  /\ Interval \in Nat /\ UrgentInterval \in Nat /\ Backoff \in Nat
         /\ Pauses
         /\ offset[i] \in Nat /\ confirmed \in Nat /\ timer[i] \in Nat
         /\ misses[i] \in 0 .. 2 /\ misses[i] \in Nat /\ urgentFor[i] \in Nat
         /\ Spent(i) \in Nat
         /\ \A n \in Waiting(i) : n \in Nat /\ n \in DOMAIN log /\ age[n] \in Nat
<1>1. \A n \in Waiting(i) : n \in DOMAIN log
  BY DEF Waiting, Meant
<1>2. \A n \in DOMAIN log : n \in Nat /\ age[n] \in Nat
  <2>1. age \in Seq(0 .. MaxAge) /\ Len(age) = Len(log) /\ log \in Seq(Messages)
    BY DEF TypeOK
  <2>2. ASSUME NEW n \in DOMAIN log PROVE n \in Nat /\ age[n] \in 0 .. MaxAge
    <3>1. n \in 1 .. Len(age)
      BY <2>1, <2>2
    <3>2. age[n] \in 0 .. MaxAge
      BY <2>1, <3>1, ElementOfSeq
    <3> QED BY <3>1, <3>2
  <2> QED BY <2>2
<1>3. Interval \in Nat /\ UrgentInterval \in Nat /\ Backoff \in Nat /\ Pauses
  BY PollingAssumption DEF Pauses, LongestPause, Larger
<1>4. /\ offset[i] \in Nat /\ confirmed \in Nat /\ timer[i] \in Nat
      /\ misses[i] \in 0 .. 2 /\ misses[i] \in Nat /\ urgentFor[i] \in Nat
  BY <1>3 DEF TypeOK, MaxAge
<1> QED BY <1>1, <1>2, <1>3, <1>4 DEF Spent

\* A step of an instance does not touch what makes the others' latency.
Still(k) ==
  /\ pc'[k] = pc[k] /\ timer'[k] = timer[k] /\ misses'[k] = misses[k]
  /\ offset'[k] = offset[k] /\ batch'[k] = batch[k] /\ queued'[k] = queued[k]
  /\ urgent'[k] = urgent[k] /\ urgentFor'[k] = urgentFor[k]

LEMMA OthersStill ==
  ASSUME TypeOK, NEW a \in Instances, Listen(a) \/ Start(a) \/ Kill(a) \/ SetUrgency(a),
         NEW i \in Instances, i # a
  PROVE  Still(i) /\ log' = log /\ age' = age /\ confirmed' >= confirmed
<1>0. Indexed /\ confirmed \in Nat /\ Dropped(a) >= confirmed
  BY IndexedType, DroppedFacts, PositionFacts
<1> USE <1>0 DEF Indexed, Still
<1>1. CASE PollOk(a)
  BY <1>1 DEF PollOk, Confirm
<1>2. CASE PollFails(a)
  <2>1. /\ pc' = [pc EXCEPT ![a] = "backoff"] /\ timer' = [timer EXCEPT ![a] = Backoff]
        /\ misses' = [misses EXCEPT ![a] = IF @ < 2 THEN @ + 1 ELSE @]
        /\ offset' = offset /\ batch' = batch /\ queued' = queued /\ urgent' = urgent
        /\ urgentFor' = urgentFor /\ log' = log /\ age' = age
    BY <1>2 DEF PollFails
  <2>2. confirmed' = Dropped(a) \/ confirmed' = confirmed
    BY <1>2 DEF PollFails, Confirm
  <2>4. confirmed' >= confirmed
    BY <2>2
  <2> QED BY <2>1, <2>4
<1>3. CASE Truncate(a) \/ Write(a) \/ StoreFails(a)
  BY <1>3 DEF Truncate, Write, StoreFails, server, history
<1>4. CASE Queue(a)
  BY <1>4 DEF Queue, server
<1>5. CASE BeginWait(a) \/ Start(a)
  BY <1>5 DEF BeginWait, Start, server, history
<1>6. CASE Kill(a)
  BY <1>6 DEF Kill, server
<1>7. CASE SetUrgency(a)
  BY <1>7 DEF SetUrgency, server, listener
<1> QED BY <1>1, <1>2, <1>3, <1>4, <1>5, <1>6, <1>7 DEF Listen

LEMMA LateOthers ==
  ASSUME TypeOK, TypeOK', NEW a \in Instances, Listen(a) \/ Start(a) \/ Kill(a) \/ SetUrgency(a),
         NEW i \in Instances, i # a, Timing(i), Late(i)
  PROVE  Timing(i)' /\ Late(i)'
<1>1. Still(i) /\ log' = log /\ age' = age /\ confirmed' >= confirmed
  BY OthersStill
<1>2. confirmed \in Nat /\ confirmed' \in Nat /\ offset[i] \in Nat
  BY DEF TypeOK
<1>3. Timing(i)'
  BY <1>1, <1>2 DEF Timing, Still
<1>4. Waiting(i)' \subseteq Waiting(i)
  <2>1. Meant(i)' = Meant(i) /\ Taken(i)' = Taken(i) /\ Held(i)' = Held(i)
    BY <1>1 DEF Meant, Taken, Held, Still
  <2>2. \A n \in Meant(i) : n \in Nat
    BY DEF Meant, TypeOK
  <2> QED BY <1>1, <1>2, <2>1, <2>2 DEF Waiting, Still
<1>5. Spent(i)' = Spent(i)
  BY <1>1 DEF Spent, Still
<1>6. ASSUME NEW n, OnTime(i, n) PROVE OnTime(i, n)'
  BY <1>1, <1>5, <1>6 DEF OnTime, Still
<1> QED BY <1>1, <1>3, <1>4, <1>6 DEF Late, Still

\* A good poll leaves nothing to wait for.
LEMMA NoneWaiting ==
  ASSUME TypeOK, NEW i \in Instances, PollOk(i)
  PROVE  Waiting(i)' = {}
<1>1. /\ Dropped(i) \in Nat /\ confirmed' = Dropped(i) /\ log' = log /\ Len(log) \in Nat
      /\ Meant(i)' = Meant(i)
  BY DroppedFacts DEF PollOk, Confirm, Meant, TypeOK
<1>2. \A n \in Meant(i) : n \in Nat /\ n <= Len(log)
  BY DEF Meant, TypeOK
<1>3. CASE Dropped(i) < Len(log)
  <2>1. batch'[i] = [lo |-> Dropped(i) + 1, hi |-> Len(log)]
    BY <1>3 DEF PollOk, TypeOK
  <2>2. Held(i)' = Dropped(i) + 1 .. Len(log)
    BY <2>1 DEF Held
  <2> QED BY <1>1, <1>2, <2>2 DEF Waiting
<1>4. CASE ~(Dropped(i) < Len(log))
  BY <1>1, <1>2, <1>4 DEF Waiting
<1> QED BY <1>3, <1>4

\* The other steps of an instance that stays up add nothing to wait for.
LEMMA WaitingShrinks ==
  ASSUME TypeOK, TypeOK', NEW i \in Instances, Timing(i), HandsEmpty(i),
         \/ PollFails(i) \/ Truncate(i) \/ Write(i) \/ StoreFails(i) \/ Queue(i)
         \/ BeginWait(i) \/ SetUrgency(i)
  PROVE  Waiting(i)' \subseteq Waiting(i)
<1>1. /\ confirmed \in Nat /\ confirmed' \in Nat /\ offset[i] \in Nat /\ offset'[i] \in Nat
      /\ \A n \in Meant(i) : n \in Nat
  <2>1. confirmed \in Nat /\ offset[i] \in Nat
    BY PositionFacts
  <2>2. confirmed' \in Nat /\ offset'[i] \in Nat
    BY DEF TypeOK
  <2>3. \A n \in Meant(i) : n \in Nat
    BY MeantType
  <2> QED BY <2>1, <2>2, <2>3
<1>2. log' = log /\ confirmed' >= confirmed /\ Meant(i)' = Meant(i)
  BY OthersQuiet DEF Listen, Meant
<1>3. CASE PollFails(i) \/ StoreFails(i) \/ SetUrgency(i)
  <2>1. Taken(i)' = Taken(i) /\ Held(i)' = Held(i) /\ offset' = offset
    BY <1>3 DEF PollFails, StoreFails, SetUrgency, Taken, Held, listener
  <2> QED BY <1>1, <1>2, <2>1 DEF Waiting
<1>4. CASE Truncate(i) \/ Write(i)
  <2>1. /\ Taken(i)' = Taken(i) /\ Held(i)' = Held(i) /\ confirmed' = confirmed
        /\ offset[i] <= confirmed
    BY <1>4 DEF Truncate, Write, Taken, Held, server, history, Timing
  <2> QED BY <1>1, <1>2, <2>1 DEF Waiting
<1>5. CASE Queue(i)
  <2>1. /\ offset' = offset /\ confirmed' = confirmed
        /\ Taken(i)' = IF Accepts(i, log[batch[i].lo]) THEN Taken(i) \union {batch[i].lo} ELSE Taken(i)
    BY <1>5, TakenQueue DEF Queue, server
  <2>2. /\ batch'[i] = [lo |-> batch[i].lo + 1, hi |-> batch[i].hi]
        /\ batch[i].lo \in Nat /\ batch[i].hi \in Nat
    BY <1>5 DEF Queue, TypeOK
  <2>3. Held(i) \subseteq Held(i)' \union {batch[i].lo}
    BY <2>2 DEF Held
  <2>4. batch[i].lo \in Meant(i) => Accepts(i, log[batch[i].lo])
    BY DEF Meant
  <2> QED BY <1>1, <1>2, <2>1, <2>3, <2>4 DEF Waiting
<1>6. CASE BeginWait(i)
  <2>1. Held(i) = {}
    BY <1>6 DEF BeginWait, HandsEmpty, Held, Nothing
  <2>2. Taken(i)' = Taken(i) /\ offset' = offset /\ confirmed' = confirmed
    BY <1>6 DEF BeginWait, Taken, history, server
  <2> QED BY <1>1, <1>2, <2>1, <2>2 DEF Waiting
<1> QED BY <1>3, <1>4, <1>5, <1>6

\* The instance that acts keeps its timing ...
LEMMA TimingStep ==
  ASSUME TypeOK, TypeOK', NEW i \in Instances, Timing(i),
         Listen(i) \/ Start(i) \/ Kill(i) \/ SetUrgency(i)
  PROVE  Timing(i)'
<1>1. /\ Interval \in Nat /\ UrgentInterval \in Nat /\ Backoff \in Nat /\ Pauses
      /\ offset[i] \in Nat /\ confirmed \in Nat /\ timer[i] \in Nat /\ misses[i] \in 0 .. 2
      /\ urgentFor[i] \in Nat
  BY Numbers
<1>2. CASE PollOk(i)
  <2>1. /\ pc'[i] \in {"store", "queue"} /\ offset' = offset /\ urgent' = urgent
        /\ urgentFor' = urgentFor /\ confirmed' = Dropped(i)
    BY <1>2 DEF PollOk, Confirm, TypeOK
  <2>2. Dropped(i) >= offset[i]
    BY DroppedFacts
  <2>3. (offset'[i] <= confirmed') /\ (urgentFor'[i] > 0 => urgent'[i])
    BY <1>1, <2>1, <2>2 DEF Timing
  <2> QED BY <2>1, <2>3 DEF Timing
<1>3. CASE PollFails(i)
  <2>a. /\ pc' = [pc EXCEPT ![i] = "backoff"] /\ timer' = [timer EXCEPT ![i] = Backoff]
        /\ misses' = [misses EXCEPT ![i] = IF @ < 2 THEN @ + 1 ELSE @]
        /\ urgent' = urgent /\ urgentFor' = urgentFor
    BY <1>3 DEF PollFails
  <2>b. misses'[i] = (IF misses[i] < 2 THEN misses[i] + 1 ELSE misses[i])
    BY <2>a DEF TypeOK
  <2>c. misses[i] \in 0 .. 2
    BY DEF TypeOK
  <2>d. misses'[i] > 0
    BY <2>b, <2>c
  <2>e. pc'[i] = "backoff" /\ timer'[i] = Backoff
    BY <2>a DEF TypeOK
  <2>1. /\ pc'[i] = "backoff" /\ timer'[i] = Backoff /\ misses'[i] > 0
        /\ urgent' = urgent /\ urgentFor' = urgentFor
    BY <2>a, <2>d, <2>e
  <2>2. timer'[i] <= Backoff /\ (urgentFor'[i] > 0 => urgent'[i])
    BY <1>1, <2>1 DEF Timing
  <2> QED BY <2>1, <2>2 DEF Timing
<1>4. CASE Truncate(i) \/ Write(i) \/ StoreFails(i) \/ Queue(i)
  <2>1. /\ pc'[i] \in {"write", "queue"} /\ urgent' = urgent /\ urgentFor' = urgentFor
        /\ confirmed' = confirmed
        /\ pc'[i] = "write" => offset'[i] = 0
    BY <1>4 DEF Truncate, Write, StoreFails, Queue, TypeOK, history, server
  <2>2. urgentFor'[i] > 0 => urgent'[i]
    BY <2>1 DEF Timing
  <2> QED BY <1>1, <2>1, <2>2 DEF Timing
<1>5. CASE BeginWait(i)
  <2>1. /\ pc'[i] = "wait" /\ timer'[i] = (IF urgent[i] THEN UrgentInterval ELSE Interval)
        /\ urgent' = urgent /\ urgentFor' = urgentFor
    BY <1>5 DEF BeginWait, Pause, TypeOK, history
  <2>2. urgentFor'[i] > 0 => urgent'[i]
    BY <2>1 DEF Timing
  <2>3. CASE urgent[i]
    <3>1. timer'[i] = UrgentInterval
      BY <2>1, <2>3
    <3> QED BY <1>1, <2>1, <2>2, <3>1 DEF Timing
  <2>4. CASE ~urgent[i]
    <3>1. timer'[i] = Interval /\ urgentFor'[i] = 0
      BY <1>1, <2>1, <2>4 DEF Timing
    <3>2. ~(urgentFor'[i] + timer'[i] > Interval) /\ timer'[i] <= LongestPause
      BY <1>1, <3>1
    <3> QED BY <2>1, <2>2, <3>2 DEF Timing
  <2> QED BY <2>3, <2>4
<1>6. CASE Start(i)
  <2>1. /\ pc'[i] = "wait" /\ timer' = timer /\ urgent' = urgent /\ urgentFor' = urgentFor
        /\ pc[i] = "off"
    BY <1>6 DEF Start, TypeOK, history
  <2>2. timer'[i] = 0 /\ (urgentFor'[i] > 0 => urgent'[i])
    BY <2>1 DEF Timing
  <2> QED BY <1>1, <2>1, <2>2 DEF Timing
<1>7. CASE Kill(i)
  <2>1. pc'[i] = "off" /\ misses'[i] = 2 /\ timer'[i] = 0 /\ urgentFor'[i] = 0
    BY <1>7 DEF Kill, TypeOK
  <2> QED BY <2>1 DEF Timing
<1>8. CASE SetUrgency(i)
  <2>1. /\ pc' = pc /\ timer' = timer /\ offset' = offset /\ misses' = misses
        /\ urgentFor'[i] = 0 /\ confirmed' = confirmed
    BY <1>8 DEF SetUrgency, TypeOK, server, listener
  <2>2. pc[i] = "wait" /\ timer[i] > Interval => timer[i] <= UrgentInterval
    BY <1>1 DEF Timing, Pauses
  <2> QED BY <1>1, <2>1, <2>2 DEF Timing
<1> QED BY <1>2, <1>3, <1>4, <1>5, <1>6, <1>7, <1>8 DEF Listen

\* ... and its latency.
LEMMA LateStep ==
  ASSUME TypeOK, TypeOK', NEW i \in Instances, Timing(i), HandsEmpty(i), Late(i),
         Listen(i) \/ Start(i) \/ Kill(i) \/ SetUrgency(i)
  PROVE  Late(i)'
<1> SUFFICES ASSUME misses'[i] < 2, NEW n \in Waiting(i)' PROVE OnTime(i, n)'
  BY DEF Late
<1>1. /\ Interval \in Nat /\ UrgentInterval \in Nat /\ Backoff \in Nat /\ Pauses
      /\ timer[i] \in Nat /\ misses[i] \in 0 .. 2 /\ misses[i] \in Nat /\ urgentFor[i] \in Nat
  BY Numbers
<1>2. CASE PollOk(i)
  BY <1>2, NoneWaiting
<1>3. CASE Start(i)
  <2>1. misses[i] = 2 /\ misses' = misses
    BY <1>3 DEF Start, Timing, history
  <2> QED BY <2>1
<1>4. CASE Kill(i)
  <2>1. misses'[i] = 2
    BY <1>4 DEF Kill, TypeOK
  <2> QED BY <2>1
<1>5. CASE \/ PollFails(i) \/ Truncate(i) \/ Write(i) \/ StoreFails(i) \/ Queue(i)
           \/ BeginWait(i) \/ SetUrgency(i)
  <2>1. n \in Waiting(i)
    BY <1>5, WaitingShrinks
  <2>2. age[n] \in Nat
    BY <2>1, Numbers
  <2>3. age' = age
    BY <1>5 DEF PollFails, Truncate, Write, StoreFails, Queue, BeginWait, SetUrgency, server
  <2>4. CASE PollFails(i)
    <3>1. /\ pc[i] = "wait" /\ timer[i] = 0 /\ pc'[i] = "backoff" /\ timer'[i] = Backoff
          /\ misses'[i] = (IF misses[i] < 2 THEN misses[i] + 1 ELSE misses[i])
      BY <2>4 DEF PollFails, TypeOK
    <3>2. misses[i] = 0 /\ misses'[i] = 1
      BY <1>1, <3>1
    <3>3. Spent(i) = 0 /\ Spent(i)' = LongestPause + Backoff
      BY <3>2 DEF Spent
    <3>4. age[n] <= LongestPause
      BY <1>1, <2>1, <2>2, <3>1, <3>2, <3>3 DEF Late, OnTime
    <3>5. age'[n] + timer'[i] <= Spent(i)'
      BY <1>1, <2>2, <2>3, <3>1, <3>3, <3>4
    <3> QED BY <3>1, <3>5 DEF OnTime
  <2>5. CASE Truncate(i) \/ Write(i) \/ StoreFails(i) \/ Queue(i)
    <3>1. /\ pc[i] \in {"store", "write", "queue"} /\ pc'[i] \in {"write", "queue"}
          /\ misses' = misses
      BY <2>5 DEF Truncate, Write, StoreFails, Queue, TypeOK, history
    <3>2. age[n] = 0
      BY <2>1, <3>1 DEF Late, OnTime
    <3> QED BY <2>3, <3>1, <3>2 DEF OnTime
  <2>6. CASE BeginWait(i)
    <3>1. /\ pc'[i] = "wait" /\ timer'[i] = (IF urgent[i] THEN UrgentInterval ELSE Interval)
          /\ urgentFor' = urgentFor /\ misses' = misses
          /\ pc[i] = "queue" \/ (pc[i] = "backoff" /\ timer[i] = 0)
      BY <2>6 DEF BeginWait, Pause, TypeOK, history
    <3>2. Spent(i)' = Spent(i) /\ Spent(i) \in Nat
      BY <3>1, Numbers DEF Spent
    <3>3. /\ age[n] <= Spent(i)
          /\ pc[i] = "queue" => age[n] = 0
          /\ misses[i] = 0 => pc[i] = "queue"
      BY <1>1, <2>1, <2>2, <3>1, <3>2 DEF Late, OnTime, Timing
    <3>4. timer'[i] <= LongestPause /\ timer'[i] \in Nat
      BY <1>1, <3>1
    <3>5. age'[n] + timer'[i] <= LongestPause + Spent(i)'
      BY <1>1, <2>2, <2>3, <3>2, <3>3, <3>4
    <3>6. misses'[i] = 0 /\ urgentFor'[i] + timer'[i] > Interval
            => age'[n] + timer'[i] <= UrgentInterval
      <4> SUFFICES ASSUME misses[i] = 0, urgentFor[i] + timer'[i] > Interval
                   PROVE  timer'[i] <= UrgentInterval
        BY <2>3, <3>1, <3>3, <3>4
      <4>1. CASE urgent[i]
        BY <1>1, <3>1, <4>1
      <4>2. CASE ~urgent[i]
        <5>1. urgentFor[i] = 0 /\ timer'[i] = Interval
          BY <1>1, <3>1, <4>2 DEF Timing
        <5> QED BY <1>1, <5>1
      <4> QED BY <4>1, <4>2
    <3> QED BY <3>1, <3>5, <3>6 DEF OnTime
  <2>7. CASE SetUrgency(i)
    <3>1. /\ pc' = pc /\ timer' = timer /\ misses' = misses /\ urgentFor'[i] = 0
      BY <2>7 DEF SetUrgency, TypeOK, listener
    <3>2. OnTime(i, n)
      BY <2>1, <3>1 DEF Late
    <3>4. Spent(i)' = Spent(i)
      BY <3>1 DEF Spent
    <3>3. pc[i] = "wait" /\ misses[i] = 0 /\ timer[i] > Interval
            => age[n] + timer[i] <= UrgentInterval
      <4>1. pc[i] = "wait" /\ timer[i] > Interval => LongestPause = UrgentInterval
        BY <1>1 DEF Timing, Pauses
      <4>2. misses[i] = 0 => Spent(i) = 0
        BY DEF Spent
      <4> QED BY <1>1, <2>2, <3>2, <4>1, <4>2 DEF OnTime
    <3>5. pc'[i] = "wait" /\ misses'[i] = 0 /\ urgentFor'[i] + timer'[i] > Interval
            => age'[n] + timer'[i] <= UrgentInterval
      BY <1>1, <2>3, <3>1, <3>3
    <3> QED BY <2>3, <3>1, <3>2, <3>4, <3>5 DEF OnTime
  <2> QED BY <1>5, <2>4, <2>5, <2>6, <2>7
<1> QED BY <1>2, <1>3, <1>4, <1>5 DEF Listen

\* A message that arrives has its whole time before it.
LEMMA LateSend ==
  ASSUME TypeOK, TypeOK', Send, NEW i \in Instances, Timing(i), Late(i)
  PROVE  Timing(i)' /\ Late(i)'
<1>1. /\ pc' = pc /\ timer' = timer /\ misses' = misses /\ urgentFor' = urgentFor
      /\ urgent' = urgent /\ offset' = offset /\ confirmed' = confirmed
      /\ Taken(i)' = Taken(i) /\ Held(i)' = Held(i)
  BY DEF Send, listener, history, Taken, Held
<1>2. Timing(i)'
  BY <1>1 DEF Timing
<1>3. Spent(i)' = Spent(i)
  BY <1>1 DEF Spent
<1>4. /\ Interval \in Nat /\ UrgentInterval \in Nat /\ Backoff \in Nat /\ Pauses
      /\ timer[i] \in Nat /\ misses[i] \in Nat /\ urgentFor[i] \in Nat /\ Spent(i) \in Nat
  BY Numbers
<1>5. PICK m \in Messages : log' = Append(log, m)
  BY DEF Send
<1>6. /\ age' = Append(age, 0) /\ Len(age) = Len(log) /\ log \in Seq(Messages) /\ age \in Seq(0 .. MaxAge)
  BY DEF Send, TypeOK
<1>7. ASSUME NEW n \in Waiting(i)', misses[i] < 2 PROVE OnTime(i, n)'
  <2>1. n \in DOMAIN log'
    BY DEF Waiting, Meant
  <2>2. CASE n \in DOMAIN log
    <3>1. log'[n] = log[n] /\ age'[n] = age[n]
      BY <1>5, <1>6, <2>2
    <3>2. Accepts(i, log'[n]) /\ n > confirmed' /\ n > offset'[i] /\ n \notin Taken(i)' \union Held(i)'
      BY <1>7 DEF Waiting, Meant
    <3>3. n \in Waiting(i)
      BY <1>1, <2>2, <3>1, <3>2 DEF Waiting, Meant
    <3>4. OnTime(i, n)
      BY <1>7, <3>3 DEF Late
    <3> QED BY <1>1, <1>3, <3>1, <3>4 DEF OnTime
  <2>3. CASE n \notin DOMAIN log
    <3>1. age'[n] = 0
      BY <1>5, <1>6, <2>1, <2>3
    <3>2. pc[i] = "wait" => /\ timer[i] <= LongestPause
                            /\ urgentFor[i] + timer[i] > Interval => timer[i] <= UrgentInterval
      BY DEF Timing
    <3>3. pc[i] = "backoff" => timer[i] <= Backoff /\ Spent(i) = LongestPause + Backoff
      BY <1>4 DEF Timing, Spent
    <3>4. pc'[i] = "wait" => age'[n] + timer'[i] <= LongestPause + Spent(i)'
      BY <1>1, <1>3, <1>4, <3>1, <3>2
    <3>5. pc'[i] = "wait" /\ urgentFor'[i] + timer'[i] > Interval => age'[n] + timer'[i] <= UrgentInterval
      BY <1>1, <1>4, <3>1, <3>2
    <3>6. pc'[i] = "backoff" => age'[n] + timer'[i] <= Spent(i)'
      BY <1>1, <1>3, <1>4, <3>1, <3>3
    <3> QED BY <3>1, <3>4, <3>5, <3>6 DEF OnTime
  <2> QED BY <2>2, <2>3
<1> QED BY <1>1, <1>2, <1>7 DEF Late

\* What a command gets older, the timer has less to go.
LEMMA LateClock ==
  ASSUME TypeOK, TypeOK', Clock, NEW i \in Instances, Timing(i), Late(i)
  PROVE  Timing(i)' /\ Late(i)'
<1>1. /\ Interval \in Nat /\ UrgentInterval \in Nat /\ Backoff \in Nat /\ Pauses
      /\ timer[i] \in Nat /\ misses[i] \in 0 .. 2 /\ misses[i] \in Nat /\ urgentFor[i] \in Nat
      /\ Spent(i) \in Nat /\ \A n \in Waiting(i) : age[n] \in Nat
  BY Numbers
<1>2. /\ pc' = pc /\ misses' = misses /\ urgent' = urgent /\ offset' = offset
      /\ confirmed' = confirmed /\ log' = log
  BY DEF Clock
<1>3. timer'[i] = (IF timer[i] > 0 THEN timer[i] - 1 ELSE 0)
  BY DEF Clock
<1>4. urgentFor'[i] = (IF urgent[i] /\ urgentFor[i] <= Interval THEN urgentFor[i] + 1 ELSE urgentFor[i])
  BY DEF Clock
<1>5. pc[i] = "off" \/ (pc[i] \in {"wait", "backoff"} /\ timer[i] > 0)
  BY DEF Clock, Resting
<1>6. timer'[i] \in Nat /\ urgentFor'[i] \in Nat /\ timer'[i] <= timer[i]
  BY <1>1, <1>3, <1>4
<1>7. timer[i] > 0 => timer'[i] = timer[i] - 1 /\ urgentFor'[i] + timer'[i] <= urgentFor[i] + timer[i]
  BY <1>1, <1>3, <1>4
<1>8. Timing(i)'
  <2>1. urgentFor'[i] > 0 => urgent'[i]
    BY <1>1, <1>2, <1>4 DEF Timing
  <2>2. pc'[i] = "wait" => /\ timer'[i] <= LongestPause
                           /\ urgentFor'[i] + timer'[i] > Interval => timer'[i] <= UrgentInterval
    BY <1>1, <1>2, <1>5, <1>6, <1>7 DEF Timing
  <2>3. pc'[i] = "backoff" => timer'[i] <= Backoff /\ misses'[i] > 0
    BY <1>1, <1>2, <1>6 DEF Timing
  <2>4. /\ pc'[i] = "off" => misses'[i] = 2 /\ timer'[i] = 0
        /\ pc'[i] \notin {"store", "write"}
    BY <1>2, <1>3, <1>5 DEF Timing
  <2> QED BY <2>1, <2>2, <2>3, <2>4 DEF Timing
<1>9. Waiting(i)' = Waiting(i) /\ Spent(i)' = Spent(i)
  BY DEF Clock, Waiting, Meant, Taken, Held, Spent
<1>10. ASSUME NEW n \in Waiting(i), misses[i] < 2 PROVE OnTime(i, n)'
  <2>1. n \in DOMAIN age
    <3>1. n \in DOMAIN log /\ Len(age) = Len(log) /\ age \in Seq(0 .. MaxAge) /\ log \in Seq(Messages)
      BY DEF Waiting, Meant, TypeOK
    <3> QED BY <3>1
  <2>2. age'[n] \in Nat /\ age'[n] <= age[n] + 1
    <3>1. age'[n] = IF \A k \in Instances : misses[k] = 2 \/ n \notin Waiting(k) THEN 0
                    ELSE IF age[n] < MaxAge THEN age[n] + 1 ELSE MaxAge
      BY <2>1 DEF Clock
    <3>2. age[n] \in Nat /\ age[n] <= MaxAge /\ MaxAge \in Nat
      <4>1. MaxAge \in Nat
        BY <1>1 DEF MaxAge
      <4>2. age \in Seq(0 .. MaxAge)
        BY DEF TypeOK
      <4>3. age[n] \in 0 .. MaxAge
        <5>1. n \in 1 .. Len(age)
          BY <2>1, <4>2
        <5> QED BY <4>2, <5>1, ElementOfSeq
      <4> QED BY <4>1, <4>3
    <3>3. age'[n] \in {0, age[n] + 1, MaxAge} /\ (age'[n] = MaxAge => age[n] = MaxAge \/ age'[n] \in {0, age[n] + 1})
      BY <3>1, <3>2
    <3> QED BY <3>2, <3>3
  <2>3. OnTime(i, n) /\ age[n] \in Nat
    BY <1>1, <1>10 DEF Late
  <2>4. pc[i] \in {"wait", "backoff"} /\ timer[i] > 0
    BY <1>5, <1>10 DEF Timing
  <2>5. age'[n] + timer'[i] <= age[n] + timer[i] /\ age'[n] + timer'[i] \in Nat
    BY <1>1, <1>6, <1>7, <2>2, <2>3, <2>4
  <2>6. pc'[i] = "wait" => age'[n] + timer'[i] <= LongestPause + Spent(i)'
    BY <1>1, <1>2, <1>9, <2>3, <2>5 DEF OnTime
  <2>7. pc'[i] = "backoff" => age'[n] + timer'[i] <= Spent(i)'
    BY <1>1, <1>2, <1>9, <2>3, <2>5 DEF OnTime
  <2>8. pc'[i] = "wait" /\ misses'[i] = 0 /\ urgentFor'[i] + timer'[i] > Interval
          => age'[n] + timer'[i] <= UrgentInterval
    <3> SUFFICES ASSUME pc[i] = "wait", misses[i] = 0, urgentFor'[i] + timer'[i] > Interval
                 PROVE  age'[n] + timer'[i] <= UrgentInterval
      BY <1>2
    <3>1. urgentFor[i] + timer[i] > Interval
      BY <1>1, <1>6, <1>7, <2>4
    <3> QED BY <1>1, <2>3, <2>5, <3>1 DEF OnTime
  <2> QED BY <1>2, <2>4, <2>6, <2>7, <2>8 DEF OnTime
<1> QED BY <1>2, <1>8, <1>9, <1>10 DEF Late

LEMMA LateInvStep == FeedInv /\ FeedInv' /\ LateInv /\ [Next]_vars => LateInv'
<1> SUFFICES ASSUME FeedInv, FeedInv', LateInv, [Next]_vars, NEW i \in Instances
             PROVE  Timing(i)' /\ Late(i)'
  BY DEF LateInv
<1>1. TypeOK /\ TypeOK' /\ HandsEmpty(i) /\ Timing(i) /\ Late(i)
  BY DEF FeedInv, LateInv
<1>2. ASSUME NEW a \in Instances, Listen(a) \/ Start(a) \/ Kill(a) \/ SetUrgency(a)
      PROVE  Timing(i)' /\ Late(i)'
  BY <1>1, <1>2, LateOthers, TimingStep, LateStep
<1>3. CASE UNCHANGED vars
  <2>1. Timing(i)' = Timing(i)
    BY <1>3 DEF vars, server, listener, history, Timing
  <2>2. Late(i)' = Late(i)
    BY <1>3 DEF vars, server, listener, history, Late, OnTime, Spent, Waiting, Meant, Taken, Held
  <2> QED BY <1>1, <2>1, <2>2
<1> QED BY <1>1, <1>2, <1>3, LateSend, LateClock DEF Next

LEMMA LateInit == Init => LateInv
<1> SUFFICES ASSUME Init, NEW i \in Instances PROVE Timing(i) /\ Late(i)
  BY DEF LateInv
<1> QED BY DEF Init, Timing, Late

\* A command waits an interval, and once more with a back-off after a failed
\* poll, whatever the other instances do (TelegramListener.run).
THEOREM CommandsInTime == Spec => []CommandLatency
<1>1. FeedInv /\ LateInv => CommandLatency
  <2> SUFFICES ASSUME FeedInv, LateInv, NEW i \in Instances, misses[i] < 2, NEW n \in Waiting(i)
               PROVE  age[n] <= LongestPause + misses[i] * (LongestPause + Backoff)
    BY DEF CommandLatency
  <2>1. Timing(i) /\ OnTime(i, n)
        /\ pc[i] \in {"off", "wait", "backoff", "store", "write", "queue"}
    BY DEF LateInv, Late, FeedInv, TypeOK
  <2>2. /\ LongestPause \in Nat /\ Backoff \in Nat /\ timer[i] \in Nat /\ misses[i] \in Nat
        /\ age[n] \in Nat /\ Spent(i) \in Nat
    BY Numbers DEF FeedInv
  <2>3. misses[i] = 0 \/ misses[i] = 1
    BY <2>2
  <2>4. misses[i] * (LongestPause + Backoff) = Spent(i)
    BY <2>2, <2>3 DEF Spent
  <2>5. age[n] <= LongestPause + Spent(i)
    BY <2>1, <2>2 DEF OnTime, Timing
  <2> QED BY <2>4, <2>5
<1> QED BY <1>1, FeedInit, FeedStep, LateInit, LateInvStep, PTL DEF Spec

\* After an interval of urgency a code waits no longer than the urgent interval
\* (poll_urgency; TelegramListener.run).
THEOREM CodesInTime == Spec => []UrgentLatency
<1>1. FeedInv /\ LateInv => UrgentLatency
  <2> SUFFICES ASSUME FeedInv, LateInv, NEW i \in Instances, urgentFor[i] > Interval, misses[i] = 0,
                      NEW n \in Waiting(i)
               PROVE  age[n] <= UrgentInterval
    BY DEF UrgentLatency
  <2>0. misses[i] < 2
    OBVIOUS
  <2>1. Timing(i) /\ OnTime(i, n)
        /\ pc[i] \in {"off", "wait", "backoff", "store", "write", "queue"}
    BY <2>0 DEF LateInv, Late, FeedInv, TypeOK
  <2>2. /\ Interval \in Nat /\ UrgentInterval \in Nat /\ timer[i] \in Nat
        /\ age[n] \in Nat /\ urgentFor[i] \in Nat
    BY Numbers DEF FeedInv
  <2>3. urgentFor[i] + timer[i] > Interval
    BY <2>2
  <2> QED BY <2>1, <2>2, <2>3 DEF OnTime, Timing
<1> QED BY <1>1, FeedInit, FeedStep, LateInit, LateInvStep, PTL DEF Spec
=============================================================================
