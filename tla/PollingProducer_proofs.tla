------------------------ MODULE PollingProducer_proofs ------------------------
(* For any targets, batches, queue and bounds: the events of a key reach the  *)
(* topic in the order of their times.                                         *)
EXTENDS PollingProducer, SequenceTheorems, TLAPS

Message == [key : Keys, time : Nat]

(* Nothing in s is older than what the topic has, or newer than the API.      *)
AfterTopic(s) == \A i \in 1..Len(s) : topic[s[i].key] <= s[i].time

NotAhead(s) ==
  \A i \in 1..Len(s) : \A t \in Target : s[i].key \in KeysOf(t) => s[i].time <= observed[t]

Sorted(s) ==
  \A i, j \in 1..Len(s) : i < j /\ s[i].key = s[j].key => s[i].time <= s[j].time

Before(s, u) ==
  \A i \in 1..Len(s), j \in 1..Len(u) : s[i].key = u[j].key => s[i].time <= u[j].time

Typed ==
  /\ at \in 1..Len(Targets)
  /\ observed \in [Target -> Nat] /\ topic \in [Keys -> Nat \union {-1}]
  /\ queue \in Seq(Message) /\ todo \in Seq(Message)

(* Along topic, queue, batch and API the times of a key go up.                *)
TimesGoUp ==
  /\ \A t \in Target : \A k \in KeysOf(t) : topic[k] <= observed[t]
  /\ AfterTopic(queue) /\ AfterTopic(todo)
  /\ NotAhead(queue) /\ NotAhead(todo)
  /\ Sorted(queue) /\ Sorted(todo) /\ Before(queue, todo)

OrderInv == Typed /\ TimesGoUp

LEMMA MessageAt ==
  ASSUME NEW s \in Seq(Message), NEW i \in 1..Len(s)
  PROVE  s[i].key \in Keys /\ s[i].time \in Nat
<1>1. s[i] \in Message
  BY ElementOfSeq
<1>. QED BY <1>1 DEF Message

LEMMA TargetsAre ==
  /\ Len(Targets) \in Nat /\ Len(Targets) > 0
  /\ \A i \in 1..Len(Targets) : Targets[i] \in Target
BY ConstantsAssumption, LenProperties, EmptySeq DEF Target

(* The steps of the loop that only move on.                                   *)
LEMMA MovesOn ==
  ASSUME OrderInv, UNCHANGED <<observed, todo, queue, topic>>, at' \in 1..Len(Targets)
  PROVE  OrderInv'
BY DEF OrderInv, Typed, TimesGoUp, AfterTopic, NotAhead, Sorted, Before

LEMMA NextTargetAt == ASSUME OrderInv, NextTarget PROVE at' \in 1..Len(Targets)
  BY TargetsAre DEF OrderInv, Typed, NextTarget

(* A process that ends or starts again, and one that gives its batch up.      *)
LEMMA Emptied ==
  ASSUME OrderInv, UNCHANGED <<observed, topic>>, at' \in 1..Len(Targets),
         todo' = <<>> \/ todo' = todo, queue' = <<>> \/ queue' = queue
  PROVE  OrderInv'
<1>1. <<>> \in Seq(Message) /\ Len(<<>>) = 0
  BY EmptySeq
<1>2. Typed'
  BY <1>1 DEF OrderInv, Typed
<1>3. \A i : i \notin 1..0
  OBVIOUS
<1>5. AfterTopic(queue)' /\ AfterTopic(todo)'
  BY <1>1, <1>3 DEF OrderInv, TimesGoUp, AfterTopic
<1>6. NotAhead(queue)' /\ NotAhead(todo)'
  BY <1>1, <1>3 DEF OrderInv, TimesGoUp, NotAhead
<1>7. Sorted(queue)' /\ Sorted(todo)' /\ Before(queue, todo)'
  BY <1>1, <1>3 DEF OrderInv, TimesGoUp, Sorted, Before
<1>8. \A t \in Target : \A k \in KeysOf(t) : topic'[k] <= observed'[t]
  BY DEF OrderInv, TimesGoUp
<1>. QED BY <1>2, <1>5, <1>6, <1>7, <1>8 DEF OrderInv, TimesGoUp

LEMMA ApiMoves ==
  ASSUME OrderInv, NEW t \in Target, Observe(t)
  PROVE  OrderInv'
<1>1. UNCHANGED <<at, todo, queue, topic>>
  BY DEF Observe, loop
<1>2. /\ observed \in [Target -> Nat] /\ observed' \in [Target -> Nat]
      /\ \A u \in Target : observed[u] <= observed'[u]
  BY DEF Observe, OrderInv, Typed
<1>3. Typed'
  BY <1>1, <1>2 DEF OrderInv, Typed
<1>4. NotAhead(queue)' /\ NotAhead(todo)'
  <2>1. ASSUME NEW s \in Seq(Message), NotAhead(s),
               NEW i \in 1..Len(s), NEW u \in Target, s[i].key \in KeysOf(u)
        PROVE  s[i].time <= observed'[u]
    BY <1>2, <2>1, MessageAt DEF NotAhead
  <2>. QED BY <1>1, <2>1 DEF OrderInv, Typed, TimesGoUp, NotAhead
<1>5. \A u \in Target : \A k \in KeysOf(u) : topic'[k] <= observed'[u]
  <2>1. \A u \in Target : \A k \in KeysOf(u) : k \in Keys
    BY DEF Keys
  <2>. QED BY <1>1, <1>2, <2>1 DEF OrderInv, Typed, TimesGoUp
<1>. QED BY <1>1, <1>3, <1>4, <1>5 DEF OrderInv, TimesGoUp, AfterTopic, Sorted, Before

(* A new batch has the time of the API, and so have its keys in no other      *)
(* target's batch.                                                            *)
LEMMA Answered ==
  ASSUME OrderInv, FetchAnswers
  PROVE  OrderInv'
<1> DEFINE t == Targets[at]
<1>0. UNCHANGED <<observed, at, queue, topic>>
  BY DEF FetchAnswers
<1>1. t \in Target /\ Batch[t] \in Seq(Keys) /\ Len(Batch[t]) \in Nat
  BY TargetsAre, ConstantsAssumption, LenProperties DEF OrderInv, Typed
<1>2. observed[t] \in Nat
  BY <1>1 DEF OrderInv, Typed
<1>3. \A i \in 1..Len(Batch[t]) : [key |-> Batch[t][i], time |-> observed[t]] \in Message
  BY <1>1, <1>2, ElementOfSeq DEF Message
<1>4. todo' = [i \in 1..Len(Batch[t]) |-> [key |-> Batch[t][i], time |-> observed[t]]]
  BY DEF FetchAnswers
<1> HIDE DEF t
<1>5. todo' \in Seq(Message) /\ Len(todo') = Len(Batch[t])
  BY <1>1, <1>3, <1>4, IsASeq
<1>6. \A i \in 1..Len(todo') : todo'[i].key \in KeysOf(t) /\ todo'[i].time = observed[t]
  BY <1>4, <1>5 DEF KeysOf
<1>7. Typed'
  BY <1>0, <1>5 DEF OrderInv, Typed
<1>8. AfterTopic(todo)'
  BY <1>0, <1>1, <1>6 DEF OrderInv, TimesGoUp, AfterTopic
<1>9. NotAhead(todo)'
  <2>1. \A u \in Target : u = t \/ KeysOf(t) \intersect KeysOf(u) = {}
    BY <1>1, ConstantsAssumption
  <2>. QED BY <1>0, <1>2, <1>6, <2>1 DEF NotAhead
<1>10. Sorted(todo)'
  BY <1>2, <1>6 DEF Sorted
<1>11. Before(queue, todo)'
  BY <1>0, <1>1, <1>6 DEF OrderInv, TimesGoUp, NotAhead, Before
<1>. QED BY <1>0, <1>7, <1>8, <1>9, <1>10, <1>11
         DEF OrderInv, TimesGoUp, AfterTopic, NotAhead, Sorted

(* The first event of the batch goes to the end of the queue.                 *)
LEMMA Enqueued ==
  ASSUME OrderInv, todo # <<>>, queue' = Append(queue, Head(todo)), todo' = Tail(todo),
         UNCHANGED <<observed, at, topic>>
  PROVE  OrderInv'
<1> DEFINE e == Head(todo)
<1>1. /\ e = todo[1] /\ e \in Message /\ Len(todo) \in Nat \ {0}
      /\ todo' \in Seq(Message) /\ Len(todo') = Len(todo) - 1
      /\ \A i \in 1..Len(todo') : todo'[i] = todo[i + 1]
  BY HeadTailProperties, LenProperties, EmptySeq DEF OrderInv, Typed
<1>2. /\ queue' \in Seq(Message) /\ Len(queue) \in Nat /\ Len(queue') = Len(queue) + 1
      /\ queue'[Len(queue) + 1] = e
      /\ \A i \in 1..Len(queue) : queue'[i] = queue[i]
  BY <1>1, AppendProperties, LenProperties DEF OrderInv, Typed
<1> HIDE DEF e
<1>3. Typed'
  BY <1>1, <1>2 DEF OrderInv, Typed
<1>4. /\ \A i \in 1..Len(queue') : i \in 1..Len(queue) \/ i = Len(queue) + 1
      /\ \A i \in 1..Len(todo') : i + 1 \in 1..Len(todo) /\ 1 < i + 1
      /\ 1 \in 1..Len(todo)
  BY <1>1, <1>2
<1>5. AfterTopic(queue)' /\ AfterTopic(todo)'
  BY <1>1, <1>2, <1>4 DEF OrderInv, TimesGoUp, AfterTopic
<1>6. NotAhead(queue)' /\ NotAhead(todo)'
  BY <1>1, <1>2, <1>4 DEF OrderInv, TimesGoUp, NotAhead
<1>7. Sorted(queue)'
  <2>1. ASSUME NEW i \in 1..Len(queue), NEW j \in 1..Len(queue), i < j,
               queue'[i].key = queue'[j].key
        PROVE  queue'[i].time <= queue'[j].time
    BY <1>2, <2>1 DEF OrderInv, TimesGoUp, Sorted
  <2>2. ASSUME NEW i \in 1..Len(queue), queue'[i].key = e.key
        PROVE  queue'[i].time <= e.time
    BY <1>1, <1>2, <1>4, <2>2 DEF OrderInv, TimesGoUp, Before
  <2>3. ASSUME NEW i \in 1..Len(queue'), NEW j \in 1..Len(queue'), i < j
        PROVE  i \in 1..Len(queue)
    BY <1>2, <2>3
  <2>4. ASSUME NEW i \in 1..Len(queue'), NEW j \in 1..Len(queue'), i < j,
               queue'[i].key = queue'[j].key
        PROVE  queue'[i].time <= queue'[j].time
    <3>1. i \in 1..Len(queue)
      BY <2>3, <2>4
    <3>2. CASE j \in 1..Len(queue)
      BY <2>1, <2>4, <3>1, <3>2
    <3>3. CASE j = Len(queue) + 1
      BY <1>2, <2>2, <2>4, <3>1, <3>3
    <3>. QED BY <1>4, <3>2, <3>3
  <2>. QED BY <2>4 DEF Sorted
<1>8. Sorted(todo)'
  BY <1>1, <1>4 DEF OrderInv, TimesGoUp, Sorted
<1>9. Before(queue, todo)'
  <2>1. ASSUME NEW i \in 1..Len(queue), NEW j \in 1..Len(todo'),
               queue'[i].key = todo'[j].key
        PROVE  queue'[i].time <= todo'[j].time
    BY <1>1, <1>2, <1>4, <2>1 DEF OrderInv, TimesGoUp, Before
  <2>2. ASSUME NEW j \in 1..Len(todo'), e.key = todo'[j].key
        PROVE  e.time <= todo'[j].time
    BY <1>1, <1>4, <2>2 DEF OrderInv, TimesGoUp, Sorted
  <2>3. ASSUME NEW i \in 1..Len(queue'), NEW j \in 1..Len(todo'),
               queue'[i].key = todo'[j].key
        PROVE  queue'[i].time <= todo'[j].time
    <3>1. CASE i \in 1..Len(queue)
      BY <2>1, <2>3, <3>1
    <3>2. CASE i = Len(queue) + 1
      BY <1>2, <2>2, <2>3, <3>2
    <3>. QED BY <1>4, <3>1, <3>2
  <2>. QED BY <2>3 DEF Before
<1>. QED BY <1>3, <1>5, <1>6, <1>7, <1>8, <1>9 DEF OrderInv, TimesGoUp

(* The client's thread takes the first event from the queue.                  *)
LEMMA Dequeued ==
  ASSUME OrderInv, queue # <<>>, queue' = Tail(queue), UNCHANGED <<observed, at, todo>>,
         topic' = topic \/ topic' = [topic EXCEPT ![Head(queue).key] = Head(queue).time]
  PROVE  OrderInv' /\ \A k \in Keys : topic'[k] >= topic[k]
<1> DEFINE e == Head(queue)
<1>1. /\ e = queue[1] /\ e \in Message /\ Len(queue) \in Nat \ {0}
      /\ queue' \in Seq(Message) /\ Len(queue') = Len(queue) - 1
      /\ \A i \in 1..Len(queue') : queue'[i] = queue[i + 1]
  BY HeadTailProperties, LenProperties, EmptySeq DEF OrderInv, Typed
<1>2. topic' = topic \/ topic' = [topic EXCEPT ![e.key] = e.time]
  OBVIOUS
<1> HIDE DEF e
<1>3. e.key \in Keys /\ e.time \in Nat
  BY <1>1 DEF Message
<1>4. /\ \A i \in 1..Len(queue') : i + 1 \in 1..Len(queue) /\ 1 < i + 1
      /\ 1 \in 1..Len(queue)
  BY <1>1
<1>5. topic \in [Keys -> Nat \union {-1}] /\ topic' \in [Keys -> Nat \union {-1}]
  <2>1. CASE topic' = topic
    BY <2>1 DEF OrderInv, Typed
  <2>2. CASE topic' = [topic EXCEPT ![e.key] = e.time]
    BY <1>3, <2>2 DEF OrderInv, Typed
  <2>. QED BY <1>2, <2>1, <2>2
<1>6. \A k \in Keys : topic'[k] = topic[k] \/ (k = e.key /\ topic'[k] = e.time)
  <2>1. CASE topic' = topic
    BY <2>1
  <2>2. CASE topic' = [topic EXCEPT ![e.key] = e.time]
    BY <1>3, <1>5, <2>2
  <2>. QED BY <1>2, <2>1, <2>2
<1>7. topic[e.key] <= e.time
  BY <1>1, <1>4 DEF OrderInv, TimesGoUp, AfterTopic
<1>8. \A k \in Keys : topic'[k] >= topic[k]
  BY <1>3, <1>5, <1>6, <1>7
<1>9. Typed'
  BY <1>1, <1>5 DEF OrderInv, Typed
<1>10. AfterTopic(queue)'
  <2> SUFFICES ASSUME NEW i \in 1..Len(queue') PROVE topic'[queue'[i].key] <= queue'[i].time
    BY DEF AfterTopic
  <2>1. queue'[i] = queue[i + 1] /\ queue[i + 1].key \in Keys
    BY <1>1, <1>4, MessageAt DEF OrderInv, Typed
  <2>2. topic[queue[i + 1].key] <= queue[i + 1].time
    BY <1>4 DEF OrderInv, TimesGoUp, AfterTopic
  <2>3. queue[i + 1].key = e.key => e.time <= queue[i + 1].time
    BY <1>1, <1>4 DEF OrderInv, TimesGoUp, Sorted
  <2>. QED BY <1>6, <2>1, <2>2, <2>3
<1>11. AfterTopic(todo)'
  <2> SUFFICES ASSUME NEW i \in 1..Len(todo) PROVE topic'[todo[i].key] <= todo[i].time
    BY DEF AfterTopic
  <2>1. todo[i].key \in Keys /\ topic[todo[i].key] <= todo[i].time
    BY MessageAt DEF OrderInv, Typed, TimesGoUp, AfterTopic
  <2>2. todo[i].key = e.key => e.time <= todo[i].time
    BY <1>1, <1>4 DEF OrderInv, TimesGoUp, Before
  <2>. QED BY <1>6, <2>1, <2>2
<1>12. NotAhead(queue)' /\ NotAhead(todo)'
  BY <1>1, <1>4 DEF OrderInv, TimesGoUp, NotAhead
<1>13. Sorted(queue)' /\ Sorted(todo)'
  BY <1>1, <1>4 DEF OrderInv, TimesGoUp, Sorted
<1>14. Before(queue, todo)'
  BY <1>1, <1>4 DEF OrderInv, TimesGoUp, Before
<1>15. \A t \in Target : \A k \in KeysOf(t) : topic'[k] <= observed'[t]
  <2> SUFFICES ASSUME NEW t \in Target, NEW k \in KeysOf(t) PROVE topic'[k] <= observed[t]
    OBVIOUS
  <2>1. k \in Keys /\ topic[k] <= observed[t]
    BY DEF Keys, OrderInv, TimesGoUp
  <2>2. k = e.key => e.time <= observed[t]
    BY <1>1, <1>4 DEF OrderInv, TimesGoUp, NotAhead
  <2>. QED BY <1>6, <2>1, <2>2
<1>16. TimesGoUp'
  BY <1>10, <1>11, <1>12, <1>13, <1>14, <1>15 DEF TimesGoUp
<1>. QED BY <1>8, <1>9, <1>16 DEF OrderInv

Ordered == \A k \in Keys : topic'[k] >= topic[k]

LEMMA TopicAlone == ASSUME OrderInv, topic' = topic PROVE Ordered
  BY DEF OrderInv, Typed, Ordered

LEMMA ProducerStep ==
  ASSUME OrderInv, [Next]_vars
  PROVE  OrderInv' /\ Ordered
<1>0. at \in 1..Len(Targets) /\ 1 \in 1..Len(Targets)
  BY TargetsAre DEF OrderInv, Typed
<1>1. ASSUME NEW t \in Target, Observe(t) PROVE OrderInv' /\ Ordered
  BY <1>1, ApiMoves, TopicAlone DEF Observe
<1>2. CASE FetchAnswers
  BY <1>2, Answered, TopicAlone DEF FetchAnswers
<1>3. CASE FetchUnusable \/ FetchFails \/ Produced
  <2>1. UNCHANGED <<observed, todo, queue, topic>> /\ (NextTarget \/ at' = at)
    BY <1>3 DEF FetchUnusable, FetchFails, Produced
  <2>. QED BY <1>0, <2>1, MovesOn, NextTargetAt, TopicAlone
<1>4. CASE ParseRaises \/ Flush \/ Sleep \/ Signal
  <2>1. UNCHANGED <<observed, todo, queue, topic>> /\ (at' = 1 \/ at' = at)
    BY <1>4 DEF ParseRaises, Flush, Sleep, Signal
  <2>. QED BY <1>0, <2>1, MovesOn, TopicAlone
<1>5. CASE Produce
  <2>1. UNCHANGED <<observed, at, topic>> /\ todo # <<>>
    BY <1>5 DEF Produce
  <2>2. \/ queue' = Append(queue, Head(todo)) /\ todo' = Tail(todo)
        \/ queue' = queue /\ todo' = <<>>
    BY <1>5 DEF Produce
  <2>. QED BY <1>0, <2>1, <2>2, Enqueued, Emptied, TopicAlone
<1>6. CASE Exit \/ Killed \/ Restart
  <2>1. /\ UNCHANGED <<observed, topic>> /\ (at' = 1 \/ at' = at)
        /\ queue' = <<>> /\ (todo' = <<>> \/ todo' = todo)
    BY <1>6 DEF Exit, Killed, Restart
  <2>. QED BY <1>0, <2>1, Emptied, TopicAlone
<1>7. CASE Deliver \/ MessageTimesOut
  <2>1. /\ queue # <<>> /\ queue' = Tail(queue) /\ UNCHANGED <<observed, at, todo>>
        /\ topic' = topic \/ topic' = [topic EXCEPT ![Head(queue).key] = Head(queue).time]
    BY <1>7 DEF Deliver, MessageTimesOut, loop
  <2>. QED BY <2>1, Dequeued DEF Ordered
<1>8. CASE UNCHANGED vars
  BY <1>0, <1>8, MovesOn, TopicAlone DEF vars, loop
<1>. QED BY <1>1, <1>2, <1>3, <1>4, <1>5, <1>6, <1>7, <1>8 DEF Next, Loop

(* The topic never goes back in time under a key: not by a retry of the       *)
(* fetch, an event that timed out, a full queue or the end of the process     *)
(* (hotspot_producer.py and subway_producer.py run, enable.idempotence).      *)
THEOREM KeysInOrder == Spec => KeyOrder
<1>1. Init => OrderInv
  <2> SUFFICES ASSUME Init PROVE OrderInv
    OBVIOUS
  <2>1. <<>> \in Seq(Message) /\ Len(queue) = 0 /\ Len(todo) = 0
    BY EmptySeq DEF Init
  <2>2. Typed
    BY <2>1, TargetsAre DEF Init, Typed
  <2>3. \A t \in Target : \A k \in KeysOf(t) : topic[k] <= observed[t]
    BY DEF Init, Keys
  <2>. QED BY <2>1, <2>2, <2>3
           DEF OrderInv, TimesGoUp, AfterTopic, NotAhead, Sorted, Before
<1>2. OrderInv /\ [Next]_vars => [\A k \in Keys : topic'[k] >= topic[k]]_vars
  BY ProducerStep DEF Ordered
<1>. QED BY <1>1, <1>2, ProducerStep, PTL DEF Spec, KeyOrder
===============================================================================
