--------------------------- MODULE PollingProducer ---------------------------
(***************************************************************************)
(* The two Seoul OpenAPI producers, src/src/producers/hotspot_producer.py  *)
(* and subway_producer.py: the same loop over a list of targets (areas,    *)
(* stations), one fetch with retries per target, the events of its answer  *)
(* into the Kafka client's queue, a flush, a sleep, until a signal.        *)
(*                                                                         *)
(* The time of an event is the number of the API answer it came with; the  *)
(* API is taken to move forward.                                           *)
(*                                                                         *)
(* The queue is the client's: a thread of its own delivers it in order     *)
(* (enable.idempotence), gives a message up after message.timeout.ms, and  *)
(* forgets everything when the process dies.  Nothing in the code listens  *)
(* to delivery reports.                                                    *)
(***************************************************************************)
EXTENDS Integers, Sequences, FiniteSets

CONSTANTS
  Targets,       \* the areas (or stations), in the order of the loop: a sequence
  Batch,         \* the keys of the events that one answer about a target has
  MaxQueue,      \* queue.buffering.max.messages of the Kafka client
  PollSeconds,   \* the poll interval
  MaxTime        \* bound: observations per target

Attempts == 3    \* stop_after_attempt(3)

Target == {Targets[i] : i \in 1..Len(Targets)}
KeysOf(t) == {Batch[t][i] : i \in 1..Len(Batch[t])}
Keys == UNION {KeysOf(t) : t \in Target}

ASSUME ConstantsAssumption ==
  /\ Targets \in Seq(Target) /\ Targets # <<>>
  /\ \A t \in Target : Batch[t] \in Seq(Keys)
  /\ \A i, j \in 1..Len(Targets) : i # j => Targets[i] # Targets[j]
  /\ \A t, u \in Target : t # u => KeysOf(t) \intersect KeysOf(u) = {}
  /\ MaxQueue \in Nat \ {0} /\ PollSeconds \in Nat
  /\ MaxTime \in Nat

VARIABLES
  observed,   \* the API: the time of what it says now about a target
  pc,         \* "fetch", "produce", "flush", "sleep", "final" or "down"
  stop,       \* the flag the signal handler sets
  at,         \* the place in Targets
  attempt,    \* the attempt at this fetch
  todo,       \* the events of the answer that are still to be produced
  left,       \* the seconds of the sleep that are left
  queue,      \* the Kafka client's queue
  topic       \* the time of the last event delivered under a key, -1 before it

loop == <<pc, stop, at, attempt, todo, left>>
vars == <<observed, loop, queue, topic>>

-----------------------------------------------------------------------------
Init ==
  /\ observed = [t \in Target |-> 0]
  /\ pc = "fetch" /\ stop = FALSE
  /\ at = 1 /\ attempt = 1 /\ todo = <<>> /\ left = 0
  /\ queue = <<>>
  /\ topic = [k \in Keys |-> -1]

(* The API moves on.                                                       *)
Observe(t) ==
  /\ observed[t] < MaxTime
  /\ observed' = [observed EXCEPT ![t] = @ + 1]
  /\ UNCHANGED <<loop, queue, topic>>

-----------------------------------------------------------------------------
(* The for loop.  The stop flag is not read in it.                         *)

(* Mutant of NextTarget: the cycle ends at the first target that fails. *)
BreakOut ==
  /\ pc' = IF attempt = Attempts THEN "flush" ELSE IF at < Len(Targets) THEN "fetch" ELSE "flush"
  /\ at' = IF at < Len(Targets) THEN at + 1 ELSE at
  /\ attempt' = 1

(* `continue`, or the end of the loop's body.                              *)
NextTarget ==
  /\ IF at < Len(Targets)
     THEN pc' = "fetch" /\ at' = at + 1
     ELSE pc' = "flush" /\ at' = at
  /\ attempt' = 1

FetchAnswers ==
  /\ pc = "fetch"
  /\ LET t == Targets[at]
     IN  todo' = [i \in 1..Len(Batch[t]) |-> [key |-> Batch[t][i], time |-> observed[t]]]
  /\ pc' = "produce"
  /\ UNCHANGED <<observed, stop, at, attempt, left, queue, topic>>

(* The answer holds nothing: an error code, no observation, a bad time.    *)
FetchUnusable ==
  /\ pc = "fetch"
  /\ NextTarget
  /\ UNCHANGED <<observed, stop, todo, left, queue, topic>>

(* Three attempts; the third failure is caught and the target skipped.     *)
FetchFails ==
  /\ pc = "fetch"
  /\ \/ /\ attempt < Attempts
        /\ attempt' = attempt + 1
        /\ UNCHANGED <<pc, at>>
     \/ /\ attempt = Attempts
        /\ NextTarget
  /\ UNCHANGED <<observed, stop, todo, left, queue, topic>>

(* The answer has another shape than the parser takes for granted (a null  *)
(* name, no object): the parser is called outside of the try, and its      *)
(* exception leaves run() through the finally, as often as it happens.     *)
ParseRaises ==
  /\ pc = "fetch"
  /\ pc' = "final"
  /\ UNCHANGED <<observed, stop, at, attempt, todo, left, queue, topic>>

(* produce_json.  A full queue raises BufferError, which nothing catches:  *)
(* the exception leaves run() through its finally.                         *)
Produce ==
  /\ pc = "produce" /\ todo # <<>>
  /\ \/ /\ Len(queue) < MaxQueue
        /\ queue' = Append(queue, Head(todo))
        /\ todo' = Tail(todo)
        /\ UNCHANGED pc
     \/ /\ Len(queue) = MaxQueue
        /\ pc' = "final"
        /\ todo' = <<>>
        /\ UNCHANGED queue
  /\ UNCHANGED <<observed, stop, at, attempt, left, topic>>

Produced ==
  /\ pc = "produce" /\ todo = <<>>
  /\ NextTarget
  /\ UNCHANGED <<observed, stop, todo, left, queue, topic>>

-----------------------------------------------------------------------------
(* Mutant of Flush: a flush without a timeout. *)
FlushAll ==
  /\ pc = "flush" /\ queue = <<>>
  /\ \E seconds \in 0..PollSeconds : left' = seconds
  /\ pc' = "sleep"
  /\ UNCHANGED <<observed, stop, at, attempt, todo, queue, topic>>

(* producer.flush(timeout=10) comes back with an empty queue or after ten  *)
(* seconds, and its result is not looked at.  What is left of the poll     *)
(* interval, perhaps nothing, is the sleep.                                *)
Flush ==
  /\ pc = "flush"
  /\ \E seconds \in 0..PollSeconds : left' = seconds
  /\ pc' = "sleep"
  /\ UNCHANGED <<observed, stop, at, attempt, todo, queue, topic>>

(* One second, the flag first; then the condition of the while loop.       *)
Sleep ==
  /\ pc = "sleep"
  /\ \/ /\ ~stop /\ left > 0
        /\ left' = left - 1
        /\ UNCHANGED <<pc, at>>
     \/ /\ ~stop /\ left = 0
        /\ pc' = "fetch" /\ at' = 1
        /\ UNCHANGED left
     \/ /\ stop
        /\ pc' = "final" /\ left' = 0
        /\ UNCHANGED at
  /\ UNCHANGED <<observed, stop, attempt, todo, queue, topic>>

(* The flush of the finally clause, then the end of the process: what the  *)
(* queue still holds is lost.                                              *)
Exit ==
  /\ pc = "final"
  /\ pc' = "down"
  /\ queue' = <<>>
  /\ UNCHANGED <<observed, stop, at, attempt, todo, left, topic>>

-----------------------------------------------------------------------------
(* The Kafka client's thread.                                              *)

(* Mutant of Deliver: retries without enable.idempotence change the order. *)
DeliverUnordered ==
  /\ \E i \in 1..Len(queue) :
       /\ topic' = [topic EXCEPT ![queue[i].key] = queue[i].time]
       /\ queue' = SubSeq(queue, 1, i - 1) \o SubSeq(queue, i + 1, Len(queue))
  /\ UNCHANGED <<observed, loop>>

Deliver ==
  /\ queue # <<>>
  /\ topic' = [topic EXCEPT ![Head(queue).key] = Head(queue).time]
  /\ queue' = Tail(queue)
  /\ UNCHANGED <<observed, loop>>

(* The brokers did not take the message within message.timeout.ms.         *)
MessageTimesOut ==
  /\ queue # <<>>
  /\ queue' = Tail(queue)
  /\ UNCHANGED <<observed, loop, topic>>

-----------------------------------------------------------------------------
Signal ==
  /\ pc # "down" /\ ~stop
  /\ stop' = TRUE
  /\ UNCHANGED <<observed, pc, at, attempt, todo, left, queue, topic>>

Killed ==
  /\ pc # "down"
  /\ pc' = "down"
  /\ todo' = <<>> /\ queue' = <<>>
  /\ UNCHANGED <<observed, stop, at, attempt, left, topic>>

(* systemd: Restart=always.                                                *)
Restart ==
  /\ pc = "down"
  /\ pc' = "fetch" /\ stop' = FALSE
  /\ at' = 1 /\ attempt' = 1 /\ todo' = <<>> /\ left' = 0
  /\ queue' = <<>>
  /\ UNCHANGED <<observed, topic>>

-----------------------------------------------------------------------------
Loop ==
  \/ FetchAnswers \/ FetchUnusable \/ FetchFails \/ ParseRaises
  \/ Produce \/ Produced \/ Flush \/ Sleep \/ Exit

Next ==
  \/ \E t \in Target : Observe(t)
  \/ Loop
  \/ Deliver \/ MessageTimesOut
  \/ Signal \/ Killed \/ Restart

Spec == Init /\ [][Next]_vars

(* The loop goes on (every wait in it has a timeout) and systemd restarts  *)
(* the process; nothing is assumed of the brokers.                         *)
FairSpec == Spec /\ WF_vars(Loop) /\ WF_vars(Restart)

-----------------------------------------------------------------------------
(* The events of a key never go back in time on the topic, through retries *)
(* of the fetch and of the delivery, skipped targets, a full queue and any *)
(* end of the process.                                                     *)
KeyOrder == [][\A k \in Keys : topic'[k] >= topic[k]]_vars

RaisesAt(i) == ParseRaises /\ at = i

(* Killed in the middle of a cycle; at its end Exit is no different.       *)
KilledInside == Killed /\ pc # "final"

(* Every target is asked again and again, whatever its fetch and those of  *)
(* the others come to, with the brokers there or not, the queue full and   *)
(* signals at any time, with two exceptions.  An earlier target whose      *)
(* answer makes the parser raise again and again keeps the loop from it:   *)
(* each new process begins with the first target.  And so does a process   *)
(* that is killed again and again.                                         *)
NoTargetStarves ==
  \A i \in 1..Len(Targets) :
    \/ []<>(pc = "fetch" /\ at = i)
    \/ \E j \in 1..(i - 1) : []<><<RaisesAt(j)>>_vars
    \/ []<><<KilledInside>>_vars

(* A signal ends the process, with the brokers there or not.               *)
SignalEnds == stop ~> pc = "down"
=============================================================================
