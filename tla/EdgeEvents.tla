----------------------------- MODULE EdgeEvents -----------------------------
(***************************************************************************)
(* The way of a visitor's events: the page (events-client.ts) posts a      *)
(* batch, the Edge handler (route.ts) stamps it with the visitor's anon_id *)
(* and forwards it, the receiver (http-receiver/app.py) writes it to       *)
(* user.events.v1 event by event.                                          *)
(*                                                                         *)
(* The page does not wait for one post before the next: a click on a       *)
(* district posts two.  The Edge handler waits four seconds for the head   *)
(* of the receiver's answer, and without a limit for its body; the         *)
(* receiver does not know whether anybody waits.                           *)
(*                                                                         *)
(* The Edge handler takes any body; the page makes good ones of one event. *)
(* There is one browser.  An anon_id is the number of the post it was made *)
(* for, 0 is no cookie.  The partition of a key is the order of its        *)
(* events, one sequence per anon_id.                                       *)
(***************************************************************************)
EXTENDS Integers, Sequences, FiniteSets

CONSTANTS
  MaxPosts,    \* bound: posts of the browser
  Bodies       \* bodies: [json, events]; an event is "good", "rejected" by the
               \* Edge handler or "invalid" for the receiver only

ASSUME ConstantsAssumption ==
  /\ MaxPosts \in Nat
  /\ \A b \in Bodies : b.json \in BOOLEAN
                       /\ b.events \in Seq({"good", "rejected", "invalid"})

VARIABLES
  configured,  \* EVENTS_RECEIVER_BASE and RECEIVER_TOKEN are set
  cookie,      \* the anon_id the browser has
  sent,        \* how many posts it has made
  post,        \* per post: [pc, body, header, anon, status, accepted]
  handling,    \* per post, the receiver: [pc, next], the event it is at
  topic        \* per anon_id, what was published: [post, event]

vars == <<configured, cookie, sent, post, handling, topic>>

Posts == 1..MaxPosts

(* The events the Edge handler forwards, by their place in the body.       *)
validateEvents(body) == {i \in 1..Len(body.events) : body.events[i] # "rejected"}

Forwarded(p) == validateEvents(post[p].body)

NoBody == [json |-> FALSE, events |-> <<>>]

Init ==
  /\ configured \in BOOLEAN
  /\ cookie = 0
  /\ sent = 0
  /\ post = [p \in Posts |-> [pc |-> "none", body |-> NoBody, header |-> 0, anon |-> 0,
                              status |-> 0, accepted |-> 0]]
  /\ handling = [p \in Posts |-> [pc |-> "none", next |-> 0]]
  /\ topic = [a \in Posts |-> <<>>]

-----------------------------------------------------------------------------
(* postEvents: the browser adds its cookie.                                *)
PostEvents ==
  /\ sent < MaxPosts
  /\ sent' = sent + 1
  /\ \E body \in Bodies :
       post' = [post EXCEPT ![sent'] =
                 [@ EXCEPT !.pc = "posted", !.body = body, !.header = cookie]]
  /\ UNCHANGED <<configured, cookie, handling, topic>>

(* The Edge handler answers: accepted, and a cookie if it made one and the *)
(* status is 200.                                                          *)
Answer(p, anon, status, accepted) ==
  post' = [post EXCEPT ![p].pc = "answered", ![p].anon = anon,
                       ![p].status = status, ![p].accepted = accepted]

(* Mutant of getOrCreateAnonId: the cookie is not recognised.              *)
getNewAnonId(p) == [anonId |-> p, setCookie |-> p]

getOrCreateAnonId(p) ==
  IF post[p].header # 0 THEN [anonId |-> post[p].header, setCookie |-> 0]
  ELSE [anonId |-> p, setCookie |-> p]

AnonId(p) == getOrCreateAnonId(p).anonId

(* POST up to the call of the receiver.                                    *)
Handle(p) ==
  /\ post[p].pc = "posted"
  /\ \/ /\ ~configured
        /\ Answer(p, 0, 503, 0)
        /\ UNCHANGED handling
     \/ /\ configured /\ ~post[p].body.json
        /\ Answer(p, 0, 400, 0)
        /\ UNCHANGED handling
     \/ /\ configured /\ post[p].body.json /\ Forwarded(p) = {}
        /\ Answer(p, AnonId(p), 200, 0)
        /\ UNCHANGED handling
     \/ /\ configured /\ post[p].body.json /\ Forwarded(p) # {}
        /\ post' = [post EXCEPT ![p].pc = "waiting", ![p].anon = AnonId(p)]
        /\ handling' = [handling EXCEPT ![p].pc = "coming"]
  /\ UNCHANGED <<configured, cookie, sent, topic>>

(* The head of the receiver's answer reaches the Edge handler in time: the  *)
(* timer is cleared, and what is not ok is answered at once.               *)
UpstreamAnswers(p) ==
  /\ post[p].pc = "waiting"
  /\ \/ /\ handling[p].pc = "ok"
        /\ post' = [post EXCEPT ![p].pc = "reading"]
     \/ /\ handling[p].pc = "error"
        /\ Answer(p, post[p].anon, 502, 0)
  /\ UNCHANGED <<configured, cookie, sent, handling, topic>>

(* Its body is there, or breaks off; nothing bounds the time.  If it cannot *)
(* be read, what was forwarded counts: the same number.                    *)
ReadBody(p) ==
  /\ post[p].pc = "reading"
  /\ Answer(p, post[p].anon, 200, Cardinality(Forwarded(p)))
  /\ UNCHANGED <<configured, cookie, sent, handling, topic>>

(* No head of an answer: the connection breaks, whatever the receiver did.  *)
FetchFails(p) ==
  /\ post[p].pc = "waiting"
  /\ Answer(p, post[p].anon, 502, 0)
  /\ UNCHANGED <<configured, cookie, sent, handling, topic>>

(* Mutant of Timeout: the handler waits as long as the receiver works.     *)
TimeoutOnceDone(p) ==
  /\ post[p].pc = "waiting" /\ handling[p].pc \in {"ok", "error"}
  /\ Answer(p, post[p].anon, 504, 0)
  /\ UNCHANGED <<configured, cookie, sent, handling, topic>>

(* UPSTREAM_TIMEOUT_MS, up to the head of the answer.                      *)
Timeout(p) ==
  /\ post[p].pc = "waiting"
  /\ Answer(p, post[p].anon, 504, 0)
  /\ UNCHANGED <<configured, cookie, sent, handling, topic>>

(* The answer reaches the browser, or is lost.                             *)
BrowserSees(p) ==
  /\ post[p].pc = "answered"
  /\ post' = [post EXCEPT ![p].pc = "seen"]
  /\ LET id == getOrCreateAnonId(p).setCookie
     IN  cookie' = IF post[p].status = 200 /\ id # 0 THEN id ELSE cookie
  /\ UNCHANGED <<configured, sent, handling, topic>>

AnswerLost(p) ==
  /\ post[p].pc = "answered"
  /\ post' = [post EXCEPT ![p].pc = "lost"]
  /\ UNCHANGED <<configured, cookie, sent, handling, topic>>

-----------------------------------------------------------------------------
First(S) == CHOOSE i \in S : \A j \in S : i <= j

(* The receiver: pydantic refuses a batch as a whole.                      *)
Receive(p) ==
  /\ handling[p].pc = "coming"
  /\ handling' = [handling EXCEPT ![p] =
       IF \E i \in Forwarded(p) : post[p].body.events[i] = "invalid"
       THEN [@ EXCEPT !.pc = "error"]
       ELSE [pc |-> "publishing", next |-> First(Forwarded(p))]]
  /\ UNCHANGED <<configured, cookie, sent, post, topic>>

Event(p) == [post |-> p, event |-> handling[p].next]

Published(p) == topic' = [topic EXCEPT ![post[p].anon] = Append(@, Event(p))]

(* One turn of the loop or, after the last, the answer.                    *)
LoopOn(p) ==
  LET rest == {i \in Forwarded(p) : i > handling[p].next}
  IN  handling' = [handling EXCEPT ![p] =
        IF rest # {} THEN [@ EXCEPT !.next = First(rest)] ELSE [@ EXCEPT !.pc = "ok"]]

(* Mutant of Publish: events sent without waiting for the one before.      *)
PublishAny(p) ==
  /\ handling[p].pc = "publishing"
  /\ \E i \in Forwarded(p) :
       topic' = [topic EXCEPT ![post[p].anon] = Append(@, [post |-> p, event |-> i])]
  /\ LoopOn(p)
  /\ UNCHANGED <<configured, cookie, sent, post>>

Publish(p) ==
  /\ handling[p].pc = "publishing"
  /\ Published(p)
  /\ LoopOn(p)
  /\ UNCHANGED <<configured, cookie, sent, post>>

(* Mutant of PublishRaises: the loop goes on with the next event.          *)
PublishGoesOn(p) ==
  /\ handling[p].pc = "publishing"
  /\ \/ UNCHANGED topic
     \/ Published(p)
  /\ LoopOn(p)
  /\ UNCHANGED <<configured, cookie, sent, post>>

(* send_and_wait raises, the event written or not: status 500.             *)
PublishRaises(p) ==
  /\ handling[p].pc = "publishing"
  /\ \/ UNCHANGED topic
     \/ Published(p)
  /\ handling' = [handling EXCEPT ![p].pc = "error"]
  /\ UNCHANGED <<configured, cookie, sent, post>>

(* The container is stopped: what it was doing is not finished.            *)
ReceiverStops ==
  /\ \E p \in Posts : handling[p].pc = "publishing"
  /\ handling' = [p \in Posts |->
       [handling[p] EXCEPT !.pc = IF @ = "publishing" THEN "gone" ELSE @]]
  /\ UNCHANGED <<configured, cookie, sent, post, topic>>

-----------------------------------------------------------------------------
Next ==
  \/ PostEvents
  \/ \E p \in Posts :
       \/ Handle(p) \/ UpstreamAnswers(p) \/ ReadBody(p) \/ FetchFails(p) \/ Timeout(p)
       \/ BrowserSees(p) \/ AnswerLost(p)
       \/ Receive(p) \/ Publish(p) \/ PublishRaises(p)
  \/ ReceiverStops

(* The Edge runtime runs the handler and its timer; nothing is asked of    *)
(* the receiver, the network or the browser.                               *)
Fairness == \A p \in Posts : WF_vars(Handle(p)) /\ WF_vars(Timeout(p))

Spec == Init /\ [][Next]_vars
FairSpec == Spec /\ Fairness

-----------------------------------------------------------------------------
(* Where the partition of an anon_id holds an event of a post.             *)
OfPost(p, a) == {i \in 1..Len(topic[a]) : topic[a][i].post = p}

(* An answer never says more than was published: a number other than 0     *)
(* means that every event the Edge handler forwarded is in the partition   *)
(* of the visitor, that many times in all, though the receiver may fail    *)
(* after each of them.                                                     *)
AcceptedIsPublished ==
  \A p \in Posts :
    post[p].accepted > 0 =>
      LET a == post[p].anon
      IN  /\ Forwarded(p) = {topic[a][i].event : i \in OfPost(p, a)}
          /\ post[p].accepted = Cardinality(OfPost(p, a))

(* Of a batch the topic holds a beginning, in its order and under one      *)
(* anon_id, whether or not the Edge handler still waited and whenever the  *)
(* receiver was stopped: what comes before an event in the batch, and      *)
(* nothing else of the batch, comes before it in the partition.            *)
BeginningOfBatch ==
  \A p, a \in Posts :
    /\ a # post[p].anon => OfPost(p, a) = {}
    /\ \A i \in OfPost(p, a) :
         /\ topic[a][i].event \in Forwarded(p)
         /\ {f \in Forwarded(p) : f < topic[a][i].event}
              = {topic[a][j].event : j \in {k \in OfPost(p, a) : k < i}}

(* A post was made without a cookie, and its answer may still bring one.   *)
MayBringCookie(p) ==
  post[p].header = 0 /\ post[p].pc \in {"posted", "waiting", "reading", "answered"}

(* The ids of a visitor come to rest: once the browser has one and no post *)
(* made without can bring another, whatever it posts from then on is       *)
(* published under that id only, through every failure, timeout and late   *)
(* receiver.  Before that two posts may each get an id of their own.       *)
IdSettles ==
  \A a, n \in Posts :
    [](/\ cookie = a /\ sent = n
       /\ \A p \in Posts : ~MayBringCookie(p)
       => [](\A p, b \in Posts : p > n /\ b # a => OfPost(p, b) = {}))

(* A post is answered even if the receiver never is heard of again, with   *)
(* the one exception of a body that does not come after its head: there    *)
(* the timer runs no more.                                                 *)
EveryPostAnswered ==
  \A p \in Posts :
    post[p].pc = "posted" ~>
      (post[p].pc \in {"answered", "seen", "lost"} \/ [](post[p].pc = "reading"))
=============================================================================
