--------------------------- MODULE EdgeEvents_proofs ---------------------------
(* For any number of posts and any bodies, whatever fails and whoever no     *)
(* longer waits: an answer counts what is in the topic, and the topic holds a *)
(* beginning of every batch.                                                 *)
EXTENDS EdgeEvents, FunctionTheorems, FiniteSetTheorems, SequenceTheorems, WellFoundedInduction, TLAPS

Body == Bodies \union {NoBody}

PostPc == {"none", "posted", "waiting", "reading", "answered", "seen", "lost"}

ReceiverPc == {"none", "coming", "publishing", "ok", "error", "gone"}

Posted == [pc : PostPc, body : Body, header : 0..MaxPosts, anon : 0..MaxPosts,
           status : Nat, accepted : Nat]

TopicEvent == [post : Posts, event : Nat]

TypeOK ==
  /\ cookie \in 0..MaxPosts
  /\ sent \in 0..MaxPosts
  /\ post \in [Posts -> Posted]
  /\ handling \in [Posts -> [pc : ReceiverPc, next : Nat]]
  /\ topic \in [Posts -> Seq(TopicEvent)]

(* The events of a post in the partition it goes to.                        *)
InTopic(p) == {topic[post[p].anon][i].event : i \in OfPost(p, post[p].anon)}

Untouched(p) == \A a \in Posts : OfPost(p, a) = {}

(* A post is made before it is handled, and a number other than 0 is the    *)
(* answer of a receiver that has come to the end of its loop.               *)
PostPhase(p) ==
  /\ p > sent => post[p].pc = "none"
  /\ post[p].pc \in {"none", "posted"} => handling[p].pc = "none"
  /\ post[p].pc = "reading" => handling[p].pc = "ok"
  /\ post[p].accepted > 0 =>
       handling[p].pc = "ok" /\ post[p].accepted = Cardinality(Forwarded(p))

(* The receiver is at the event after those that are in the topic.          *)
ReceiverPhase(p) ==
  /\ handling[p].pc \in {"none", "coming"} => Untouched(p)
  /\ handling[p].pc # "none" => post[p].anon \in Posts /\ Forwarded(p) # {}
  /\ handling[p].pc = "publishing" =>
       /\ handling[p].next \in Forwarded(p)
       /\ InTopic(p) = {f \in Forwarded(p) : f < handling[p].next}
  /\ handling[p].pc = "ok" => InTopic(p) = Forwarded(p)

(* BeginningOfBatch, of one post.                                           *)
BatchOK(p) ==
  \A a \in Posts :
    /\ a # post[p].anon => OfPost(p, a) = {}
    /\ \A i \in OfPost(p, a) :
         /\ topic[a][i].event \in Forwarded(p)
         /\ {f \in Forwarded(p) : f < topic[a][i].event}
              = {topic[a][j].event : j \in {k \in OfPost(p, a) : k < i}}

PostInv(p) == PostPhase(p) /\ ReceiverPhase(p) /\ BatchOK(p)

EdgeInv == TypeOK /\ \A p \in Posts : PostInv(p)

-----------------------------------------------------------------------------
(* A set of natural numbers that is not empty has a least element: what the *)
(* receiver's loop takes next (http-receiver/app.py post_events).           *)
LEMMA LeastOf ==
  ASSUME NEW S \in SUBSET Nat, S # {}
  PROVE  \E x \in S : \A y \in S : x <= y
<1>1. \E x \in S : \A y \in S : ~(<<y, x>> \in OpToRel(<, Nat))
  BY NatLessThanWellFounded, WFMin, Zenon
<1>2. PICK x \in S : \A y \in S : ~(<<y, x>> \in OpToRel(<, Nat))
  BY <1>1
<1>3. ASSUME NEW y \in S PROVE x <= y
  <2>1. x \in Nat /\ y \in Nat
    OBVIOUS
  <2>2. <<y, x>> \in Nat \X Nat /\ <<y, x>>[1] = y /\ <<y, x>>[2] = x
    BY <2>1
  <2>3. y < x => <<y, x>> \in OpToRel(<, Nat)
    BY <2>2 DEF OpToRel
  <2>4. ~(<<y, x>> \in OpToRel(<, Nat))
    BY <1>2, Zenon
  <2>5. ~(y < x)
    BY <2>3, <2>4, Zenon
  <2> QED
    BY <2>1, <2>5
<1> QED
  BY <1>3

LEMMA FirstIsLeast ==
  ASSUME NEW S \in SUBSET Nat, S # {}
  PROVE  First(S) \in S /\ \A y \in S : First(S) <= y
  BY LeastOf DEF First

LEMMA PostFields ==
  ASSUME TypeOK, NEW p \in Posts
  PROVE  /\ post[p].pc \in PostPc /\ post[p].body \in Body /\ post[p].header \in 0..MaxPosts
         /\ post[p].anon \in 0..MaxPosts /\ post[p].status \in Nat /\ post[p].accepted \in Nat
<1>1. post[p] \in Posted
  BY DEF TypeOK
<1> QED
  BY <1>1 DEF Posted

(* What is forwarded of a batch.                                            *)
LEMMA ForwardedPlaces ==
  ASSUME TypeOK, NEW p \in Posts
  PROVE  Forwarded(p) \in SUBSET Nat /\ IsFiniteSet(Forwarded(p))
<1>1. post[p].body \in Body
  BY DEF TypeOK, Posted
<1>2. Len(post[p].body.events) \in Nat
  BY <1>1, ConstantsAssumption DEF Body, NoBody
<1>3. Forwarded(p) \in SUBSET (1..Len(post[p].body.events))
  BY DEF Forwarded, validateEvents
<1>4. IsFiniteSet(1..Len(post[p].body.events))
  BY <1>2, FS_Interval
<1>5. IsFiniteSet(Forwarded(p))
  BY <1>3, <1>4, FS_Subset
<1> QED
  BY <1>2, <1>3, <1>5

(* What is said of a post while the topic stays as it is.                   *)
LEMMA SameTopic ==
  ASSUME NEW p \in Posts, topic' = topic
  PROVE  /\ \A a : OfPost(p, a)' = OfPost(p, a)
         /\ Untouched(p)' <=> Untouched(p)
         /\ post'[p].body = post[p].body => Forwarded(p)' = Forwarded(p)
         /\ post'[p].anon = post[p].anon => InTopic(p)' = InTopic(p)
         /\ post'[p].body = post[p].body /\ post'[p].anon = post[p].anon =>
              (BatchOK(p)' <=> BatchOK(p))
<1>1. \A a : OfPost(p, a)' = OfPost(p, a)
  BY DEF OfPost
<1>2. Untouched(p)' <=> Untouched(p)
  BY <1>1 DEF Untouched
<1>3. ASSUME post'[p].body = post[p].body PROVE Forwarded(p)' = Forwarded(p)
  BY <1>3 DEF Forwarded
<1>4. ASSUME post'[p].anon = post[p].anon PROVE InTopic(p)' = InTopic(p)
  BY <1>1, <1>4 DEF InTopic
<1>5. ASSUME post'[p].body = post[p].body, post'[p].anon = post[p].anon
      PROVE  BatchOK(p)' <=> BatchOK(p)
  BY <1>1, <1>3, <1>5 DEF BatchOK
<1> QED
  BY <1>1, <1>2, <1>3, <1>4, <1>5

(* A post of which the step changes nothing that matters here.              *)
LEMMA SamePost ==
  ASSUME NEW p \in Posts, PostInv(p), topic' = topic, handling'[p] = handling[p],
         post'[p] = post[p], p > sent' => p > sent
  PROVE  PostInv(p)'
  BY SameTopic DEF PostInv, PostPhase, ReceiverPhase

(* An answer, with a number only if the receiver is through.                *)
LEMMA AnswerStep ==
  ASSUME EdgeInv, NEW p \in Posts, NEW pc \in {"reading", "answered", "seen", "lost"},
         NEW status \in Nat, NEW accepted \in Nat,
         topic' = topic, handling' = handling, sent' = sent, cookie' \in 0..MaxPosts,
         post' = [post EXCEPT ![p].pc = pc, ![p].status = status, ![p].accepted = accepted],
         post[p].pc \notin {"none", "posted"},
         accepted > 0 => handling[p].pc = "ok" /\ accepted = Cardinality(Forwarded(p)),
         pc = "reading" => handling[p].pc = "ok"
  PROVE  EdgeInv'
<1>1. TypeOK /\ post \in [Posts -> Posted]
  BY DEF EdgeInv, TypeOK
<1>2. post' \in [Posts -> Posted]
  <2>1. pc \in PostPc
    BY DEF PostPc
  <2> QED
    BY <1>1, <2>1 DEF Posted
<1>3. /\ post'[p].pc = pc /\ post'[p].body = post[p].body /\ post'[p].anon = post[p].anon
      /\ post'[p].accepted = accepted
  BY <1>1 DEF Posted
<1>4. TypeOK'
  <2>1. handling' = handling /\ topic' = topic /\ sent' = sent /\ cookie' \in 0..MaxPosts
    OBVIOUS
  <2> QED
    BY <1>1, <1>2, <2>1 DEF TypeOK
<1>5. PostInv(p)'
  <2>1. p > sent => post[p].pc = "none"
    BY DEF EdgeInv, PostInv, PostPhase
  <2>2. PostPhase(p)'
    BY <1>3, <2>1, SameTopic DEF PostPhase
  <2>3. PostInv(p)
    BY DEF EdgeInv
  <2>4. /\ Untouched(p)' <=> Untouched(p)
        /\ Forwarded(p)' = Forwarded(p) /\ InTopic(p)' = InTopic(p)
        /\ BatchOK(p)' <=> BatchOK(p)
    BY <1>3, SameTopic
  <2>5. ReceiverPhase(p)'
    BY <1>3, <2>3, <2>4 DEF PostInv, ReceiverPhase
  <2> QED
    BY <2>2, <2>3, <2>4, <2>5 DEF PostInv
<1>6. ASSUME NEW q \in Posts, q # p PROVE PostInv(q)'
  <2>1. post'[q] = post[q]
    BY <1>6 DEF EdgeInv, TypeOK
  <2> QED
    BY <2>1, SamePost DEF EdgeInv
<1> QED
  BY <1>4, <1>5, <1>6 DEF EdgeInv

-----------------------------------------------------------------------------
LEMMA Initially == Init => EdgeInv
<1> SUFFICES ASSUME Init PROVE EdgeInv
  OBVIOUS
<1>1. TypeOK
  <2>1. \A a \in Posts : topic[a] \in Seq(TopicEvent)
    BY DEF Init
  <2>2. post \in [Posts -> Posted]
    BY ConstantsAssumption DEF Init, Posted, PostPc, Body
  <2> QED
    BY <2>1, <2>2, ConstantsAssumption DEF Init, TypeOK, ReceiverPc
<1>2. ASSUME NEW p \in Posts PROVE PostInv(p)
  <2>1. \A a \in Posts : OfPost(p, a) = {}
    BY DEF Init, OfPost
  <2>2. post[p].pc = "none" /\ post[p].accepted = 0 /\ handling[p].pc = "none"
    BY DEF Init
  <2> QED
    BY <2>1, <2>2 DEF PostInv, PostPhase, ReceiverPhase, BatchOK, Untouched
<1> QED
  BY <1>1, <1>2 DEF EdgeInv

LEMMA PostEventsStep == EdgeInv /\ PostEvents => EdgeInv'
<1> SUFFICES ASSUME EdgeInv, PostEvents PROVE EdgeInv'
  OBVIOUS
<1>1. PICK n \in Posts : n = sent + 1 /\ sent' = n /\ n > sent
  BY ConstantsAssumption DEF PostEvents, EdgeInv, TypeOK, Posts
<1>2. PICK body \in Bodies :
        post' = [post EXCEPT ![sent'] =
                  [@ EXCEPT !.pc = "posted", !.body = body, !.header = cookie]]
  BY DEF PostEvents
<1>3. TypeOK /\ PostInv(n) /\ post \in [Posts -> Posted]
  BY <1>1 DEF EdgeInv, TypeOK
<1>10. post[n].pc = "none" /\ handling[n].pc = "none" /\ ~(post[n].accepted > 0)
  BY <1>1, <1>3 DEF PostInv, PostPhase
<1>4. post'[n].pc = "posted" /\ post'[n].anon = post[n].anon /\ post'[n].accepted = post[n].accepted
  BY <1>1, <1>2, <1>3 DEF Posted
<1>5. /\ handling' = handling /\ topic' = topic /\ cookie' = cookie
      /\ cookie \in 0..MaxPosts /\ body \in Body
  BY DEF PostEvents, EdgeInv, TypeOK, Body
<1>6. TypeOK'
  <2>1. post' \in [Posts -> Posted]
    <3>1. post[n] \in Posted /\ "posted" \in PostPc
      BY <1>3 DEF PostPc
    <3>2. PICK r : r = [post[n] EXCEPT !.pc = "posted", !.body = body, !.header = cookie]
      OBVIOUS
    <3>3. r \in Posted
      BY <1>5, <3>1, <3>2 DEF Posted
    <3>4. post' = [post EXCEPT ![n] = r]
      BY <1>1, <1>2, <3>2
    <3> QED
      BY <1>3, <3>3, <3>4
  <2>2. sent' \in 0..MaxPosts
    BY <1>1, ConstantsAssumption DEF Posts
  <2> QED
    BY <1>3, <1>5, <2>1, <2>2 DEF TypeOK
<1>7. PostInv(n)'
  <2>1. Untouched(n)
    BY <1>3, <1>10 DEF PostInv, ReceiverPhase
  <2>2. Untouched(n)'
    BY <1>1, <1>5, <2>1, SameTopic
  <2>3. BatchOK(n)'
    BY <2>2 DEF BatchOK, Untouched
  <2>4. ~(n > sent')
    BY <1>1 DEF Posts
  <2>5. PostPhase(n)'
    BY <1>4, <1>5, <1>10, <2>4 DEF PostPhase
  <2>6. ReceiverPhase(n)'
    BY <1>5, <1>10, <2>2 DEF ReceiverPhase
  <2> QED
    BY <2>3, <2>5, <2>6 DEF PostInv
<1>8. ASSUME NEW q \in Posts, q # n PROVE PostInv(q)'
  <2>1. post'[q] = post[q]
    BY <1>1, <1>2, <1>8 DEF EdgeInv, TypeOK
  <2>2. q > sent' => q > sent
    BY <1>1 DEF EdgeInv, TypeOK, Posts
  <2> QED
    BY <1>5, <2>1, <2>2, SamePost DEF EdgeInv
<1> QED
  BY <1>6, <1>7, <1>8 DEF EdgeInv

(* What an answer to a post that the receiver has not been told of, or      *)
(* whose receiver is waited for, does.                                      *)
LEMMA AnonIdIsPost == ASSUME TypeOK, NEW p \in Posts PROVE AnonId(p) \in Posts
<1>1. post[p].header \in 0..MaxPosts
  BY DEF TypeOK, Posted
<1> QED
  BY <1>1, ConstantsAssumption DEF AnonId, getOrCreateAnonId, Posts

LEMMA HandleStep == ASSUME EdgeInv, NEW p \in Posts, Handle(p) PROVE EdgeInv'
<1>1. /\ TypeOK /\ PostInv(p) /\ post \in [Posts -> Posted]
      /\ handling \in [Posts -> [pc : ReceiverPc, next : Nat]]
  BY DEF EdgeInv, TypeOK
<1>2. topic' = topic /\ cookie' = cookie /\ sent' = sent
  BY DEF Handle
<1>8. /\ post[p].pc = "posted" /\ handling[p].pc = "none"
      /\ post[p].accepted = 0 /\ ~(p > sent)
  BY <1>1, PostFields DEF Handle, PostInv, PostPhase
<1>3. PICK anon \in 0..MaxPosts, pc \in {"answered", "waiting"} :
        /\ post'[p].pc = pc /\ post'[p].body = post[p].body /\ post'[p].anon = anon
        /\ post'[p].accepted = 0
        /\ post' \in [Posts -> Posted] /\ \A q \in Posts : q # p => post'[q] = post[q]
        /\ \/ handling' = handling
           \/ /\ pc = "waiting" /\ Forwarded(p) # {} /\ anon \in Posts
              /\ handling' = [handling EXCEPT ![p].pc = "coming"]
  <2>1. AnonId(p) \in Posts /\ AnonId(p) \in 0..MaxPosts /\ 0 \in 0..MaxPosts
    BY <1>1, AnonIdIsPost, ConstantsAssumption DEF Posts
  <2>2. ASSUME NEW anon \in 0..MaxPosts, NEW status \in Nat, Answer(p, anon, status, 0)
        PROVE  /\ post'[p].pc = "answered" /\ post'[p].body = post[p].body
               /\ post'[p].anon = anon /\ post'[p].accepted = 0
               /\ post' \in [Posts -> Posted] /\ \A q \in Posts : q # p => post'[q] = post[q]
    <3>1. post[p] \in Posted /\ "answered" \in PostPc /\ 0 \in Nat
      BY <1>1 DEF PostPc
    <3>2. PICK w : w = [post[p] EXCEPT !.pc = "answered", !.anon = anon,
                                       !.status = status, !.accepted = 0]
      OBVIOUS
    <3>3. w \in Posted /\ w.pc = "answered" /\ w.body = post[p].body /\ w.anon = anon
          /\ w.accepted = 0
      BY <2>2, <3>1, <3>2 DEF Posted
    <3>4. post' = [post EXCEPT ![p] = w]
      BY <2>2, <3>2 DEF Answer
    <3>5. post'[p] = w /\ post' \in [Posts -> Posted] /\ \A q \in Posts : q # p => post'[q] = post[q]
      BY <1>1, <3>3, <3>4
    <3> QED
      BY <3>3, <3>5
  <2>3. ASSUME post' = [post EXCEPT ![p].pc = "waiting", ![p].anon = AnonId(p)]
        PROVE  /\ post'[p].pc = "waiting" /\ post'[p].body = post[p].body
               /\ post'[p].anon = AnonId(p) /\ post'[p].accepted = 0
               /\ post' \in [Posts -> Posted] /\ \A q \in Posts : q # p => post'[q] = post[q]
    <3>1. post[p] \in Posted /\ "waiting" \in PostPc
      BY <1>1 DEF PostPc
    <3>2. PICK b \in 0..MaxPosts : b = AnonId(p)
      BY <2>1
    <3>3. PICK w : w = [post[p] EXCEPT !.pc = "waiting", !.anon = b]
      OBVIOUS
    <3>4. w \in Posted /\ w.pc = "waiting" /\ w.body = post[p].body /\ w.anon = b
          /\ w.accepted = post[p].accepted
      BY <3>1, <3>3 DEF Posted
    <3>5. post' = [post EXCEPT ![p] = w]
      BY <2>3, <3>2, <3>3
    <3>6. post'[p] = w /\ post' \in [Posts -> Posted] /\ \A q \in Posts : q # p => post'[q] = post[q]
      BY <1>1, <3>4, <3>5
    <3> QED
      BY <1>8, <3>2, <3>4, <3>6
  <2>4. CASE Answer(p, 0, 503, 0) /\ handling' = handling
    BY <2>1, <2>2, <2>4
  <2>5. CASE Answer(p, 0, 400, 0) /\ handling' = handling
    BY <2>1, <2>2, <2>5
  <2>6. CASE Answer(p, AnonId(p), 200, 0) /\ handling' = handling
    BY <2>1, <2>2, <2>6
  <2>7. CASE /\ Forwarded(p) # {}
             /\ post' = [post EXCEPT ![p].pc = "waiting", ![p].anon = AnonId(p)]
             /\ handling' = [handling EXCEPT ![p].pc = "coming"]
    BY <2>1, <2>3, <2>7
  <2> QED
    BY <2>4, <2>5, <2>6, <2>7 DEF Handle
<1>4. /\ \A q \in Posts : q # p => handling'[q] = handling[q]
      /\ handling'[p].pc \in {"none", "coming"}
      /\ handling'[p].pc = "coming" => pc = "waiting" /\ Forwarded(p) # {} /\ anon \in Posts
      /\ handling' \in [Posts -> [pc : ReceiverPc, next : Nat]]
  <2>1. CASE handling' = handling
    BY <1>1, <1>8, <2>1
  <2>2. CASE /\ pc = "waiting" /\ Forwarded(p) # {} /\ anon \in Posts
             /\ handling' = [handling EXCEPT ![p].pc = "coming"]
    BY <1>1, <2>2 DEF ReceiverPc
  <2> QED
    BY <1>3, <2>1, <2>2
<1>5. TypeOK'
  BY <1>1, <1>2, <1>3, <1>4 DEF TypeOK
<1>6. PostInv(p)'
  <2>1. Untouched(p)
    BY <1>1, <1>8 DEF PostInv, ReceiverPhase
  <2>2. Untouched(p)'
    BY <1>2, <2>1, SameTopic
  <2>3. BatchOK(p)'
    BY <2>2 DEF BatchOK, Untouched
  <2>4. Forwarded(p)' = Forwarded(p)
    BY <1>3 DEF Forwarded
  <2> QED
    BY <1>2, <1>3, <1>4, <1>8, <2>2, <2>3, <2>4 DEF PostInv, PostPhase, ReceiverPhase
<1>7. ASSUME NEW q \in Posts, q # p PROVE PostInv(q)'
  BY <1>2, <1>3, <1>4, <1>7, SamePost DEF EdgeInv
<1> QED
  BY <1>5, <1>6, <1>7 DEF EdgeInv

(* The answers of the Edge handler and what becomes of them.                *)
LEMMA AnswersStep ==
  ASSUME EdgeInv, NEW p \in Posts,
         UpstreamAnswers(p) \/ ReadBody(p) \/ FetchFails(p) \/ Timeout(p)
  PROVE  EdgeInv'
<1>1. /\ TypeOK /\ PostInv(p) /\ post[p].anon \in 0..MaxPosts
      /\ post[p].pc \in {"waiting", "reading"} /\ post[p].status \in Nat
      /\ post \in [Posts -> Posted] /\ cookie \in 0..MaxPosts
      /\ post[p].accepted \in Nat
      /\ topic' = topic /\ handling' = handling /\ sent' = sent /\ cookie' = cookie
  BY PostFields DEF EdgeInv, TypeOK, UpstreamAnswers, ReadBody, FetchFails, Timeout
<1>2. /\ post[p].pc = "reading" => handling[p].pc = "ok"
      /\ post[p].accepted > 0 =>
           handling[p].pc = "ok" /\ post[p].accepted = Cardinality(Forwarded(p))
  BY <1>1 DEF PostInv, PostPhase
<1>3. ASSUME NEW pc \in {"reading", "answered"}, NEW status \in Nat, NEW accepted \in Nat,
             post' = [post EXCEPT ![p].pc = pc, ![p].status = status, ![p].accepted = accepted],
             accepted > 0 => handling[p].pc = "ok" /\ accepted = Cardinality(Forwarded(p)),
             pc = "reading" => handling[p].pc = "ok"
      PROVE  EdgeInv'
  BY <1>1, <1>3, AnswerStep
<1>4. ASSUME NEW status \in Nat, NEW accepted \in Nat,
             Answer(p, post[p].anon, status, accepted),
             accepted > 0 => handling[p].pc = "ok" /\ accepted = Cardinality(Forwarded(p))
      PROVE  EdgeInv'
  <2>1. post' = [post EXCEPT ![p].pc = "answered", ![p].status = status, ![p].accepted = accepted]
    BY <1>1, <1>4 DEF Answer, Posted
  <2> QED
    BY <1>3, <1>4, <2>1
<1>8. ASSUME handling[p].pc = "ok", post' = [post EXCEPT ![p].pc = "reading"] PROVE EdgeInv'
  <2>1. post' = [post EXCEPT ![p].pc = "reading", ![p].status = post[p].status,
                            ![p].accepted = post[p].accepted]
    BY <1>1, <1>8 DEF Posted
  <2>2. PICK pc \in {"reading", "answered"}, status \in Nat, accepted \in Nat :
          pc = "reading" /\ status = post[p].status /\ accepted = post[p].accepted
    BY <1>1
  <2>3. post' = [post EXCEPT ![p].pc = pc, ![p].status = status, ![p].accepted = accepted]
    BY <2>1, <2>2
  <2> QED
    BY <1>2, <1>3, <1>8, <2>2, <2>3
<1>5. CASE UpstreamAnswers(p)
  BY <1>4, <1>5, <1>8 DEF UpstreamAnswers
<1>6. CASE ReadBody(p)
  <2>1. Cardinality(Forwarded(p)) \in Nat
    BY <1>1, ForwardedPlaces, FS_CardinalityType
  <2>2. handling[p].pc = "ok" /\ Answer(p, post[p].anon, 200, Cardinality(Forwarded(p)))
    BY <1>2, <1>6 DEF ReadBody
  <2> QED
    BY <1>4, <2>1, <2>2
<1>7. CASE FetchFails(p) \/ Timeout(p)
  BY <1>4, <1>7 DEF FetchFails, Timeout
<1> QED
  BY <1>5, <1>6, <1>7

LEMMA BrowserStep ==
  ASSUME EdgeInv, NEW p \in Posts, BrowserSees(p) \/ AnswerLost(p) PROVE EdgeInv'
<1>1. /\ TypeOK /\ PostInv(p) /\ post[p].pc = "answered"
      /\ post \in [Posts -> Posted] /\ cookie \in 0..MaxPosts
  BY DEF EdgeInv, TypeOK, BrowserSees, AnswerLost
<1>2. topic' = topic /\ handling' = handling /\ sent' = sent
  BY DEF BrowserSees, AnswerLost
<1>3. cookie' \in 0..MaxPosts
  <2>1. getOrCreateAnonId(p).setCookie \in 0..MaxPosts
    BY ConstantsAssumption DEF getOrCreateAnonId, Posts
  <2> QED
    BY <1>1, <2>1 DEF BrowserSees, AnswerLost
<1>4. PICK pc \in {"seen", "lost"} : post' = [post EXCEPT ![p].pc = pc]
  BY DEF BrowserSees, AnswerLost
<1>5. /\ post[p].status \in Nat /\ post[p].accepted \in Nat
      /\ post[p].accepted > 0 =>
           handling[p].pc = "ok" /\ post[p].accepted = Cardinality(Forwarded(p))
  BY <1>1, PostFields DEF PostInv, PostPhase
<1>6. post' = [post EXCEPT ![p].pc = pc, ![p].status = post[p].status,
                          ![p].accepted = post[p].accepted]
  BY <1>1, <1>4 DEF Posted
<1> QED
  BY <1>1, <1>2, <1>3, <1>5, <1>6, AnswerStep

-----------------------------------------------------------------------------
(* A step of the receiver that leaves the posts and the topic alone.        *)
LEMMA ReceiverAlone ==
  ASSUME EdgeInv, UNCHANGED <<cookie, sent, post, topic>>,
         handling' \in [Posts -> [pc : ReceiverPc, next : Nat]],
         NEW moved \in SUBSET Posts,
         \A q \in Posts \ moved : handling'[q] = handling[q],
         \A q \in moved : /\ handling[q].pc \in {"coming", "publishing"}
                          /\ handling'[q].pc # "none"
                          /\ ReceiverPhase(q)'
  PROVE  EdgeInv'
<1>1. TypeOK'
  BY DEF EdgeInv, TypeOK
<1>2. ASSUME NEW q \in moved PROVE PostInv(q)'
  <2>1. PostInv(q)
    BY DEF EdgeInv
  <2>2. PostPhase(q)'
    BY <2>1 DEF PostInv, PostPhase
  <2> QED
    BY <2>1, <2>2, SameTopic DEF PostInv
<1>3. ASSUME NEW q \in Posts \ moved PROVE PostInv(q)'
  BY SamePost DEF EdgeInv
<1> QED
  BY <1>1, <1>2, <1>3 DEF EdgeInv

LEMMA ReceiveStep == ASSUME EdgeInv, NEW p \in Posts, Receive(p) PROVE EdgeInv'
<1>1. /\ TypeOK /\ PostInv(p) /\ handling[p].pc = "coming"
      /\ handling \in [Posts -> [pc : ReceiverPc, next : Nat]]
      /\ UNCHANGED <<cookie, sent, post, topic>>
  BY DEF EdgeInv, TypeOK, Receive
<1>2. /\ Untouched(p) /\ post[p].anon \in Posts /\ Forwarded(p) # {}
      /\ Forwarded(p) \in SUBSET Nat
  BY <1>1, ForwardedPlaces DEF PostInv, ReceiverPhase
<1>3. First(Forwarded(p)) \in Forwarded(p) /\ \A f \in Forwarded(p) : First(Forwarded(p)) <= f
  BY <1>2, FirstIsLeast
<1>4. /\ handling' \in [Posts -> [pc : ReceiverPc, next : Nat]]
      /\ \A q \in Posts \ {p} : handling'[q] = handling[q]
      /\ \/ handling'[p].pc = "error"
         \/ handling'[p].pc = "publishing" /\ handling'[p].next = First(Forwarded(p))
  <2>1. CASE handling' = [handling EXCEPT ![p] = [@ EXCEPT !.pc = "error"]]
    BY <1>1, <2>1 DEF ReceiverPc
  <2>2. CASE handling' = [handling EXCEPT ![p] = [pc |-> "publishing", next |-> First(Forwarded(p))]]
    BY <1>1, <1>2, <1>3, <2>2 DEF ReceiverPc
  <2> QED
    BY <2>1, <2>2 DEF Receive
<1>5. ReceiverPhase(p)'
  <2>1. InTopic(p) = {}
    BY <1>2 DEF InTopic, Untouched
  <2>2. InTopic(p)' = InTopic(p) /\ Forwarded(p)' = Forwarded(p)
    BY <1>1, SameTopic
  <2>3. {f \in Forwarded(p) : f < First(Forwarded(p))} = {}
    BY <1>2, <1>3
  <2> QED
    BY <1>1, <1>2, <1>3, <1>4, <2>1, <2>2, <2>3 DEF ReceiverPhase
<1>6. ASSUME NEW q \in {p}
      PROVE  handling[q].pc = "coming" /\ handling'[q].pc # "none" /\ ReceiverPhase(q)'
  <2>1. q = p
    OBVIOUS
  <2> QED
    BY <1>1, <1>4, <1>5, <2>1
<1>7. {p} \in SUBSET Posts
  OBVIOUS
<1> QED
  BY <1>1, <1>4, <1>6, <1>7, ReceiverAlone

LEMMA StopStep == EdgeInv /\ ReceiverStops => EdgeInv'
<1> SUFFICES ASSUME EdgeInv, ReceiverStops PROVE EdgeInv'
  OBVIOUS
<1> DEFINE moved == {q \in Posts : handling[q].pc = "publishing"}
<1>1. /\ TypeOK /\ handling \in [Posts -> [pc : ReceiverPc, next : Nat]]
      /\ UNCHANGED <<cookie, sent, post, topic>>
  BY DEF EdgeInv, TypeOK, ReceiverStops
<1>2. /\ handling' \in [Posts -> [pc : ReceiverPc, next : Nat]]
      /\ \A q \in moved : handling'[q].pc = "gone"
  BY <1>1 DEF ReceiverStops, ReceiverPc
<1>3. \A q \in Posts \ moved : handling'[q] = handling[q]
  BY <1>1 DEF ReceiverStops
<1>4. ASSUME NEW q \in moved PROVE ReceiverPhase(q)'
  <2>1. post[q].anon \in Posts /\ Forwarded(q) # {}
    BY DEF EdgeInv, PostInv, ReceiverPhase
  <2>2. Forwarded(q)' = Forwarded(q)
    BY <1>1, SameTopic
  <2> QED
    BY <1>1, <1>2, <2>1, <2>2 DEF ReceiverPhase
<1> HIDE DEF moved
<1>5. \A q \in moved : handling[q].pc = "publishing" /\ q \in Posts
  BY DEF moved
<1>6. moved \in SUBSET Posts
  BY <1>5
<1> QED
  BY <1>1, <1>2, <1>3, <1>4, <1>5, <1>6, ReceiverAlone

-----------------------------------------------------------------------------
(* Where an event of p is written at n in the partition a.                  *)
Placed(p, a, n) ==
  /\ n \in Nat
  /\ topic' \in [Posts -> Seq(TopicEvent)]
  /\ topic'[a][n].event = handling[p].next
  /\ \A i : i \in 1..Len(topic'[a]) /\ topic'[a][i].post = p <=> i \in OfPost(p, a) \/ i = n
  /\ OfPost(p, a) \in SUBSET (1..(n - 1))
  /\ \A q, b \in Posts : q # p \/ b # a =>
       {i \in 1..Len(topic'[b]) : topic'[b][i].post = q} = OfPost(q, b)
  /\ \A b \in Posts : \A i \in 1..Len(topic[b]) : topic'[b][i] = topic[b][i]

(* An event written: its batch goes one event further in the topic, and no  *)
(* other batch is touched.                                                  *)
LEMMA PublishedTopic ==
  ASSUME TypeOK, NEW p \in Posts, Published(p),
         NEW a \in Posts, a = post[p].anon, NEW n, n = Len(topic[a]) + 1
  PROVE  Placed(p, a, n)
<1>1. /\ topic \in [Posts -> Seq(TopicEvent)] /\ topic[a] \in Seq(TopicEvent)
      /\ handling[p].next \in Nat
  BY DEF TypeOK
<1>2. Event(p) \in TopicEvent /\ Event(p).post = p /\ Event(p).event = handling[p].next
  BY <1>1 DEF Event, TopicEvent
<1>3. topic' = [topic EXCEPT ![a] = Append(topic[a], Event(p))]
  BY DEF Published
<1>4. /\ topic'[a] = Append(topic[a], Event(p))
      /\ \A b \in Posts : b # a => topic'[b] = topic[b]
  BY <1>1, <1>3
<1>5. /\ topic'[a] \in Seq(TopicEvent) /\ Len(topic'[a]) = n /\ n \in Nat /\ n - 1 = Len(topic[a])
      /\ topic'[a][n] = Event(p)
      /\ \A i \in 1..Len(topic[a]) : topic'[a][i] = topic[a][i]
  BY <1>1, <1>2, <1>4, AppendProperties
<1>6. topic' \in [Posts -> Seq(TopicEvent)]
  BY <1>1, <1>3, <1>4, <1>5
<1>7. \A b \in Posts : \A i \in 1..Len(topic[b]) : topic'[b][i] = topic[b][i]
  BY <1>4, <1>5
<1>8. (1..Len(topic'[a])) = (1..Len(topic[a])) \union {n}
  BY <1>5
<1>9. {i \in 1..Len(topic'[a]) : topic'[a][i].post = p}
        = {i \in 1..Len(topic[a]) : topic[a][i].post = p} \union {n}
  BY <1>2, <1>5, <1>8
<1>10. ASSUME NEW q \in Posts, NEW b \in Posts, q # p \/ b # a
       PROVE  {i \in 1..Len(topic'[b]) : topic'[b][i].post = q}
                = {i \in 1..Len(topic[b]) : topic[b][i].post = q}
  <2>1. CASE b # a
    BY <1>4, <2>1
  <2>2. CASE b = a
    BY <1>2, <1>5, <1>8, <1>10, <2>2
  <2> QED
    BY <2>1, <2>2
<1>11. \A q, b \in Posts : q # p \/ b # a =>
         {i \in 1..Len(topic'[b]) : topic'[b][i].post = q} = OfPost(q, b)
  BY <1>10 DEF OfPost
<1>12. {i \in 1..Len(topic'[a]) : topic'[a][i].post = p} = OfPost(p, a) \union {n}
  BY <1>9 DEF OfPost
<1>13. OfPost(p, a) \in SUBSET (1..(n - 1))
  BY <1>5 DEF OfPost
<1>14. \A i : i \in 1..Len(topic'[a]) /\ topic'[a][i].post = p <=> i \in OfPost(p, a) \/ i = n
  BY <1>12
<1>15. topic'[a][n].event = handling[p].next /\ n \in Nat
  BY <1>2, <1>5
<1> QED
  BY <1>6, <1>7, <1>11, <1>13, <1>14, <1>15 DEF Placed

LEMMA PublishedBatches ==
  ASSUME EdgeInv, NEW p \in Posts, handling[p].pc = "publishing", Published(p), post' = post
  PROVE  /\ topic' \in [Posts -> Seq(TopicEvent)]
         /\ \A q \in Posts : BatchOK(q)'
         /\ InTopic(p)' = InTopic(p) \union {handling[p].next}
         /\ \A q \in Posts : q # p => (Untouched(q)' <=> Untouched(q))
         /\ \A q \in Posts : q # p /\ post[q].anon \in Posts => InTopic(q)' = InTopic(q)
<1>1. /\ TypeOK /\ PostInv(p) /\ post[p].anon \in Posts /\ handling[p].next \in Forwarded(p)
      /\ InTopic(p) = {f \in Forwarded(p) : f < handling[p].next}
  BY DEF EdgeInv, PostInv, ReceiverPhase
<1>2. PICK a \in Posts : a = post[p].anon /\ post'[p].anon = a
  BY <1>1
<1>3. PICK n : n = Len(topic[a]) + 1
  OBVIOUS
<1>0. Placed(p, a, n)
  BY <1>1, <1>2, <1>3, PublishedTopic
<1>13. n \in Nat /\ topic' \in [Posts -> Seq(TopicEvent)] /\ OfPost(p, a) \in SUBSET (1..(n - 1))
  BY <1>0 DEF Placed
<1>14. topic'[a][n].event = handling[p].next
  BY <1>0 DEF Placed
<1>15. \A i : i \in 1..Len(topic'[a]) /\ topic'[a][i].post = p <=> i \in OfPost(p, a) \/ i = n
  BY <1>0 DEF Placed
<1>16. \A q, b \in Posts : q # p \/ b # a =>
         {i \in 1..Len(topic'[b]) : topic'[b][i].post = q} = OfPost(q, b)
  BY <1>0 DEF Placed
<1>17. \A b \in Posts : \A i \in 1..Len(topic[b]) : topic'[b][i] = topic[b][i]
  BY <1>0 DEF Placed
<1>4. /\ OfPost(p, a)' = OfPost(p, a) \union {n}
      /\ \A q, b \in Posts : q # p \/ b # a => OfPost(q, b)' = OfPost(q, b)
  BY <1>15, <1>16 DEF OfPost
<1>5. \A q, b \in Posts : \A i \in OfPost(q, b) : topic'[b][i] = topic[b][i]
  BY <1>17 DEF OfPost
<1>6. \A q \in Posts : Forwarded(q)' = Forwarded(q)
  BY DEF Forwarded
<1>7. InTopic(p)' = InTopic(p) \union {handling[p].next}
  <2>1. InTopic(p)' = {topic'[a][i].event : i \in OfPost(p, a) \union {n}}
    BY <1>2, <1>4, <1>13, <1>14 DEF InTopic
  <2>2. InTopic(p) = {topic[a][i].event : i \in OfPost(p, a)}
    BY <1>2 DEF InTopic
  <2>3. {topic'[a][i].event : i \in OfPost(p, a) \union {n}}
          = {topic'[a][i].event : i \in OfPost(p, a)} \union {topic'[a][n].event}
    OBVIOUS
  <2>4. {topic'[a][i].event : i \in OfPost(p, a)} = {topic[a][i].event : i \in OfPost(p, a)}
    BY <1>5
  <2> QED
    BY <1>4, <1>13, <1>14, <2>1, <2>2, <2>3, <2>4
<1>8. \A q \in Posts : q # p => (Untouched(q)' <=> Untouched(q))
  BY <1>4, <1>13, <1>14 DEF Untouched
<1>9. ASSUME NEW q \in Posts, q # p, post[q].anon \in Posts PROVE InTopic(q)' = InTopic(q)
  <2>1. PICK b \in Posts : b = post[q].anon /\ post'[q].anon = b
    BY <1>9
  <2>2. OfPost(q, b)' = OfPost(q, b)
    BY <1>4, <1>13, <1>14, <1>9
  <2>3. InTopic(q)' = {topic'[b][i].event : i \in OfPost(q, b)}
    BY <2>1, <2>2 DEF InTopic
  <2>4. InTopic(q) = {topic[b][i].event : i \in OfPost(q, b)}
    BY <2>1 DEF InTopic
  <2> QED
    BY <1>5, <2>3, <2>4
<1>10. ASSUME NEW q \in Posts, NEW b \in Posts, q # p \/ b # a,
              NEW i \in OfPost(q, b)
       PROVE  /\ topic'[b][i].event \in Forwarded(q)
              /\ {f \in Forwarded(q) : f < topic'[b][i].event}
                   = {topic'[b][j].event : j \in {k \in OfPost(q, b) : k < i}}
  <2>1. /\ topic[b][i].event \in Forwarded(q)
        /\ {f \in Forwarded(q) : f < topic[b][i].event}
             = {topic[b][j].event : j \in {k \in OfPost(q, b) : k < i}}
    BY DEF EdgeInv, PostInv, BatchOK
  <2> QED
    BY <1>5, <2>1
<1>11. ASSUME NEW q \in Posts, q # p PROVE BatchOK(q)'
  <2>1. \A b \in Posts : OfPost(q, b)' = OfPost(q, b)
    BY <1>4, <1>13, <1>14, <1>11
  <2>2. \A b \in Posts : b # post[q].anon => OfPost(q, b) = {}
    BY DEF EdgeInv, PostInv, BatchOK
  <2> QED
    BY <1>6, <1>10, <1>11, <2>1, <2>2 DEF BatchOK
<1>12. BatchOK(p)'
  <2>1. ASSUME NEW b \in Posts, b # a PROVE OfPost(p, b)' = {}
    <3>1. OfPost(p, b) = {}
      BY <1>1, <1>2, <2>1 DEF PostInv, BatchOK
    <3> QED
      BY <1>4, <1>13, <1>14, <2>1, <3>1
  <2>2. ASSUME NEW i \in OfPost(p, a)'
        PROVE  /\ topic'[a][i].event \in Forwarded(p)
               /\ {f \in Forwarded(p) : f < topic'[a][i].event}
                    = {topic'[a][j].event : j \in {k \in OfPost(p, a)' : k < i}}
    <3>1. CASE i = n
      <4>1. {k \in OfPost(p, a)' : k < i} = OfPost(p, a)
        BY <1>4, <1>13, <1>14, <3>1
      <4>2. {topic'[a][j].event : j \in OfPost(p, a)} = InTopic(p)
        BY <1>2, <1>5 DEF InTopic
      <4> QED
        BY <1>1, <1>4, <1>13, <1>14, <3>1, <4>1, <4>2
    <3>2. CASE i \in OfPost(p, a)
      <4>1. {k \in OfPost(p, a)' : k < i} = {k \in OfPost(p, a) : k < i}
        BY <1>4, <1>13, <1>14, <3>2
      <4>2. /\ topic[a][i].event \in Forwarded(p)
            /\ {f \in Forwarded(p) : f < topic[a][i].event}
                 = {topic[a][j].event : j \in {k \in OfPost(p, a) : k < i}}
        BY <1>1, <3>2 DEF PostInv, BatchOK
      <4> QED
        BY <1>5, <3>2, <4>1, <4>2
    <3> QED
      BY <1>4, <1>13, <1>14, <3>1, <3>2
  <2> QED
    BY <1>2, <1>6, <2>1, <2>2 DEF BatchOK
<1> QED
  BY <1>4, <1>13, <1>14, <1>7, <1>8, <1>9, <1>11, <1>12

(* What the receiver goes on to after an event that is in the topic.        *)
LEMMA WrittenStep ==
  ASSUME EdgeInv, NEW p \in Posts, handling[p].pc = "publishing", Published(p),
         UNCHANGED <<cookie, sent, post>>,
         handling' \in [Posts -> [pc : ReceiverPc, next : Nat]],
         \A q \in Posts : q # p => handling'[q] = handling[q],
         \/ handling'[p].pc = "error"
         \/ /\ handling'[p].pc = "publishing"
            /\ handling'[p].next \in Forwarded(p) /\ handling'[p].next > handling[p].next
            /\ \A f \in Forwarded(p) : f > handling[p].next => handling'[p].next <= f
         \/ /\ handling'[p].pc = "ok"
            /\ \A f \in Forwarded(p) : ~(f > handling[p].next)
  PROVE  EdgeInv'
<1>1. /\ TypeOK /\ PostInv(p) /\ post[p].anon \in Posts /\ handling[p].next \in Forwarded(p)
      /\ InTopic(p) = {f \in Forwarded(p) : f < handling[p].next}
      /\ Forwarded(p) # {}
  BY DEF EdgeInv, PostInv, ReceiverPhase
<1>2. /\ topic' \in [Posts -> Seq(TopicEvent)]
      /\ \A q \in Posts : BatchOK(q)'
      /\ InTopic(p)' = InTopic(p) \union {handling[p].next}
      /\ \A q \in Posts : q # p => (Untouched(q)' <=> Untouched(q))
      /\ \A q \in Posts : q # p /\ post[q].anon \in Posts => InTopic(q)' = InTopic(q)
  BY PublishedBatches
<1>3. Forwarded(p) \in SUBSET Nat
  BY <1>1, ForwardedPlaces
<1>4. TypeOK'
  BY <1>1, <1>2 DEF TypeOK
<1>5. \A q \in Posts : Forwarded(q)' = Forwarded(q) /\ post'[q] = post[q]
  BY DEF Forwarded
<1>6. PostInv(p)'
  <2>1. PostPhase(p)'
    BY <1>1, <1>5 DEF PostInv, PostPhase
  <2>2. ReceiverPhase(p)'
    <3>1. CASE handling'[p].pc = "error"
      BY <1>1, <1>5, <3>1 DEF ReceiverPhase
    <3>2. CASE /\ handling'[p].pc = "publishing"
               /\ handling'[p].next \in Forwarded(p) /\ handling'[p].next > handling[p].next
               /\ \A f \in Forwarded(p) : f > handling[p].next => handling'[p].next <= f
      <4>1. ASSUME NEW f \in Forwarded(p)
            PROVE  f < handling'[p].next <=> f < handling[p].next \/ f = handling[p].next
        BY <1>1, <1>3, <3>2
      <4>2. InTopic(p)' = {f \in Forwarded(p) : f < handling'[p].next}
        BY <1>1, <1>2, <4>1
      <4> QED
        BY <1>1, <1>5, <3>2, <4>2 DEF ReceiverPhase
    <3>3. CASE handling'[p].pc = "ok" /\ \A f \in Forwarded(p) : ~(f > handling[p].next)
      <4>1. ASSUME NEW f \in Forwarded(p) PROVE f < handling[p].next \/ f = handling[p].next
        BY <1>1, <1>3, <3>3
      <4>2. InTopic(p)' = Forwarded(p)
        BY <1>1, <1>2, <4>1
      <4> QED
        BY <1>1, <1>5, <3>3, <4>2 DEF ReceiverPhase
    <3> QED
      BY <3>1, <3>2, <3>3
  <2> QED
    BY <1>2, <2>1, <2>2 DEF PostInv
<1>7. ASSUME NEW q \in Posts, q # p PROVE PostInv(q)'
  <2>1. PostInv(q) /\ handling'[q] = handling[q]
    BY <1>7 DEF EdgeInv
  <2>2. PostPhase(q)'
    BY <1>5, <2>1 DEF PostInv, PostPhase
  <2>3. ReceiverPhase(q)'
    BY <1>2, <1>5, <1>7, <2>1 DEF PostInv, ReceiverPhase
  <2> QED
    BY <1>2, <2>2, <2>3 DEF PostInv
<1> QED
  BY <1>4, <1>6, <1>7 DEF EdgeInv

LEMMA PublishStep == ASSUME EdgeInv, NEW p \in Posts, Publish(p) PROVE EdgeInv'
<1> DEFINE rest == {i \in Forwarded(p) : i > handling[p].next}
<1>1. /\ handling \in [Posts -> [pc : ReceiverPc, next : Nat]]
      /\ handling[p].pc = "publishing" /\ Forwarded(p) \in SUBSET Nat
  BY ForwardedPlaces DEF EdgeInv, TypeOK, Publish
<1>2. rest \in SUBSET Nat
  BY <1>1
<1>3. CASE rest # {} /\ handling' = [handling EXCEPT ![p] = [@ EXCEPT !.next = First(rest)]]
  <2>1. First(rest) \in rest /\ \A f \in rest : First(rest) <= f
    BY <1>2, <1>3, FirstIsLeast
  <2>2. /\ handling' \in [Posts -> [pc : ReceiverPc, next : Nat]]
        /\ \A q \in Posts : q # p => handling'[q] = handling[q]
        /\ handling'[p].pc = "publishing" /\ handling'[p].next = First(rest)
    BY <1>1, <1>2, <1>3, <2>1
  <2> QED
    BY <1>1, <2>1, <2>2, WrittenStep DEF Publish
<1>4. CASE rest = {} /\ handling' = [handling EXCEPT ![p] = [@ EXCEPT !.pc = "ok"]]
  <2>1. /\ handling' \in [Posts -> [pc : ReceiverPc, next : Nat]]
        /\ \A q \in Posts : q # p => handling'[q] = handling[q]
        /\ handling'[p].pc = "ok"
    BY <1>1, <1>4 DEF ReceiverPc
  <2>2. \A f \in Forwarded(p) : ~(f > handling[p].next)
    BY <1>4
  <2> QED
    BY <1>1, <2>1, <2>2, WrittenStep DEF Publish
<1> QED
  BY <1>3, <1>4 DEF Publish, LoopOn

LEMMA RaiseStep == ASSUME EdgeInv, NEW p \in Posts, PublishRaises(p) PROVE EdgeInv'
<1>1. /\ handling \in [Posts -> [pc : ReceiverPc, next : Nat]]
      /\ handling[p].pc = "publishing" /\ UNCHANGED <<cookie, sent, post>>
      /\ handling' = [handling EXCEPT ![p].pc = "error"]
  BY DEF EdgeInv, TypeOK, PublishRaises
<1>2. /\ handling' \in [Posts -> [pc : ReceiverPc, next : Nat]]
      /\ \A q \in Posts : q # p => handling'[q] = handling[q]
      /\ handling'[p].pc = "error"
  BY <1>1 DEF ReceiverPc
<1>3. CASE Published(p)
  BY <1>1, <1>2, <1>3, WrittenStep
<1>4. CASE topic' = topic
  <2>1. post[p].anon \in Posts /\ Forwarded(p) # {} /\ Forwarded(p)' = Forwarded(p)
    BY <1>1, <1>4, SameTopic DEF EdgeInv, PostInv, ReceiverPhase
  <2>2. ASSUME NEW q \in {p}
        PROVE  handling[q].pc = "publishing" /\ handling'[q].pc # "none" /\ ReceiverPhase(q)'
    <3>1. q = p
      OBVIOUS
    <3>2. ReceiverPhase(p)'
      BY <1>1, <1>2, <2>1 DEF ReceiverPhase
    <3> QED
      BY <1>1, <1>2, <3>1, <3>2
  <2>3. {p} \in SUBSET Posts /\ \A q \in Posts \ {p} : handling'[q] = handling[q]
    BY <1>2
  <2> QED
    BY <1>1, <1>2, <1>4, <2>2, <2>3, ReceiverAlone
<1> QED
  BY <1>3, <1>4 DEF PublishRaises

LEMMA EdgeStep == EdgeInv /\ [Next]_vars => EdgeInv'
<1> SUFFICES ASSUME EdgeInv, [Next]_vars PROVE EdgeInv'
  OBVIOUS
<1>1. CASE PostEvents
  BY <1>1, PostEventsStep
<1>2. ASSUME NEW p \in Posts, Handle(p) PROVE EdgeInv'
  BY <1>2, HandleStep
<1>3. ASSUME NEW p \in Posts, UpstreamAnswers(p) \/ ReadBody(p) \/ FetchFails(p) \/ Timeout(p)
      PROVE  EdgeInv'
  BY <1>3, AnswersStep
<1>4. ASSUME NEW p \in Posts, BrowserSees(p) \/ AnswerLost(p) PROVE EdgeInv'
  BY <1>4, BrowserStep
<1>5. ASSUME NEW p \in Posts, Receive(p) PROVE EdgeInv'
  BY <1>5, ReceiveStep
<1>6. ASSUME NEW p \in Posts, Publish(p) PROVE EdgeInv'
  BY <1>6, PublishStep
<1>7. ASSUME NEW p \in Posts, PublishRaises(p) PROVE EdgeInv'
  BY <1>7, RaiseStep
<1>8. CASE ReceiverStops
  BY <1>8, StopStep
<1>9. CASE UNCHANGED vars
  <2>1. TypeOK'
    BY <1>9 DEF EdgeInv, TypeOK, vars
  <2>2. ASSUME NEW q \in Posts PROVE PostInv(q)'
    BY <1>9, SamePost DEF EdgeInv, vars
  <2> QED
    BY <2>1, <2>2 DEF EdgeInv
<1> QED
  BY <1>1, <1>2, <1>3, <1>4, <1>5, <1>6, <1>7, <1>8, <1>9 DEF Next

-----------------------------------------------------------------------------
(* In the partition no event of a batch is twice: as many places as events. *)
LEMMA AsManyPlaces ==
  ASSUME TypeOK, NEW p \in Posts, BatchOK(p), post[p].anon \in Posts, InTopic(p) = Forwarded(p)
  PROVE  Cardinality(OfPost(p, post[p].anon)) = Cardinality(Forwarded(p))
<1> DEFINE a == post[p].anon
<1> DEFINE places == OfPost(p, a)
<1> DEFINE eventAt == [i \in places |-> topic[a][i].event]
<1>1. Len(topic[a]) \in Nat /\ places \in SUBSET (1..Len(topic[a]))
  BY DEF TypeOK, OfPost
<1>2. IsFiniteSet(places)
  <2>1. PICK n \in Nat : n = Len(topic[a])
    BY <1>1
  <2>2. 1 \in Int /\ n \in Int
    OBVIOUS
  <2>3. IsFiniteSet(1..n)
    BY <2>2, FS_Interval, Zenon
  <2> QED
    BY <1>1, <2>1, <2>3, FS_Subset
<1>3. eventAt \in [places -> Forwarded(p)]
  <2>1. ASSUME NEW i \in places PROVE topic[a][i].event \in Forwarded(p)
    <3>1. topic[a][i].event \in InTopic(p)
      BY DEF InTopic
    <3> QED
      BY <3>1
  <2> HIDE DEF places, a
  <2> QED
    BY <2>1
<1>4. ASSUME NEW i \in places, NEW j \in places, eventAt[i] = eventAt[j] PROVE i = j
  <2>1. ASSUME NEW k \in places, NEW l \in places, k < l PROVE eventAt[k] < eventAt[l]
    <3>1. {f \in Forwarded(p) : f < topic[a][l].event}
            = {topic[a][m].event : m \in {h \in places : h < l}}
      BY DEF BatchOK
    <3> QED
      BY <2>1, <3>1
  <2>2. eventAt[i] \in Nat /\ i \in Nat /\ j \in Nat
    BY <1>1, <1>3, ForwardedPlaces
  <2> QED
    BY <1>4, <2>1, <2>2
<1>5. \A f \in Forwarded(p) : \E i \in places : eventAt[i] = f
  BY DEF InTopic
<1> HIDE DEF places, eventAt
<1>6. eventAt \in Bijection(places, Forwarded(p))
  BY <1>3, <1>4, <1>5, Fun_IsBij
<1> QED
  BY <1>2, <1>6, FS_Bijection DEF ExistsBijection, places

(* An answer with a number is the answer of a receiver that has published   *)
(* every event that was forwarded, once (route.ts POST, http-receiver       *)
(* app.py post_events).                                                     *)
THEOREM AcceptedPublished == Spec => []AcceptedIsPublished
<1>1. EdgeInv => AcceptedIsPublished
  <2> SUFFICES ASSUME EdgeInv, NEW p \in Posts, post[p].accepted > 0
               PROVE  /\ Forwarded(p) = InTopic(p)
                      /\ post[p].accepted = Cardinality(OfPost(p, post[p].anon))
    BY DEF AcceptedIsPublished, InTopic
  <2>1. TypeOK /\ BatchOK(p) /\ InTopic(p) = Forwarded(p) /\ post[p].anon \in Posts
        /\ post[p].accepted = Cardinality(Forwarded(p))
    BY DEF EdgeInv, PostInv, PostPhase, ReceiverPhase
  <2> QED
    BY <2>1, AsManyPlaces
<1> QED
  BY <1>1, Initially, EdgeStep, PTL DEF Spec

(* Whatever fails and whenever the receiver is stopped, of a batch the      *)
(* topic holds a beginning, in order, once, under one anon_id (http-        *)
(* receiver/app.py post_events).                                            *)
THEOREM BatchesBegin == Spec => []BeginningOfBatch
<1>1. EdgeInv => BeginningOfBatch
  BY DEF EdgeInv, PostInv, BatchOK, BeginningOfBatch
<1> QED
  BY <1>1, Initially, EdgeStep, PTL DEF Spec

(* The browser has a as its cookie since before the posts after n, and no   *)
(* answer can bring another: the later posts carry it and are stamped so.   *)
Settled(a, n) ==
  /\ cookie = a /\ n <= sent
  /\ \A p \in Posts :
       /\ ~MayBringCookie(p)
       /\ p > n => /\ post[p].pc # "none" => post[p].header = a
                   /\ post[p].pc \notin {"none", "posted"} => post[p].anon \in {0, a}

PublishedUnder(a, n) == \A p, b \in Posts : p > n /\ b # a => OfPost(p, b) = {}

(* A post that is under way goes on, with its header and its id.            *)
LEMMA SettledGoesOn ==
  ASSUME NEW a \in Posts, NEW n \in Posts, Settled(a, n), NEW p \in Posts,
         UNCHANGED <<cookie, sent>>, post[p].pc \in {"waiting", "reading", "answered"},
         post'[p].header = post[p].header, post'[p].anon = post[p].anon,
         \A q \in Posts : q # p => post'[q] = post[q]
  PROVE  Settled(a, n)'
<1>1. ASSUME NEW q \in Posts, q # p
      PROVE  /\ ~MayBringCookie(q)'
             /\ q > n => /\ post'[q].pc # "none" => post'[q].header = a
                         /\ post'[q].pc \notin {"none", "posted"} => post'[q].anon \in {0, a}
  BY <1>1 DEF Settled, MayBringCookie
<1>2. post[p].header # 0 /\ ~MayBringCookie(p)'
  BY DEF Settled, MayBringCookie
<1>3. p > n => post'[p].header = a /\ post'[p].anon \in {0, a}
  BY DEF Settled
<1> QED
  BY <1>1, <1>2, <1>3 DEF Settled

LEMMA SettledPost ==
  ASSUME NEW a \in Posts, NEW n \in Posts, EdgeInv, Settled(a, n), PostEvents
  PROVE  Settled(a, n)'
<1>1. PICK q \in Posts : q = sent + 1 /\ sent' = q
  BY ConstantsAssumption DEF PostEvents, EdgeInv, TypeOK, Posts
<1>2. /\ post \in [Posts -> Posted] /\ sent \in Nat /\ n \in Nat /\ a # 0
      /\ cookie = a /\ cookie' = a /\ n <= sent
  BY ConstantsAssumption DEF EdgeInv, TypeOK, Posts, Settled, PostEvents
<1>3. /\ post'[q].pc = "posted" /\ post'[q].header = a
      /\ \A p \in Posts : p # q => post'[p] = post[p]
  BY <1>1, <1>2 DEF PostEvents, Posted
<1>4. n <= sent'
  BY <1>1, <1>2
<1>5. ASSUME NEW p \in Posts, p # q
      PROVE  /\ ~MayBringCookie(p)'
             /\ p > n => /\ post'[p].pc # "none" => post'[p].header = a
                         /\ post'[p].pc \notin {"none", "posted"} => post'[p].anon \in {0, a}
  BY <1>3, <1>5 DEF Settled, MayBringCookie
<1>6. ~MayBringCookie(q)'
  BY <1>2, <1>3 DEF MayBringCookie
<1> QED
  BY <1>2, <1>3, <1>4, <1>5, <1>6 DEF Settled

LEMMA SettledHandle ==
  ASSUME NEW a \in Posts, NEW n \in Posts, EdgeInv, Settled(a, n),
         NEW p \in Posts, Handle(p)
  PROVE  Settled(a, n)'
<1>1. post \in [Posts -> Posted] /\ cookie' = cookie /\ sent' = sent /\ post[p].pc = "posted"
  BY DEF EdgeInv, TypeOK, Handle
<1>2. post[p].header # 0 /\ (p > n => post[p].header = a)
  BY <1>1 DEF Settled, MayBringCookie
<1>3. AnonId(p) = post[p].header
  BY <1>2 DEF AnonId, getOrCreateAnonId
<1>4. /\ post'[p].header = post[p].header /\ post'[p].anon \in {0, AnonId(p)}
      /\ \A q \in Posts : q # p => post'[q] = post[q]
  BY <1>1 DEF Handle, Answer, Posted
<1>5. ASSUME NEW q \in Posts, q # p
      PROVE  /\ ~MayBringCookie(q)'
             /\ q > n => /\ post'[q].pc # "none" => post'[q].header = a
                         /\ post'[q].pc \notin {"none", "posted"} => post'[q].anon \in {0, a}
  BY <1>4, <1>5 DEF Settled, MayBringCookie
<1>6. ~MayBringCookie(p)'
  BY <1>2, <1>4 DEF MayBringCookie
<1>7. p > n => post'[p].header = a /\ post'[p].anon \in {0, a}
  BY <1>2, <1>3, <1>4
<1> QED
  BY <1>1, <1>5, <1>6, <1>7 DEF Settled

LEMMA SettledStep ==
  ASSUME NEW a \in Posts, NEW n \in Posts, EdgeInv, Settled(a, n), [Next]_vars
  PROVE  Settled(a, n)'
<1>1. CASE PostEvents
  BY <1>1, SettledPost
<1>2. ASSUME NEW p \in Posts, Handle(p) PROVE Settled(a, n)'
  BY <1>2, SettledHandle
<1>3. ASSUME NEW p \in Posts,
             \/ UpstreamAnswers(p) \/ ReadBody(p) \/ FetchFails(p) \/ Timeout(p)
             \/ BrowserSees(p) \/ AnswerLost(p)
      PROVE  Settled(a, n)'
  <2>1. /\ post \in [Posts -> Posted] /\ sent' = sent
        /\ post[p].pc \in {"waiting", "reading", "answered"}
    BY <1>3 DEF EdgeInv, TypeOK, UpstreamAnswers, ReadBody, FetchFails, Timeout, BrowserSees, AnswerLost
  <2>2. /\ post'[p].header = post[p].header /\ post'[p].anon = post[p].anon
        /\ \A q \in Posts : q # p => post'[q] = post[q]
    <3>1. CASE UpstreamAnswers(p)
      BY <2>1, <3>1 DEF UpstreamAnswers, Answer, Posted
    <3>2. CASE ReadBody(p)
      BY <2>1, <3>2 DEF ReadBody, Answer, Posted
    <3>3. CASE FetchFails(p) \/ Timeout(p)
      BY <2>1, <3>3 DEF FetchFails, Timeout, Answer, Posted
    <3>4. CASE BrowserSees(p) \/ AnswerLost(p)
      BY <2>1, <3>4 DEF BrowserSees, AnswerLost, Posted
    <3> QED
      BY <1>3, <3>1, <3>2, <3>3, <3>4
  <2>3. cookie' = cookie
    <3>1. post[p].header # 0
      BY <2>1 DEF Settled, MayBringCookie
    <3>2. getOrCreateAnonId(p).setCookie = 0
      BY <3>1 DEF getOrCreateAnonId
    <3> QED
      BY <1>3, <3>2 DEF UpstreamAnswers, ReadBody, FetchFails, Timeout, BrowserSees, AnswerLost
  <2> QED
    BY <2>1, <2>2, <2>3, SettledGoesOn
<1>4. CASE UNCHANGED <<cookie, sent, post>>
  BY <1>4 DEF Settled, MayBringCookie
<1>5. CASE \/ \E p \in Posts : Receive(p) \/ Publish(p) \/ PublishRaises(p)
           \/ ReceiverStops \/ UNCHANGED vars
  BY <1>4, <1>5 DEF Receive, Publish, PublishRaises, ReceiverStops, vars
<1> QED
  BY <1>1, <1>2, <1>3, <1>5 DEF Next

LEMMA SettledBegins ==
  ASSUME NEW a \in Posts, NEW n \in Posts, EdgeInv,
         cookie = a, sent = n, \A p \in Posts : ~MayBringCookie(p)
  PROVE  Settled(a, n)
<1>1. n <= sent
  BY DEF Posts
<1>2. \A p \in Posts : p > n => post[p].pc = "none"
  BY DEF EdgeInv, PostInv, PostPhase
<1> QED
  BY <1>1, <1>2 DEF Settled

LEMMA SettledPublishes ==
  ASSUME NEW a \in Posts, NEW n \in Posts, EdgeInv, Settled(a, n)
  PROVE  PublishedUnder(a, n)
<1> SUFFICES ASSUME NEW p \in Posts, NEW b \in Posts, p > n, b # a
             PROVE  OfPost(p, b) = {}
  BY DEF PublishedUnder
<1>1. PostInv(p)
  BY DEF EdgeInv
<1>2. CASE handling[p].pc = "none"
  BY <1>1, <1>2 DEF PostInv, ReceiverPhase, Untouched
<1>3. CASE handling[p].pc # "none"
  <2>1. post[p].anon \in Posts /\ post[p].pc \notin {"none", "posted"}
    BY <1>1, <1>3 DEF PostInv, PostPhase, ReceiverPhase
  <2>2. post[p].anon \in {0, a}
    BY <2>1 DEF Settled
  <2>3. 0 \notin Posts
    BY DEF Posts
  <2>4. b # post[p].anon
    BY <2>1, <2>2, <2>3
  <2> QED
    BY <1>1, <2>4 DEF PostInv, BatchOK
<1> QED
  BY <1>2, <1>3

(* Once no answer can bring another cookie, everything the browser posts    *)
(* is published under the one it has (cookie-anon.ts getOrCreateAnonId,     *)
(* route.ts POST).                                                          *)
THEOREM IdsSettle == Spec => IdSettles
<1> SUFFICES ASSUME NEW a \in Posts, NEW n \in Posts
             PROVE  Spec => []((/\ cookie = a /\ sent = n
                                /\ \A p \in Posts : ~MayBringCookie(p))
                               => [](\A p, b \in Posts : p > n /\ b # a => OfPost(p, b) = {}))
  BY DEF IdSettles
<1>1. EdgeInv /\ (cookie = a /\ sent = n /\ \A p \in Posts : ~MayBringCookie(p))
        => Settled(a, n)
  BY SettledBegins
<1>2. EdgeInv /\ Settled(a, n) /\ [Next]_vars => Settled(a, n)'
  BY SettledStep
<1>3. EdgeInv /\ Settled(a, n)
        => (\A p, b \in Posts : p > n /\ b # a => OfPost(p, b) = {})
  BY SettledPublishes DEF PublishedUnder
<1> QED
  BY <1>1, <1>2, <1>3, Initially, EdgeStep, PTL DEF Spec
=============================================================================
