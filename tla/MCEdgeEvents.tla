---------------------------- MODULE MCEdgeEvents ----------------------------
(* An instance of EdgeEvents: two posts of every kind that the handlers     *)
(* tell apart, or three good ones, of which two may each bring a cookie and *)
(* one comes after them.                                                    *)
EXTENDS EdgeEvents

Json(events) == [json |-> TRUE, events |-> events]

AllBodies == {NoBody, Json(<<"rejected">>), Json(<<"good">>), Json(<<"rejected", "good", "good">>),
              Json(<<"good", "invalid">>)}

Good == Json(<<"good">>)

MCNext ==
  /\ Next
  /\ sent' > 2 => \A p \in 1..sent' : post'[p].body = Good

MCFairSpec == Init /\ [][MCNext]_vars /\ Fairness
=============================================================================
