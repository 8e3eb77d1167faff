------------------------- MODULE MCPollingProducer -------------------------
(* An instance of PollingProducer with both kinds of answer: one event, as  *)
(* every area of the hotspot producer gives, and two events of one key, as  *)
(* a station of the subway producer with two trains gives.                  *)
EXTENDS PollingProducer

MCTargets == <<"gangnam", "seolleung">>
MCBatch == [t \in {"gangnam", "seolleung"} |->
              IF t = "gangnam" THEN <<"gangnam">> ELSE <<"2:seolleung", "2:seolleung">>]
=============================================================================
