------------------------------ MODULE OpenHours ------------------------------
(***************************************************************************)
(* When a place is open: is_open_now of the API (src/src/api/lib_chill.py) *)
(* and isOpenAtHour of the page (src/frontend/lib/chill-open-client.ts).   *)
(* The page's buffer is in minutes, hours are whole.                       *)
(***************************************************************************)
EXTENDS Integers

CONSTANT None  \* an hour that is not known

is_open_now(open_hour, close_hour, current_hour) ==
  /\ open_hour # None /\ close_hour # None
  /\ \/ close_hour = 24 /\ open_hour = 0
     \/ close_hour > open_hour /\ open_hour <= current_hour /\ current_hour < close_hour
     \/ close_hour <= open_hour /\ (current_hour >= open_hour \/ current_hour < close_hour)

(* Mutant of isOpenAtHour: the buffer is forgotten.                        *)
OpenWithoutBuffer(open_hour, close_hour, current_hour, buffer) ==
  /\ open_hour # None /\ close_hour # None
  /\ current_hour >= open_hour /\ current_hour < close_hour

isOpenAtHour(open_hour, close_hour, current_hour, buffer) ==
  /\ open_hour # None /\ close_hour # None
  /\ current_hour >= open_hour /\ 60 * current_hour < 60 * close_hour - buffer
=============================================================================
