------------------------------ MODULE Delivery ------------------------------
(***************************************************************************)
(* What the long-polling half of telebot_Capi promises its user, with no   *)
(* thread, no message queue and no URL in sight.                           *)
(*                                                                         *)
(*   - In one session (one life of the process) the updates are handed to  *)
(*     the handlers one at a time, in the order of their ids, without a    *)
(*     gap and without a repetition.                                       *)
(*   - The server only forgets an update whose handler has returned, so    *)
(*     that a session that dies is followed by one that is given every     *)
(*     update the dead one may not have finished: at least once overall.   *)
(*                                                                         *)
(* Polling.tla implements this specification.                              *)
(***************************************************************************)
EXTENDS Integers

VARIABLES
  arrived,    \* updates 1..arrived exist at the server
  confirmed,  \* updates 1..confirmed have been forgotten by the server
  handled,    \* updates whose handler has returned, in any session
  cursor,     \* the last update handed to a handler in this session, or 0
  active      \* its handler has not returned

vars == <<arrived, confirmed, handled, cursor, active>>

Larger(a, b) == IF a > b THEN a ELSE b

Init ==
  /\ arrived = 0
  /\ confirmed = 0
  /\ handled = {}
  /\ cursor = 0
  /\ active = FALSE

\* A new update reaches the server.
Arrive ==
  /\ arrived' = arrived + 1
  /\ UNCHANGED <<confirmed, handled, cursor, active>>

\* The next update is handed over, once the previous handler has returned.
Deliver ==
  /\ ~active
  /\ active' = TRUE
  /\ cursor' = Larger(cursor, confirmed) + 1
  /\ cursor' <= arrived
  /\ UNCHANGED <<arrived, confirmed, handled>>

\* The handler of the current update returns.
Complete ==
  /\ active
  /\ active' = FALSE
  /\ handled' = handled \union {cursor}
  /\ UNCHANGED <<arrived, confirmed, cursor>>

\* Between two handlers the server forgets a prefix of the updates that this
\* session has come to, all of them handled.  (A request that the server has
\* not acted on when its process dies is taken to be lost.)
Confirm ==
  /\ ~active
  /\ confirmed' \in (confirmed + 1)..cursor
  /\ 1..confirmed' \subseteq handled
  /\ UNCHANGED <<arrived, handled, cursor, active>>

\* The process dies or is started again.
Restart ==
  /\ cursor' = 0
  /\ active' = FALSE
  /\ UNCHANGED <<arrived, confirmed, handled>>

Next == Arrive \/ Deliver \/ Complete \/ Confirm \/ Restart

Spec == Init /\ [][Next]_vars

=============================================================================
