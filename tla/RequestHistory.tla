--------------------------- MODULE RequestHistory ---------------------------
(***************************************************************************)
(* Requests.tla with the memory a handle does not have: which send it was  *)
(* used for last.                                                          *)
(***************************************************************************)
EXTENDS Requests

VARIABLE last  \* last[h]: the last send that returned on handle h; "none";
               \* or, for tbc_poll's, "meddled": main was in a send at some
               \* moment of the duplication

Lasts == Sends \union {"none", "meddled"}

\* The send that t returns from now, on handle h.
ReturnsNow(t, h) ==
  Uses(t) = h /\ pc[t] = "return" /\ pc'[t] = "ready" /\ call[t] \in Sends

LastNow(h) ==
  IF h = "poll" /\ pc'["poll"] = "duplicating" /\ call'["main"] \in Sends
  THEN "meddled"
  ELSE IF h = "poll" /\ pc["poll"] = "dup" /\ pc'["poll"] = "duplicating"
  THEN last["main"]
  ELSE IF \E t \in Threads : ReturnsNow(t, h)
  THEN call[CHOOSE t \in Threads : ReturnsNow(t, h)]
  ELSE last[h]

HInit == Init /\ last = [h \in {"main", "poll"} |-> "none"]
HNext == Next /\ last' = [h \in {"main", "poll"} |-> LastNow(h)]
HSpec == HInit /\ [][HNext]_<<vars, last>>

\* telebot_Capi.c:269, "http_get(...)", and :374: a getMe or a getUpdates is a
\* GET, unless the last send on its handle was a sendPoll (whatever was called
\* in between), or the handle was duplicated while main was sending.
GetUnlessPolled ==
  \A t \in Threads :
    pc[t] = "transfer" /\ call[t] \in Gets /\ request[t].method = "POST" =>
      last[Uses(t)] \in {"sendPoll", "meddled"}

=============================================================================
