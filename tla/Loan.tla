-------------------------------- MODULE Loan --------------------------------
(***************************************************************************)
(* What tbc_poll and its parsers promise each other about the curl handle  *)
(* and the stack of tbc_poll, with no queue in sight: they are lent to one *)
(* parser, used by nobody but their holder of the moment, and tbc_poll has *)
(* them again only when that parser has said so.                           *)
(*                                                                         *)
(* Polling.tla implements this specification with a message queue;         *)
(* Requests.tla, which has what the handle is used for, and Lifecycle.tla, *)
(* which has when the library it belongs to is gone, keep to it.           *)
(***************************************************************************)

VARIABLES
  holder,  \* "poll", "parser", or "sent": given back, and not yet taken;
           \* "nobody" while there is no tbc_poll
  using    \* who is in a call of curl, or "nobody"

vars == <<holder, using>>

Init == holder \in {"nobody", "poll"} /\ using = "nobody"

\* tbc_poll begins, with a handle of its own.
Start ==
  /\ holder = "nobody" /\ using = "nobody"
  /\ holder' = "poll"
  /\ UNCHANGED using

\* The holder, and nobody else, calls curl, again and again.
Use ==
  /\ using = "nobody" /\ holder \in {"poll", "parser"}
  /\ using' = holder
  /\ UNCHANGED holder

Done ==
  /\ using # "nobody"
  /\ using' = "nobody"
  /\ UNCHANGED holder

\* tbc_poll starts a parser; the parser is at its end; tbc_poll goes on.  The
\* last call of the one may end, and the first of the other begin, with that.
Pass(from, to) ==
  /\ using \in {"nobody", from} /\ holder = from
  /\ holder' = to
  /\ using' \in {"nobody", to} \ {"sent"}

\* tbc_poll ends, or the whole process dies.
End == holder' = "nobody" /\ using' = "nobody"

Next ==
  \/ Start \/ Use \/ Done \/ End
  \/ Pass("poll", "parser") \/ Pass("parser", "sent") \/ Pass("sent", "poll")

Spec == Init /\ [][Next]_vars

=============================================================================
