--------------------------- MODULE NotifierHistory --------------------------
(* Notifiers.tla with a history of the registrations that were accepted.   *)
EXTENDS Notifiers

VARIABLE accepted  \* what addUpdateNotifier has returned 0 for

Registration(event, new) ==
  [type |-> event.type, info |-> event.info, handle |-> new]

AcceptedNow ==
  {Registration(op[t].event, op[t].new) :
     t \in {u \in Mutators : /\ pc[u] = "post" /\ pc'[u] = "idle"
                             /\ op[u].kind = "add" /\ i[u] # 0}}

HInit == Init /\ accepted = {}
HNext == Next /\ accepted' = accepted \union AcceptedNow
HSpec == HInit /\ [][HNext]_<<vars, accepted>>

\* events.c:98, "0 si se completa con exito": while nobody modifies or
\* removes, a registration that was accepted is in the table.
AcceptedIsKept ==
  \A registration \in accepted : \E s \in Slots : notifiers[s] = registration

=============================================================================
