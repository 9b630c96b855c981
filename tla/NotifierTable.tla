---------------------------- MODULE NotifierTable ---------------------------
(***************************************************************************)
(* What lib/telebot_Capi/events.c promises: a table of at most             *)
(* MAX_UPDATE_EVENTS - 1 registrations plus a default handler.  A call of  *)
(* add, modify, remove or find acts in one step between its start and its  *)
(* return.                                                                 *)
(*                                                                         *)
(* Notifiers.tla implements this specification when a single thread        *)
(* changes the table.                                                      *)
(***************************************************************************)
EXTENDS Integers, FiniteSetsExt

CONSTANTS
  Threads,            \* who calls
  Events,             \* the events in use: [type, info]
  Updates,            \* the updates in use: [type, key]
  Handles,            \* the user's handlers
  MAX_UPDATE_EVENTS

VARIABLES
  default,  \* the handler of what nothing else matches
  table,    \* table[i]: a registration [event, handle], or Free
  call,     \* call[t]: the call of t that has not acted yet, or NoCall
  done      \* done[t]: what the last call of t that acted returns: "ok", "error"
            \* or a handler

vars == <<default, table, call, done>>

Free == [event |-> [type |-> "UPDATE_NONE", info |-> "empty"], handle |-> "NULL"]
Slots == 1..(MAX_UPDATE_EVENTS - 1)

Holding(event) == {i \in Slots : table[i].event = event}

Change(kind, event, new) == [kind |-> kind, event |-> event, new |-> new]
Lookup(update) == [kind |-> "find", update |-> update]
NoCall == Change("none", Free.event, "NULL")

Init ==
  /\ default = "ignoreUpdate"
  /\ table = [i \in Slots |-> Free]
  /\ call = [t \in Threads |-> NoCall]
  /\ done = [t \in Threads |-> "ok"]

\* A NULL handler and the empty event are refused at once.
Acceptable(new, event) == new # "NULL" /\ event.type # "UPDATE_NONE"

Calls ==
  {Change("remove", event, "NULL") : event \in Events}
    \union {Lookup(update) : update \in Updates}
    \union {c \in {Change(kind, event, new) :
                     kind \in {"add", "modify"}, event \in Events, new \in Handles} :
              Acceptable(c.new, c.event)}

Start(t) ==
  /\ call[t] = NoCall
  /\ \E c \in Calls : call' = [call EXCEPT ![t] = c]
  /\ UNCHANGED <<default, table, done>>

Refuse(t) ==
  /\ call[t] = NoCall
  /\ \E event \in Events, new \in Handles \union {"NULL"} : ~Acceptable(new, event)
  /\ done' = [done EXCEPT ![t] = "error"]
  /\ UNCHANGED <<default, table, call>>

-----------------------------------------------------------------------------
Returns(t, value) ==
  /\ done' = [done EXCEPT ![t] = value]
  /\ call' = [call EXCEPT ![t] = NoCall]

Fails(t) == Returns(t, "error") /\ UNCHANGED <<default, table>>

SetDefault(t, new) ==
  /\ default' = new
  /\ Returns(t, "ok")
  /\ UNCHANGED table

\* The first slot among those given takes the registration; no slot, no luck.
SetFirst(t, slots, registration) ==
  IF slots = {}
  THEN Fails(t)
  ELSE /\ table' = [table EXCEPT ![Min(slots)] = registration]
       /\ Returns(t, "ok")
       /\ UNCHANGED default

FreeSlots == {i \in Slots : table[i] = Free}

Add(t, event, new) ==
  IF event.type = "UPDATE_ANY" THEN SetDefault(t, new)
  ELSE SetFirst(t, FreeSlots, [event |-> event, handle |-> new])

Modify(t, event, new) ==
  IF event.type = "UPDATE_ANY" THEN SetDefault(t, new)
  ELSE SetFirst(t, Holding(event), [event |-> event, handle |-> new])

\* Removing the event of an empty slot changes nothing, whatever it returns.
Remove(t, event) ==
  CASE event.type = "UPDATE_ANY"  -> SetDefault(t, "ignoreUpdate")
    [] event.type = "UPDATE_NONE" -> \/ Fails(t)
                                     \/ /\ Returns(t, "ok")
                                        /\ UNCHANGED <<default, table>>
    [] OTHER -> SetFirst(t, Holding(event), Free)

\* The first registration that names what the update carries, else the last
\* one for updates of its type in general, else the default.
BestMatch(update) ==
  LET OfType   == {i \in Slots : table[i].event.type = update.type}
      Specific == {i \in OfType : /\ table[i].event.info # "empty"
                                  /\ table[i].event.info = update.key}
      General  == {i \in OfType : table[i].event.info = "empty"}
  IN  IF update.type = "UPDATE_UNKNOWN" THEN default
      ELSE IF Specific # {} THEN table[Min(Specific)].handle
      ELSE IF General # {}  THEN table[Max(General)].handle
      ELSE default

Find(t, update) ==
  /\ Returns(t, BestMatch(update))
  /\ UNCHANGED <<default, table>>

\* The call acts, with the arguments it was made with.
Act(t) ==
  CASE call[t].kind = "add"    -> Add(t, call[t].event, call[t].new)
    [] call[t].kind = "modify" -> Modify(t, call[t].event, call[t].new)
    [] call[t].kind = "remove" -> Remove(t, call[t].event)
    [] call[t].kind = "find"   -> Find(t, call[t].update)
    [] OTHER -> FALSE

Next == \E t \in Threads : Start(t) \/ Refuse(t) \/ Act(t)

Spec == Init /\ [][Next]_vars

=============================================================================
