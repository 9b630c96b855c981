---------------------------- MODULE MCNotifiers -----------------------------
(* Notifiers.tla for TLC: which events are registered and which updates    *)
(* arrive.                                                                 *)
EXTENDS Notifiers, TLC

\* Mutators are interchangeable.
Symmetry == Permutations(Mutators)

Event(type, info) == [type |-> type, info |-> info]
Update(type, key) == [type |-> type, key |-> key]

\* Messages, in general and with a command, the default and the empty event.
MessageEvents ==
  {Event("UPDATE_MESSAGE", "empty"), Event("UPDATE_MESSAGE", "/a"),
   Event("UPDATE_ANY", "empty"), Event("UPDATE_NONE", "empty")}

\* One command, and polls by their id.
CommandAndPoll ==
  {Event("UPDATE_MESSAGE", "/a"), Event("UPDATE_POLL", "7")}

\* Messages without a command and with that command.
MessageUpdates ==
  {Update("UPDATE_MESSAGE", "none"), Update("UPDATE_MESSAGE", "/a")}

\* A message and a poll: of another type than some of the registrations.
MixedUpdates == {Update("UPDATE_MESSAGE", "/a"), Update("UPDATE_POLL", "7")}

=============================================================================
