----------------------------- MODULE MCTestBot ------------------------------
(* TestBot.tla for TLC: what users send. *)
EXTENDS TestBot

Update(type, key) == [type |-> type, key |-> key]

\* A command, the two that register, a text without a command, a poll.
UserUpdates ==
  {Update("UPDATE_MESSAGE", "feliz"), Update("UPDATE_MESSAGE", "starteco"),
   Update("UPDATE_MESSAGE", "stopeco"), Update("UPDATE_MESSAGE", "none"),
   Update("UPDATE_POLL", "7")}

=============================================================================
