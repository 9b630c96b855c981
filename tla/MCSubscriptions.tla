--------------------------- MODULE MCSubscriptions --------------------------
(* Subscriptions.tla for TLC: who writes what. *)
EXTENDS Subscriptions

User(id) ==
  Object([id |-> Integer(id), is_bot |-> Boolean(FALSE), first_name |-> Text("x")])

Chat(id) ==
  Object([id |-> Integer(id), type |-> Text("group"), first_name |-> Text("x")])

Command(word, rest) ==
  Text([slash |-> TRUE, word |-> word, rest |-> rest])

From(id, chat, text) ==
  Object([message |-> Object([message_id |-> Integer(1), from |-> User(id),
                              date |-> Integer(7), chat |-> Chat(chat),
                              text |-> text])])

\* In a group; user 18's id has the int of user 2's when IntMax is 8.  A poll's
\* news, a message of nobody, an /encuesta without a poll.
Sent ==
  {From(1, 1, Command("join", "NULL")), From(1, 5, Command("delete", "NULL")),
   From(2, 5, Command("join", "NULL")), From(18, 18, Command("delete", "NULL")),
   From(1, 5, Command("encuesta", "poll")),
   From(1, 5, Command("encuesta", "text")),
   Object([message |-> Object([message_id |-> Integer(1), chat |-> Chat(5),
                               text |-> Command("join", "NULL")])]),
   Object([poll |-> Object([id |-> Text("7"), question |-> Text("?"),
                            options |-> Array(<<>>),
                            total_voter_count |-> Integer(0)])])}

\* The file holds somebody else already.
Present == <<3, 2>>

=============================================================================
