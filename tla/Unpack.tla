------------------------------- MODULE Unpack -------------------------------
(***************************************************************************)
(* What tbc_parser makes of one update of the server's answer              *)
(* (unpack_json_message and unpack_json_poll_update of tbc_polling.c).     *)
(*                                                                         *)
(* A JSON value is tagged with its kind, because jansson's accessors answer *)
(* for a value of any kind, and for none.  A text is what the code tells   *)
(* apart of it: whether it begins with '/', the word after that, the rest. *)
(***************************************************************************)
EXTENDS Integers

CONSTANT IntMax  \* ints are in -IntMax..IntMax-1

ASSUME IntMaxAssumption == IntMax \in Nat \ {0}

\* long long int to int: the low bits.
AsInt(n) == ((n + IntMax) % (2 * IntMax)) - IntMax

-----------------------------------------------------------------------------
(* jansson *)

NULL == [kind |-> "NULL"]
Integer(n) == [kind |-> "integer", int |-> n]
Text(s)    == [kind |-> "string", string |-> s]
Boolean(b) == [kind |-> IF b THEN "true" ELSE "false"]
Object(f)  == [kind |-> "object", fields |-> f]
Array(s)   == [kind |-> "array", elements |-> s]

json_object_get(json, key) ==
  IF json.kind = "object" /\ key \in DOMAIN json.fields
  THEN json.fields[key] ELSE NULL

json_integer_value(json) == IF json.kind = "integer" THEN json.int ELSE 0

json_boolean_value(json) == json.kind = "true"

\* Of a value that is no string: a NULL pointer.
json_string_value(json) == IF json.kind = "string" THEN json.string ELSE "NULL"

json_array(json) == IF json.kind = "array" THEN json.elements ELSE <<>>

-----------------------------------------------------------------------------
\* An optional string is copied, or left empty.
Optional(json) == IF json = NULL THEN "" ELSE json_string_value(json)

\* An int field.
IntFieldMutant(json, key) == json_integer_value(json_object_get(json, key))

IntField(json, key) == AsInt(json_integer_value(json_object_get(json, key)))

unpack_from(from) ==
  [id |-> IntField(from, "id"),
   is_bot |-> json_boolean_value(json_object_get(from, "is_bot")),
   first_name |-> json_string_value(json_object_get(from, "first_name")),
   last_name |-> Optional(json_object_get(from, "last_name")),
   language_code |-> Optional(json_object_get(from, "language_code"))]

\* Its other fields are not set.
NoUser == [id |-> 0]

\* The word after '/', which may be empty.
NoText == [slash |-> FALSE, word |-> "", rest |-> "NULL"]

TextOf(text) == IF text = NULL THEN NoText ELSE json_string_value(text)

CommandOf(text) ==
  IF TextOf(text).slash /\ TextOf(text).word # "" THEN TextOf(text).word
  ELSE "NULL"

\* date is read from from, and chat.last_name from chat's first_name: the
\* variable aux still stands there.
unpack_json_message(json) ==
  LET from == json_object_get(json, "from")
      chat == json_object_get(json, "chat")
      first_name == json_object_get(chat, "first_name")
      text == json_object_get(json, "text")
  IN [message_id |-> IntField(json, "message_id"),
      from |-> IF from = NULL THEN NoUser ELSE unpack_from(from),
      date |-> json_integer_value(from),
      chat |-> [id |-> IntField(chat, "id"),
                type |-> json_string_value(json_object_get(chat, "type")),
                first_name |-> Optional(first_name),
                last_name |-> Optional(json_object_get(first_name, "last_name"))],
      text |-> TextOf(text),
      command |-> CommandOf(text)]

\* The server's id of a poll is a string: poll_id is 0.
unpack_json_poll_update(json) ==
  LET options == json_array(json_object_get(json, "options")) IN
  [poll_id |-> json_integer_value(json_object_get(json, "id")),
   question |-> json_string_value(json_object_get(json, "question")),
   options |-> [k \in DOMAIN options |->
                  [text |-> json_string_value(json_object_get(options[k], "text")),
                   opcion_votos |-> IntField(options[k], "voter_count")]],
   total_votos |-> json_integer_value(json_object_get(json, "total_voter_count"))]

\* tbc_parser: what update points to for the handler.  The content of an
\* update of another kind is that of the one before.
unpack(json) ==
  LET message == json_object_get(json, "message")
      poll    == json_object_get(json, "poll")
  IN  IF message # NULL
      THEN [type |-> "UPDATE_MESSAGE", content |-> unpack_json_message(message)]
      ELSE IF poll # NULL
      THEN [type |-> "UPDATE_POLL", content |-> unpack_json_poll_update(poll)]
      ELSE [type |-> "UPDATE_UNKNOWN"]

=============================================================================
