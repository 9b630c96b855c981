---------------------------- MODULE Subscriptions ---------------------------
(***************************************************************************)
(* testbot/testbot.c: the subscribers of the polls, kept in                *)
(* suscripciones.txt, and the handlers of /join, /delete and /encuesta,    *)
(* run by the delivery of updates that Polling.tla implements: one at a    *)
(* time, in order, and after a crash again from where the server is.       *)
(*                                                                         *)
(* The file is taken to exist, to be opened and written without an error,  *)
(* and to be nobody else's.  main has registered its handlers.             *)
(***************************************************************************)
EXTENDS Unpack, Sequences

CONSTANTS
  Updates,     \* what users send, as JSON
  MaxUpdates,  \* bound: how many of them
  Initial,     \* the words of the file at first
  Strays,      \* the words that memory behind a text may hold
  MaxWords     \* bound: memory only spoils texts of so many words

VARIABLES
  \* --- the delivery of updates, as in Delivery.tla
  arrived, confirmed, handled, cursor, active,
  inbox,    \* inbox[n]: the JSON of update n
  \* --- the disk
  file,     \* suscripciones.txt: its words, and whether its last line is ended
  \* --- the handler that runs
  pc,       \* where it is
  cid,      \* its cid
  datos,    \* doDelete: the text it read, once cut
  line,     \* doEncuesta: how many words it has read
  asked,    \* doEncuesta: to whom it has sent the poll
  \* --- history
  reach,    \* the last update that was ever handed over
  lost      \* the words that crashes and memory have cost or brought

feed == <<arrived, confirmed, handled, cursor, active>>
handler == <<pc, cid, datos, line, asked>>
vars == <<feed, inbox, file, handler, reach, lost>>

Feed == INSTANCE Delivery

\* What the file holds of a word that is nobody's id.
Junk == 0
Ints == -IntMax..(IntMax - 1)
Ids  == Ints \ {Junk}

File(words, ended) == [words |-> words, ended |-> ended]
NoFile == File(<<>>, TRUE)
Listed(f) == {f.words[k] : k \in DOMAIN f.words}
Unique(words, ids) ==
  \A j, k \in DOMAIN words : words[j] = words[k] /\ words[j] \in ids => j = k

ASSUME BoundAssumption == MaxUpdates \in Nat /\ MaxWords \in Nat
ASSUME InitialAssumption == Initial \in Seq(Ids) /\ Unique(Initial, Ids)
ASSUME StraysAssumption == Strays \subseteq Ints

\* What the parser reads an author's id from is an integer.
ASSUME UpdatesAssumption ==
  \A update \in Updates :
    LET from == json_object_get(json_object_get(update, "message"), "from")
    IN  json_integer_value(json_object_get(from, "id")) \in Int

Pcs == {"idle", "join", "append", "delete", "read", "truncate", "write",
        "send", "polled", "fault", "return"}

TypeOK ==
  /\ arrived \in 0..MaxUpdates
  /\ confirmed \in 0..MaxUpdates
  /\ handled \subseteq 1..MaxUpdates
  /\ cursor \in 0..MaxUpdates
  /\ active \in BOOLEAN
  /\ inbox \in Seq(Updates)
  /\ file \in [words : Seq(Ints), ended : BOOLEAN]
  /\ pc \in Pcs
  /\ cid \in Ints
  /\ datos \in [words : Seq(Ints), ended : BOOLEAN]
  /\ line \in Nat
  /\ asked \in Seq(Ints)
  /\ reach \in 0..MaxUpdates
  /\ lost \subseteq Ints

Init ==
  /\ Feed!Init
  /\ inbox = <<>>
  /\ file = File(Initial, TRUE)
  /\ pc = "idle" /\ cid = 0 /\ datos = NoFile /\ line = 0 /\ asked = <<>>
  /\ reach = 0
  /\ lost = {}

-----------------------------------------------------------------------------
(* Updates come, are handed over and confirmed *)

Arrive ==
  /\ arrived < MaxUpdates
  /\ Feed!Arrive
  /\ \E update \in Updates : inbox' = Append(inbox, update)
  /\ UNCHANGED <<file, handler, reach, lost>>

\* Where the handler of a message begins.  doJoin and doDelete do nothing for
\* a message from nobody; a text that is no poll gives doEncuesta a NULL to
\* copy the question from.
Entry(message) ==
  CASE message.command = "join" /\ message.from.id # 0   -> "join"
    [] message.command = "delete" /\ message.from.id # 0 -> "delete"
    [] message.command = "encuesta" -> IF message.text.rest = "poll" THEN "send"
                                       ELSE "fault"
    [] OTHER -> "return"

Hand(update) ==
  IF update.type = "UPDATE_MESSAGE"
  THEN pc' = Entry(update.content) /\ cid' = update.content.from.id
  ELSE pc' = "return" /\ cid' = 0

Deliver ==
  /\ Feed!Deliver
  /\ Hand(unpack(inbox[cursor']))
  /\ reach' = Feed!Larger(reach, cursor')
  /\ UNCHANGED <<inbox, file, datos, line, asked, lost>>

\* The handler returns.
Complete ==
  /\ pc \in {"return", "polled"}
  /\ Feed!Complete
  /\ pc' = "idle" /\ cid' = 0 /\ datos' = NoFile /\ line' = 0 /\ asked' = <<>>
  /\ UNCHANGED <<inbox, file, reach, lost>>

Confirm ==
  /\ Feed!Confirm
  /\ UNCHANGED <<inbox, file, handler, reach, lost>>

\* The process dies, wherever it is, and is started again.
Die ==
  /\ Feed!Restart
  /\ pc' = "idle" /\ cid' = 0 /\ datos' = NoFile /\ line' = 0 /\ asked' = <<>>
  /\ lost' = lost \union (IF pc = "write" THEN Listed(datos) ELSE {})
  /\ UNCHANGED <<inbox, file, reach>>

-----------------------------------------------------------------------------
(* The handlers *)

Goto(from, to) ==
  /\ pc = from
  /\ pc' = to
  /\ UNCHANGED <<feed, inbox, reach>>

\* doJoin and doDelete: findSubscripcion.
FindForJoinMutant ==
  /\ Goto("join", "append")
  /\ UNCHANGED <<file, cid, datos, line, asked, lost>>

FindForJoin ==
  /\ Goto("join", IF cid \in Listed(file) THEN "return" ELSE "append")
  /\ UNCHANGED <<file, cid, datos, line, asked, lost>>

FindForDelete ==
  /\ Goto("delete", IF cid \in Listed(file) THEN "read" ELSE "return")
  /\ UNCHANGED <<file, cid, datos, line, asked, lost>>

\* fopen "a", fputs, fclose.  A last line that is not ended and the id become
\* one word.
AppendLine ==
  /\ Goto("append", "return")
  /\ IF file.ended
     THEN /\ file' = File(Append(file.words, cid), TRUE)
          /\ lost' = lost \ {cid}
     ELSE LET last == Len(file.words) IN
          /\ file' = File([file.words EXCEPT ![last] = Junk], TRUE)
          /\ lost' = lost \union {cid, file.words[last]}
  /\ UNCHANGED <<cid, datos, line, asked>>

\* read, the search and the strcpy over the line found.  The text read has no
\* terminator: a word of what follows it in memory (a freed buffer with older
\* lines, say) may come behind it, or take the place of a last word that was
\* not ended.  Source and target of the strcpy overlap: the words after the
\* line may be spoilt.
FirstLine(words, id, k) ==
  words[k] = id /\ \A j \in 1..(k - 1) : words[j] # id

CutMutant(words, k, spoilt) ==
  [j \in 1..(Len(words) - 1) |-> IF j <= k THEN words[j] ELSE words[j + 1]]

Cut(words, k, spoilt) ==
  [j \in 1..(Len(words) - 1) |->
     IF j < k THEN words[j] ELSE IF j + 1 \in spoilt THEN Junk ELSE words[j + 1]]

\* Line k is cut, and what else happens to the text.
CutLine(k) ==
  LET words == file.words
      ended == file.ended \/ k = Len(words)
      last  == IF ended THEN Len(words) ELSE Len(words) - 1
  IN \E spoilt \in SUBSET ((k + 1)..last) :
       LET text == Cut(words, k, spoilt)
           bad  == {words[j] : j \in spoilt}
       IN \/ /\ spoilt # {} => Len(words) <= MaxWords
             /\ datos' = File(text, ended)
             /\ lost' = lost \union bad
          \/ /\ Len(words) <= MaxWords
             /\ \E stray \in Strays, newline \in BOOLEAN :
                  IF ended
                  THEN /\ datos' = File(Append(text, stray), newline)
                       /\ lost' = lost \union bad \union {stray}
                  ELSE /\ datos' = File([text EXCEPT ![Len(text)] = stray], newline)
                       /\ lost' = lost \union bad \union {stray, words[Len(words)]}

ReadAndCut ==
  /\ Goto("read", "truncate")
  /\ \E k \in DOMAIN file.words : FirstLine(file.words, cid, k) /\ CutLine(k)
  /\ UNCHANGED <<file, cid, line, asked>>

\* fopen "w" empties the file; fputs and fclose fill it.
Truncate ==
  /\ Goto("truncate", "write")
  /\ file' = NoFile
  /\ UNCHANGED <<cid, datos, line, asked, lost>>

WriteBack ==
  /\ Goto("write", "return")
  /\ file' = datos
  /\ UNCHANGED <<cid, datos, line, asked, lost>>

\* doEncuesta: while (fscanf(...) != EOF) telebot_sendPoll(cid, ...)
SendPollMutant ==
  /\ line < Len(file.words)
  /\ Goto("send", "send")
  /\ line' = line + 2
  /\ asked' = Append(asked, file.words[line + 1])
  /\ UNCHANGED <<file, cid, datos, lost>>

SendPoll ==
  /\ line < Len(file.words)
  /\ Goto("send", "send")
  /\ line' = line + 1
  /\ asked' = Append(asked, file.words[line + 1])
  /\ UNCHANGED <<file, cid, datos, lost>>

EndOfFile ==
  /\ line >= Len(file.words)
  /\ Goto("send", "polled")
  /\ UNCHANGED <<file, cid, datos, line, asked, lost>>

-----------------------------------------------------------------------------
Handle ==
  \/ FindForJoin \/ AppendLine
  \/ FindForDelete \/ ReadAndCut \/ Truncate \/ WriteBack
  \/ SendPoll \/ EndOfFile

Next == Arrive \/ Deliver \/ Complete \/ Confirm \/ Die \/ Handle

Spec == Init /\ [][Next]_vars

-----------------------------------------------------------------------------
(* Properties *)

\* What a user said with message n of box, by the JSON: testbot knows users by
\* the int that is left of their id.
Message(box, n) == json_object_get(box[n], "message")
AuthorOf(message) ==
  LET from == json_object_get(message, "from") IN
  IF from = NULL THEN 0 ELSE IntField(from, "id")
Says(box, n, id, command) ==
  /\ AuthorOf(Message(box, n)) = id
  /\ CommandOf(json_object_get(Message(box, n), "text")) = command
Speaks(box, n, id) == Says(box, n, id, "join") \/ Says(box, n, id, "delete")

\* The last of messages 1..n that id said was join; or nothing, and id was in
\* the file at first.
Wants(box, id, n) ==
  \/ \E k \in 1..n : /\ Says(box, k, id, "join")
                     /\ \A j \in (k + 1)..n : ~Speaks(box, j, id)
  \/ /\ \A k \in 1..n : ~Speaks(box, k, id)
     /\ \E k \in DOMAIN Initial : Initial[k] = id

\* The updates that this life has done with, and those before them.
Done == IF active THEN cursor - 1 ELSE Feed!Larger(cursor, confirmed)

\* The ids that no crash between truncation and writing (testbot.c:409) and no
\* memory behind or under the text (testbot.c:366, 404) has touched.
Safe == Ids \ lost

\* Whoever joins twice, or once while the update is delivered twice because
\* the bot died, is in the file once (doJoin, testbot.c:303).
NoDuplicates == Unique(file.words, Safe)

\* The last word counts.  However often the bot dies and earlier updates are
\* handled once more, once it is where it was before the file has exactly
\* those users whose last word was /join (doJoin, doDelete).
LastWordCounts ==
  ~active /\ Done >= reach =>
    \A id \in Safe : id \in Listed(file) <=> Wants(inbox, id, Done)

\* A poll goes to each subscriber of the moment once, and to no one else
\* (doEncuesta, testbot.c:130).
PollsSubscribers ==
  pc = "polled" /\ Done + 1 >= reach =>
    /\ Unique(asked, Safe)
    /\ \A id \in Safe :
         (\E k \in DOMAIN asked : asked[k] = id) <=> Wants(inbox, id, Done)

=============================================================================
