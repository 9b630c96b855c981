------------------------ MODULE SubscriptionsProofs ------------------------
(***************************************************************************)
(* Proofs about Subscriptions.tla: whatever users send and however often   *)
(* the bot dies, the file lists nobody twice, and the last word of a user   *)
(* counts.                                                                 *)
(***************************************************************************)
EXTENDS Subscriptions, SequenceTheorems, TLAPS

-----------------------------------------------------------------------------
(* What the parser hands over *)

\* An int holds what is left of any integer.
LEMMA IntOfInteger ==
  ASSUME NEW n \in Int
  PROVE  AsInt(n) \in Ints
<1>1. (n + IntMax) % (2 * IntMax) \in 0..(2 * IntMax - 1)
  <2> DEFINE m == n + IntMax
             d == 2 * IntMax
  <2>1. m \in Int /\ d \in Int /\ d > 0
    BY IntMaxAssumption
  <2> HIDE DEF m, d
  <2>2. m % d \in 0..(d - 1)
    BY <2>1
  <2> QED
    BY <2>2 DEF m, d
<1> QED
  BY <1>1, IntMaxAssumption DEF AsInt, Ints

LEMMA ZeroIsInt == 0 \in Ints
BY IntMaxAssumption DEF Ints

\* The author of a message is an int.
LEMMA AuthorFacts ==
  ASSUME NEW update \in Updates
  PROVE  AuthorOf(json_object_get(update, "message")) \in Ints
<1> DEFINE from == json_object_get(json_object_get(update, "message"), "from")
<1>1. json_integer_value(json_object_get(from, "id")) \in Int
  BY UpdatesAssumption
<1>2. IntField(from, "id") \in Ints
  BY <1>1, IntOfInteger DEF IntField
<1> QED
  BY <1>2, ZeroIsInt DEF AuthorOf

\* The parser's author and command are those of the JSON; what is not a
\* message has no author.
LEMMA UnpackFacts ==
  ASSUME NEW update
  PROVE  LET message == json_object_get(update, "message") IN
         /\ unpack(update).type = "UPDATE_MESSAGE" =>
              /\ unpack(update).content.from.id = AuthorOf(message)
              /\ unpack(update).content.command =
                   CommandOf(json_object_get(message, "text"))
         /\ unpack(update).type # "UPDATE_MESSAGE" => AuthorOf(message) = 0
<1> DEFINE message == json_object_get(update, "message")
<1>1. CASE message = NULL
  <2>1. json_object_get(message, "from") = NULL
    BY <1>1 DEF json_object_get, NULL
  <2>2. AuthorOf(message) = 0
    BY <2>1 DEF AuthorOf
  <2>3. unpack(update).type # "UPDATE_MESSAGE"
    BY <1>1 DEF unpack
  <2> QED
    BY <2>2, <2>3
<1>2. CASE message # NULL
  <2> DEFINE content == unpack_json_message(message)
  <2>1. unpack(update) = [type |-> "UPDATE_MESSAGE", content |-> content]
    BY <1>2 DEF unpack
  <2>2. content.from.id = AuthorOf(message)
    BY DEF unpack_json_message, unpack_from, NoUser, AuthorOf
  <2>3. content.command = CommandOf(json_object_get(message, "text"))
    BY DEF unpack_json_message
  <2> HIDE DEF content
  <2> QED
    BY <2>1, <2>2, <2>3
<1> QED
  BY <1>1, <1>2

-----------------------------------------------------------------------------
(* Types *)

LEMMA FileFacts ==
  ASSUME NEW words \in Seq(Ints), NEW ended \in BOOLEAN
  PROVE  /\ File(words, ended) \in [words : Seq(Ints), ended : BOOLEAN]
         /\ File(words, ended).words = words
         /\ File(words, ended).ended = ended
BY DEF File

LEMMA NoFileFacts ==
  /\ NoFile \in [words : Seq(Ints), ended : BOOLEAN]
  /\ NoFile.words = <<>>
  /\ NoFile.ended
  /\ <<>> \in Seq(Ints)
<1>1. <<>> \in Seq(Ints)
  OBVIOUS
<1>2. TRUE \in BOOLEAN
  OBVIOUS
<1> QED
  BY <1>1, <1>2, FileFacts DEF NoFile

LEMMA CutType ==
  ASSUME NEW words \in Seq(Ints), NEW k \in DOMAIN words,
         NEW spoilt \in SUBSET DOMAIN words
  PROVE  /\ Cut(words, k, spoilt) \in Seq(Ints)
         /\ Len(Cut(words, k, spoilt)) = Len(words) - 1
<1> DEFINE n == Len(words) - 1
           text == Cut(words, k, spoilt)
<1>1. n \in Nat
  OBVIOUS
<1>2. text \in [1..n -> Ints]
  BY ZeroIsInt DEF Cut, Junk
<1>3. text \in Seq(Ints)
  BY <1>1, <1>2, SeqDef
<1>4. DOMAIN text = 1..n
  BY DEF Cut
<1>5. Len(text) = n
  BY <1>1, <1>3, <1>4
<1> QED
  BY <1>3, <1>5

\* inbox and arrived go together, and no text of no words lacks its last '\n'.
Shape ==
  /\ Len(inbox) = arrived
  /\ cursor <= arrived /\ confirmed <= arrived
  /\ active => confirmed < cursor
  /\ pc = "read" => cid \in Listed(file)
  /\ ~file.ended => Len(file.words) # 0
  /\ ~datos.ended => Len(datos.words) # 0

TypeInv == TypeOK /\ Shape

\* What becomes of the text when line k is cut and the lines spoilt are spoilt.
CutWith(k, spoilt) ==
  LET words == file.words
      ended == file.ended \/ k = Len(words)
      text  == Cut(words, k, spoilt)
      bad   == {words[j] : j \in spoilt}
  IN \/ datos' = File(text, ended) /\ lost' = lost \union bad
     \/ \E stray \in Strays, newline \in BOOLEAN :
          \/ /\ ended
             /\ datos' = File(Append(text, stray), newline)
             /\ lost' = lost \union bad \union {stray}
          \/ /\ ~ended
             /\ datos' = File([text EXCEPT ![Len(text)] = stray], newline)
             /\ lost' = lost \union bad \union {stray, words[Len(words)]}

LEMMA CutForms ==
  ASSUME TypeOK, NEW k \in DOMAIN file.words, CutLine(k)
  PROVE  \E spoilt \in SUBSET DOMAIN file.words :
           /\ CutWith(k, spoilt)
           /\ \A j \in spoilt : j > k
<1> DEFINE ended == file.ended \/ k = Len(file.words)
           last  == IF ended THEN Len(file.words) ELSE Len(file.words) - 1
<1>1. /\ last \in Nat /\ last <= Len(file.words)
      /\ k \in Nat /\ k >= 1
      /\ DOMAIN file.words = 1..Len(file.words)
  BY DEF TypeOK
<1>2. PICK spoilt \in SUBSET ((k + 1)..last) : CutWith(k, spoilt)
  BY DEF CutLine, CutWith
<1>3. \A j \in spoilt : j \in DOMAIN file.words /\ j > k
  BY <1>1
<1> QED
  BY <1>2, <1>3

LEMMA TypeStep ==
  ASSUME TypeInv, [Next]_vars
  PROVE  TypeInv'
<1> USE BoundAssumption, StraysAssumption DEF TypeInv, TypeOK, Shape, Pcs
<1>1. ASSUME UNCHANGED vars PROVE TypeInv'
  BY <1>1 DEF vars, feed, handler, Listed
<1>2. ASSUME Arrive PROVE TypeInv'
  BY <1>2 DEF Arrive, Feed!Arrive, handler, Listed
<1>3. ASSUME Deliver PROVE TypeInv'
  <2> DEFINE update == inbox[cursor']
             message == json_object_get(update, "message")
  <2>1. cursor' \in 1..arrived
    BY <1>3 DEF Deliver, Feed!Deliver, Feed!Larger
  <2>2. update \in Updates
    BY <2>1
  <2>3. AuthorOf(message) \in Ints
    BY <2>2, AuthorFacts
  <2>4. cid' \in Ints
    BY <1>3, <2>3, UnpackFacts, ZeroIsInt DEF Deliver, Hand
  <2>5. pc' \in Pcs \ {"read"}
    BY <1>3 DEF Deliver, Hand, Entry
  <2> QED
    BY <1>3, <2>1, <2>4, <2>5 DEF Deliver, Feed!Deliver, Feed!Larger
<1>4. ASSUME Complete PROVE TypeInv'
  <2>1. /\ datos' \in [words : Seq(Ints), ended : BOOLEAN]
        /\ datos'.ended
        /\ asked' \in Seq(Ints)
    BY <1>4, NoFileFacts DEF Complete
  <2>2. handled' \subseteq 1..MaxUpdates
    BY <1>4 DEF Complete, Feed!Complete
  <2> QED
    BY <1>4, <2>1, <2>2, ZeroIsInt DEF Complete, Feed!Complete
<1>5. ASSUME Confirm PROVE TypeInv'
  BY <1>5 DEF Confirm, Feed!Confirm, handler, Listed
<1>6. ASSUME Die PROVE TypeInv'
  <2>1. (IF pc = "write" THEN Listed(datos) ELSE {}) \subseteq Ints
    BY DEF Listed
  <2>2. /\ datos' \in [words : Seq(Ints), ended : BOOLEAN]
        /\ datos'.ended
        /\ asked' \in Seq(Ints)
    BY <1>6, NoFileFacts DEF Die
  <2>3. lost' \subseteq Ints
    BY <1>6, <2>1 DEF Die
  <2>4. UNCHANGED <<arrived, confirmed, handled, inbox, file, reach>>
    BY <1>6 DEF Die, Feed!Restart
  <2>5. pc' = "idle" /\ cid' = 0 /\ line' = 0 /\ cursor' = 0 /\ active' = FALSE
    BY <1>6 DEF Die, Feed!Restart
  <2>6. 0 \in 0..MaxUpdates
    OBVIOUS
  <2>7. TypeOK'
    BY <2>2, <2>3, <2>4, <2>5, <2>6, ZeroIsInt
  <2>8. Shape'
    BY <2>2, <2>4, <2>5
  <2> QED
    BY <2>7, <2>8
<1>7. ASSUME FindForJoin PROVE TypeInv'
  BY <1>7 DEF FindForJoin, Goto, feed
<1>8. ASSUME FindForDelete PROVE TypeInv'
  BY <1>8 DEF FindForDelete, Goto, feed, Listed
<1>9. ASSUME AppendLine PROVE TypeInv'
  <2>1. CASE file.ended
    <3>1. Append(file.words, cid) \in Seq(Ints)
      OBVIOUS
    <3> QED
      BY <1>9, <2>1, <3>1, FileFacts DEF AppendLine, Goto, feed
  <2>2. CASE ~file.ended
    <3> DEFINE last == Len(file.words)
    <3>1. last \in 1..Len(file.words)
      BY <2>2
    <3>2. [file.words EXCEPT ![last] = Junk] \in Seq(Ints)
      BY <3>1, ZeroIsInt, ExceptSeq DEF Junk
    <3>3. file.words[last] \in Ints
      BY <3>1
    <3> QED
      <4>1. file' = File([file.words EXCEPT ![last] = Junk], TRUE)
        BY <1>9, <2>2 DEF AppendLine
      <4>2. file' \in [words : Seq(Ints), ended : BOOLEAN] /\ file'.ended
        BY <3>2, <4>1, FileFacts
      <4>3. lost' \subseteq Ints
        BY <1>9, <2>2, <3>3 DEF AppendLine
      <4> QED
        BY <1>9, <4>2, <4>3 DEF AppendLine, Goto, feed
  <2> QED
    BY <2>1, <2>2
<1>10. ASSUME ReadAndCut PROVE TypeInv'
  <2> PICK k \in DOMAIN file.words : CutLine(k)
    BY <1>10 DEF ReadAndCut
  <2>1. ASSUME NEW spoilt \in SUBSET DOMAIN file.words
        PROVE  /\ Cut(file.words, k, spoilt) \in Seq(Ints)
               /\ Len(Cut(file.words, k, spoilt)) = Len(file.words) - 1
    BY <2>1, CutType
  <2>2. /\ datos' \in [words : Seq(Ints), ended : BOOLEAN]
        /\ ~datos'.ended => Len(datos'.words) # 0
        /\ lost' \subseteq Ints
    <3>1. PICK spoilt \in SUBSET DOMAIN file.words :
            CutWith(k, spoilt)
      BY CutForms
    <3> DEFINE text == Cut(file.words, k, spoilt)
               bad == {file.words[j] : j \in spoilt}
    <3>2. text \in Seq(Ints) /\ Len(text) = Len(file.words) - 1
      BY <2>1
    <3>3. bad \subseteq Ints /\ file.words[Len(file.words)] \in Ints
      OBVIOUS
    <3> HIDE DEF text, bad
    <3>4. CASE datos' = File(text, file.ended \/ k = Len(file.words))
                 /\ lost' = lost \union bad
      <4>1. (file.ended \/ k = Len(file.words)) \in BOOLEAN
        OBVIOUS
      <4>2. /\ datos'.words = text
            /\ datos'.ended = (file.ended \/ k = Len(file.words))
            /\ datos' \in [words : Seq(Ints), ended : BOOLEAN]
        BY <3>2, <3>4, <4>1, FileFacts
      <4>3. ~datos'.ended => Len(file.words) \in Nat /\ k \in 1..Len(file.words)
        OBVIOUS
      <4> QED
        BY <3>2, <3>3, <3>4, <4>2, <4>3
    <3>5. ASSUME NEW stray \in Strays, NEW newline \in BOOLEAN,
                 datos' = File(Append(text, stray), newline),
                 lost' = lost \union bad \union {stray}
          PROVE  <2>2!1 /\ <2>2!2 /\ <2>2!3
      BY <3>2, <3>3, <3>5 DEF File
    <3>6. ASSUME NEW stray \in Strays, NEW newline \in BOOLEAN,
                 ~(file.ended \/ k = Len(file.words)),
                 datos' = File([text EXCEPT ![Len(text)] = stray], newline),
                 lost' = lost \union bad \union {stray, file.words[Len(file.words)]}
          PROVE  <2>2!1 /\ <2>2!2 /\ <2>2!3
      <4>1. Len(text) # 0
        BY <3>2, <3>6
      <4>2. Len(text) \in 1..Len(text) /\ stray \in Ints
        <5>1. Len(text) \in Nat
          BY <3>2
        <5> QED
          BY <4>1, <5>1
      <4>3. [text EXCEPT ![Len(text)] = stray] \in Seq(Ints)
        BY <3>2, <4>1, <4>2, ExceptSeq
      <4>4. Len([text EXCEPT ![Len(text)] = stray]) = Len(text)
        BY <3>2, <4>1, <4>2, ExceptSeq
      <4> QED
        BY <3>3, <3>6, <4>1, <4>3, <4>4, FileFacts
    <3> QED
      BY <3>1, <3>4, <3>5, <3>6 DEF text, bad, CutWith
  <2> QED
    BY <1>10, <2>2 DEF ReadAndCut, Goto, feed
<1>11. ASSUME Truncate PROVE TypeInv'
  BY <1>11 DEF Truncate, Goto, feed, NoFile, File
<1>12. ASSUME WriteBack PROVE TypeInv'
  BY <1>12 DEF WriteBack, Goto, feed
<1>13. ASSUME SendPoll PROVE TypeInv'
  BY <1>13 DEF SendPoll, Goto, feed
<1>14. ASSUME EndOfFile PROVE TypeInv'
  BY <1>14 DEF EndOfFile, Goto, feed
<1> QED
  BY <1>1, <1>2, <1>3, <1>4, <1>5, <1>6, <1>7, <1>8, <1>9, <1>10, <1>11, <1>12,
     <1>13, <1>14 DEF Next, Handle

LEMMA TypeInit == Init => TypeInv
<1> SUFFICES ASSUME Init PROVE TypeInv
  OBVIOUS
<1>1. Initial \in Seq(Ints)
  BY InitialAssumption DEF Ids
<1>2. /\ file \in [words : Seq(Ints), ended : BOOLEAN]
      /\ file.ended
  BY <1>1, FileFacts DEF Init
<1>3. inbox \in Seq(Updates) /\ asked \in Seq(Ints) /\ Len(inbox) = 0
  BY DEF Init
<1> QED
  <2>1. datos \in [words : Seq(Ints), ended : BOOLEAN] /\ datos.ended
    BY NoFileFacts DEF Init
  <2>2. /\ arrived = 0 /\ confirmed = 0 /\ handled = {} /\ cursor = 0
        /\ active = FALSE /\ pc = "idle" /\ cid = 0 /\ line = 0 /\ reach = 0
        /\ lost = {}
    BY DEF Init, Feed!Init
  <2>3. 0 \in 0..MaxUpdates
    BY BoundAssumption
  <2>4. TypeOK
    BY <1>2, <1>3, <2>1, <2>2, <2>3, ZeroIsInt DEF TypeOK, Pcs
  <2>5. Shape
    BY <1>2, <1>3, <2>1, <2>2 DEF Shape
  <2> QED
    BY <2>4, <2>5 DEF TypeInv

\* The file holds words that are ints, whatever was sent and lost.
THEOREM TypeCorrect == Spec => []TypeOK
<1>1. TypeInv => TypeOK
  BY DEF TypeInv
<1> QED
  BY <1>1, TypeInit, TypeStep, PTL DEF Spec

-----------------------------------------------------------------------------
(* What doDelete makes of the text *)

\* Cutting the line of id leaves everybody else whose line is not spoilt, and
\* brings nobody twice.
LEMMA CutKeeps ==
  ASSUME NEW words \in Seq(Ints), NEW id \in Ids, NEW k \in DOMAIN words,
         words[k] = id,
         NEW spoilt \in SUBSET DOMAIN words, \A j \in spoilt : j > k,
         NEW ids \in SUBSET Ids, \A j \in spoilt : words[j] \notin ids,
         Unique(words, ids)
  PROVE  LET text == Cut(words, k, spoilt) IN
         /\ \A other \in ids \ {id} :
              (\E j \in DOMAIN text : text[j] = other)
                <=> (\E j \in DOMAIN words : words[j] = other)
         /\ Unique(text, ids)
         /\ id \in ids => \A j \in DOMAIN text : text[j] # id
<1> DEFINE n == Len(words)
           text == Cut(words, k, spoilt)
           From(j) == IF j < k THEN j ELSE j + 1
<1>1. n \in Nat /\ DOMAIN words = 1..n /\ k \in 1..n
  OBVIOUS
<1>2. DOMAIN text = 1..(n - 1)
  BY DEF Cut
<1>3. ASSUME NEW j \in 1..(n - 1), text[j] \in ids
      PROVE  From(j) \in (1..n) \ {k} /\ words[From(j)] = text[j]
  <2>1. text[j] # Junk
    BY <1>3 DEF Ids
  <2>2. text[j] = IF j < k THEN words[j]
                  ELSE IF j + 1 \in spoilt THEN Junk ELSE words[j + 1]
    BY DEF Cut
  <2> QED
    BY <1>1, <2>1, <2>2
<1>4. ASSUME NEW j \in (1..n) \ {k}, words[j] \in ids
      PROVE  \E i \in 1..(n - 1) : text[i] = words[j]
  <2> DEFINE i == IF j < k THEN j ELSE j - 1
  <2>1. i \in 1..(n - 1)
    BY <1>1
  <2>2. text[i] = IF i < k THEN words[i]
                  ELSE IF i + 1 \in spoilt THEN Junk ELSE words[i + 1]
    BY <2>1 DEF Cut
  <2>3. j \notin spoilt
    BY <1>4
  <2>4. text[i] = words[j]
    BY <1>1, <2>2, <2>3
  <2> QED
    BY <2>1, <2>4
<1> HIDE DEF text
<1>5. ASSUME NEW other \in ids \ {id}
      PROVE  (\E j \in DOMAIN text : text[j] = other)
               <=> (\E j \in DOMAIN words : words[j] = other)
  <2>1. ASSUME NEW j \in DOMAIN text, text[j] = other
        PROVE  \E i \in DOMAIN words : words[i] = other
    BY <1>1, <1>2, <1>3, <2>1
  <2>2. ASSUME NEW j \in DOMAIN words, words[j] = other
        PROVE  \E i \in DOMAIN text : text[i] = other
    BY <1>1, <1>2, <1>4, <2>2
  <2> QED
    BY <2>1, <2>2
<1>6. Unique(text, ids)
  <2> SUFFICES ASSUME NEW i \in DOMAIN text, NEW j \in DOMAIN text,
                      text[i] = text[j], text[i] \in ids
               PROVE  i = j
    BY DEF Unique
  <2>1. /\ From(i) \in 1..n /\ words[From(i)] = text[i]
        /\ From(j) \in 1..n /\ words[From(j)] = text[j]
    BY <1>2, <1>3
  <2>2. From(i) = From(j)
    <3> HIDE DEF From
    <3> QED
      BY <1>1, <2>1 DEF Unique
  <2> QED
    BY <1>1, <1>2, <2>2
<1>7. ASSUME id \in ids, NEW j \in DOMAIN text PROVE text[j] # id
  <2> SUFFICES ASSUME text[j] = id PROVE FALSE
    OBVIOUS
  <2>1. From(j) \in (1..n) \ {k} /\ words[From(j)] = id
    BY <1>2, <1>3, <1>7
  <2>2. From(j) = k
    <3> HIDE DEF From
    <3> QED
      BY <1>1, <1>7, <2>1 DEF Unique
  <2> QED
    BY <2>1, <2>2
<1> QED
  BY <1>5, <1>6, <1>7 DEF text

\* A word behind the text that is not one of ids does not disturb ids.
LEMMA AppendKeeps ==
  ASSUME NEW words \in Seq(Ints), NEW stray \in Ints, NEW ids \in SUBSET Ids,
         stray \notin ids, Unique(words, ids)
  PROVE  LET text == Append(words, stray) IN
         /\ \A id \in ids : (\E j \in DOMAIN text : text[j] = id)
                              <=> (\E j \in DOMAIN words : words[j] = id)
         /\ Unique(text, ids)
<1> DEFINE n == Len(words)
           text == Append(words, stray)
<1>1. /\ n \in Nat /\ DOMAIN words = 1..n /\ DOMAIN text = 1..(n + 1)
      /\ \A j \in 1..n : text[j] = words[j]
      /\ text[n + 1] = stray
  OBVIOUS
<1> HIDE DEF text, n
<1>2. \A j \in 1..(n + 1) : j \in 1..n \/ j = n + 1
  BY <1>1
<1>3. \A j \in 1..n : j \in 1..(n + 1)
  BY <1>1
<1>4. \A id \in ids : (\E j \in DOMAIN text : text[j] = id)
                        <=> (\E j \in DOMAIN words : words[j] = id)
  BY <1>1, <1>2, <1>3
<1>5. Unique(text, ids)
  BY <1>1, <1>2, <1>3 DEF Unique
<1> QED
  BY <1>4, <1>5 DEF text

\* Nor does one in the place of another that is not one of ids.
LEMMA ExceptKeeps ==
  ASSUME NEW words \in Seq(Ints), NEW stray \in Ints, NEW ids \in SUBSET Ids,
         NEW k \in 1..Len(words), stray \notin ids, words[k] \notin ids,
         Unique(words, ids)
  PROVE  LET text == [words EXCEPT ![k] = stray] IN
         /\ \A id \in ids : (\E j \in DOMAIN text : text[j] = id)
                              <=> (\E j \in DOMAIN words : words[j] = id)
         /\ Unique(text, ids)
<1> DEFINE text == [words EXCEPT ![k] = stray]
<1>1. /\ DOMAIN text = DOMAIN words
      /\ \A j \in DOMAIN words : text[j] = IF j = k THEN stray ELSE words[j]
  OBVIOUS
<1> HIDE DEF text
<1>2. \A id \in ids : (\E j \in DOMAIN text : text[j] = id)
                        <=> (\E j \in DOMAIN words : words[j] = id)
  BY <1>1
<1>3. Unique(text, ids)
  BY <1>1 DEF Unique
<1> QED
  BY <1>2, <1>3 DEF text

LEMMA CutLineKeeps ==
  ASSUME TypeInv, TypeInv', cid \in Ids, NEW k \in DOMAIN file.words,
         file.words[k] = cid, CutLine(k), Unique(file.words, Safe)
  PROVE  /\ lost \subseteq lost'
         /\ Unique(datos'.words, Safe')
         /\ \A id \in Safe' \ {cid} : id \in Listed(datos)' <=> id \in Listed(file)
         /\ cid \in Safe' => cid \notin Listed(datos)'
<1> PICK spoilt \in SUBSET DOMAIN file.words :
      CutWith(k, spoilt) /\ \A j \in spoilt : j > k
  BY CutForms DEF TypeInv
<1> DEFINE words == file.words
           ended == file.ended \/ k = Len(words)
           text  == Cut(words, k, spoilt)
           bad   == {words[j] : j \in spoilt}
           Good(w) == /\ \A id \in Safe' \ {cid} :
                           (\E j \in DOMAIN w : w[j] = id)
                             <=> (\E j \in DOMAIN words : words[j] = id)
                      /\ Unique(w, Safe')
                      /\ cid \in Safe' => \A j \in DOMAIN w : w[j] # cid
<1>1. words \in Seq(Ints)
  BY DEF TypeInv, TypeOK
<1>2. /\ lost \subseteq lost' /\ bad \subseteq lost'
      /\ \/ datos' = File(text, ended)
         \/ \E stray \in Strays, newline \in BOOLEAN :
              /\ stray \in lost'
              /\ \/ datos' = File(Append(text, stray), newline)
                 \/ /\ ~ended /\ words[Len(words)] \in lost'
                    /\ datos' = File([text EXCEPT ![Len(text)] = stray], newline)
  BY DEF CutWith
<1>3. Safe' \in SUBSET Ids /\ Safe' \subseteq Safe
  BY <1>2 DEF Safe
<1>4. Unique(words, Safe')
  BY <1>3 DEF Unique
<1>5. \A j \in spoilt : words[j] \notin Safe'
  BY <1>2 DEF Safe
<1>6. Good(text)
  BY <1>1, <1>3, <1>4, <1>5, CutKeeps
<1>7. text \in Seq(Ints) /\ Len(text) = Len(words) - 1
  BY <1>1, CutType
<1>8. Good(datos'.words)
  <2>1. CASE datos' = File(text, ended)
    BY <1>6, <2>1 DEF File
  <2>2. ASSUME NEW stray \in Strays, NEW newline \in BOOLEAN, stray \in lost',
               datos' = File(Append(text, stray), newline)
        PROVE  Good(datos'.words)
    <3>1. stray \in Ints /\ stray \notin Safe'
      BY <2>2, StraysAssumption DEF Safe
    <3>2. Unique(text, Safe')
      BY <1>6
    <3> HIDE DEF text
    <3>3. LET new == Append(text, stray) IN
          /\ \A id \in Safe' : (\E j \in DOMAIN new : new[j] = id)
                                 <=> (\E j \in DOMAIN text : text[j] = id)
          /\ Unique(new, Safe')
      BY <1>3, <1>7, <3>1, <3>2, AppendKeeps
    <3>4. datos'.words = Append(text, stray)
      BY <2>2 DEF File
    <3> QED
      BY <1>6, <3>3, <3>4
  <2>3. ASSUME NEW stray \in Strays, NEW newline \in BOOLEAN, stray \in lost',
               ~ended, words[Len(words)] \in lost',
               datos' = File([text EXCEPT ![Len(text)] = stray], newline)
        PROVE  Good(datos'.words)
    <3>1. stray \in Ints /\ stray \notin Safe'
      BY <2>3, StraysAssumption DEF Safe
    <3>2. Unique(text, Safe')
      BY <1>6
    <3>3. Len(text) \in 1..Len(text)
      BY <1>1, <1>7, <2>3
    <3>4. text[Len(text)] \notin Safe'
      <4>1. Len(text) \in 1..(Len(words) - 1) /\ Len(text) >= k
        BY <1>1, <1>7, <2>3
      <4>2. text[Len(text)] = IF Len(words) \in spoilt THEN Junk
                              ELSE words[Len(words)]
        BY <1>1, <1>7, <4>1 DEF Cut
      <4> QED
        BY <2>3, <4>2 DEF Safe, Ids
    <3> HIDE DEF text
    <3>5. LET new == [text EXCEPT ![Len(text)] = stray] IN
          /\ \A id \in Safe' : (\E j \in DOMAIN new : new[j] = id)
                                 <=> (\E j \in DOMAIN text : text[j] = id)
          /\ Unique(new, Safe')
      BY <1>3, <1>7, <3>1, <3>2, <3>3, <3>4, ExceptKeeps
    <3>6. datos'.words = [text EXCEPT ![Len(text)] = stray]
      BY <2>3 DEF File
    <3> QED
      BY <1>6, <3>5, <3>6
  <2> QED
    BY <1>2, <2>1, <2>2, <2>3
<1> QED
  BY <1>2, <1>8 DEF Listed

-----------------------------------------------------------------------------
(* What users have said *)

Silent(box, id, from, to) == \A j \in (from + 1)..to : ~Speaks(box, j, id)

\* New updates do not change what was said.
LEMMA OldSays ==
  ASSUME NEW box \in Seq(Updates), NEW update \in Updates, NEW k \in 1..Len(box),
         NEW id, NEW command
  PROVE  Says(Append(box, update), k, id, command) <=> Says(box, k, id, command)
<1>1. Append(box, update)[k] = box[k]
  OBVIOUS
<1> QED
  BY <1>1 DEF Says, Message

LEMMA OldWords ==
  ASSUME NEW box \in Seq(Updates), NEW update \in Updates, NEW id,
         NEW n \in 0..Len(box)
  PROVE  /\ Wants(Append(box, update), id, n) <=> Wants(box, id, n)
         /\ \A from \in Nat, to \in 0..Len(box) :
              Silent(Append(box, update), id, from, to) <=> Silent(box, id, from, to)
<1> DEFINE new == Append(box, update)
<1>2. \A k \in 1..Len(box) :
        /\ Says(new, k, id, "join") <=> Says(box, k, id, "join")
        /\ Says(new, k, id, "delete") <=> Says(box, k, id, "delete")
  BY OldSays
<1> HIDE DEF new
<1>3. \A k \in 1..Len(box) : Speaks(new, k, id) <=> Speaks(box, k, id)
  BY <1>2 DEF Speaks
<1>4. \A k \in 1..n : k \in 1..Len(box) /\ \A j \in (k + 1)..n : j \in 1..Len(box)
  OBVIOUS
<1>5. Wants(new, id, n) <=> Wants(box, id, n)
  BY <1>2, <1>3, <1>4 DEF Wants
<1>6. \A from \in Nat, to \in 0..Len(box) :
        \A j \in (from + 1)..to : j \in 1..Len(box)
  OBVIOUS
<1>7. \A from \in Nat, to \in 0..Len(box) :
        Silent(new, id, from, to) <=> Silent(box, id, from, to)
  BY <1>3, <1>6 DEF Silent
<1> QED
  BY <1>5, <1>7 DEF new

\* Who says nothing wants what they wanted before.
LEMMA SilentWants ==
  ASSUME NEW box, NEW id, NEW from \in Nat, NEW to \in Nat, from <= to,
         Silent(box, id, from, to)
  PROVE  Wants(box, id, from) <=> Wants(box, id, to)
<1>1. \A k \in 1..to : k \in 1..from \/ (k \in (from + 1)..to /\ ~Speaks(box, k, id))
  BY DEF Silent
<1>2. \A k \in 1..from : k \in 1..to
  OBVIOUS
<1>3. ASSUME NEW k \in 1..from
      PROVE  (\A j \in (k + 1)..from : ~Speaks(box, j, id))
               <=> (\A j \in (k + 1)..to : ~Speaks(box, j, id))
  <2>1. \A j \in (k + 1)..to :
          j \in (k + 1)..from \/ (j \in (from + 1)..to /\ ~Speaks(box, j, id))
    BY DEF Silent
  <2>2. \A j \in (k + 1)..from : j \in (k + 1)..to
    OBVIOUS
  <2> QED
    BY <2>1, <2>2
<1>4. \A k : Says(box, k, id, "join") => Speaks(box, k, id)
  BY DEF Speaks
<1>5. (\E k \in 1..from : /\ Says(box, k, id, "join")
                          /\ \A j \in (k + 1)..from : ~Speaks(box, j, id))
      <=> (\E k \in 1..to : /\ Says(box, k, id, "join")
                            /\ \A j \in (k + 1)..to : ~Speaks(box, j, id))
  BY <1>1, <1>2, <1>3, <1>4
<1>6. (\A k \in 1..from : ~Speaks(box, k, id))
        <=> (\A k \in 1..to : ~Speaks(box, k, id))
  BY <1>1, <1>2
<1> QED
  BY <1>5, <1>6 DEF Wants

\* Who spoke last wants what they said.
LEMMA SpeakerWants ==
  ASSUME NEW box, NEW id, NEW n \in Nat \ {0}, Speaks(box, n, id)
  PROVE  Wants(box, id, n) <=> Says(box, n, id, "join")
<1>1. n \in 1..n /\ \A j \in (n + 1)..n : FALSE
  OBVIOUS
<1>2. Says(box, n, id, "join") => Wants(box, id, n)
  BY <1>1 DEF Wants
<1>3. ASSUME NEW k \in 1..n, Says(box, k, id, "join"),
             \A j \in (k + 1)..n : ~Speaks(box, j, id)
      PROVE  Says(box, n, id, "join")
  <2>1. n \notin (k + 1)..n
    BY <1>3
  <2>2. k = n
    BY <2>1
  <2> QED
    BY <1>3, <2>2
<1> QED
  BY <1>1, <1>2, <1>3 DEF Wants

-----------------------------------------------------------------------------
(* The invariant *)

\* The handler that runs is that of the update the cursor is at.
Place ==
  /\ pc = "idle" <=> ~active
  /\ cursor <= reach /\ confirmed <= reach /\ reach <= arrived
  /\ pc \in {"join", "append"} =>
       cid \in Ids /\ Says(inbox, cursor, cid, "join")
  /\ pc \in {"delete", "read", "truncate", "write"} =>
       cid \in Ids /\ Says(inbox, cursor, cid, "delete")
  /\ pc \in {"send", "polled", "fault"} =>
       \A id \in Ids : ~Speaks(inbox, cursor, id)
  /\ pc = "append" => cid \notin Listed(file)

\* The text that doDelete has cut is the file without its author.
CutOut ==
  /\ Unique(file.words, Safe)
  /\ pc \in {"truncate", "write"} =>
       /\ Unique(datos.words, Safe)
       /\ cid \in Safe => cid \notin Listed(datos)
  /\ pc = "truncate" =>
       \A id \in Safe \ {cid} : id \in Listed(datos) <=> id \in Listed(file)

\* What the disk holds, or will when doDelete has written.
Kept == IF pc = "write" THEN datos ELSE file

\* Of the users whom no update concerns that is still to be handled again, it
\* has those it should have.
Subscribed ==
  \A id \in Safe :
    Silent(inbox, id, Done, reach) =>
      (id \in Listed(Kept) <=> Wants(inbox, id, Done))

\* Between fopen "w" and fputs nothing is in the file.
Emptied == pc = "write" => file = NoFile

\* A handler that returns has done what its user said.
Effect ==
  pc = "return" =>
    \A id \in Safe : Speaks(inbox, cursor, id) =>
      (id \in Listed(file) <=> Says(inbox, cursor, id, "join"))

Inv == TypeInv /\ Place /\ CutOut /\ Emptied /\ Subscribed /\ Effect

\* One author, one command.
LEMMA OneWord ==
  ASSUME NEW box, NEW n, NEW id, NEW other, NEW a, NEW b,
         Says(box, n, id, a), Says(box, n, other, b)
  PROVE  id = other /\ a = b
BY DEF Says

LEMMA DoneFacts ==
  ASSUME TypeInv, Place
  PROVE  /\ Done \in 0..arrived
         /\ active => Done = cursor - 1 /\ cursor \in 1..arrived
         /\ confirmed <= Done
         /\ Done <= reach
         /\ ~active => Done = Feed!Larger(cursor, confirmed)
BY DEF TypeInv, TypeOK, Shape, Place, Done, Feed!Larger

LEMMA NotSilent ==
  ASSUME TypeInv, Place, active, NEW id, Speaks(inbox, cursor, id)
  PROVE  ~Silent(inbox, id, Done, reach)
<1>1. cursor \in (Done + 1)..reach
  BY DoneFacts DEF TypeInv, TypeOK, Place
<1> QED
  BY <1>1 DEF Silent

\* Where the handler of an update begins.
LEMMA HandFacts ==
  ASSUME TypeInv, Deliver
  PROVE  /\ cursor' \in 1..arrived
         /\ pc' \in {"join", "delete", "send", "fault", "return"}
         /\ pc' = "join" => cid' # 0 /\ Says(inbox, cursor', cid', "join")
         /\ pc' = "delete" => cid' # 0 /\ Says(inbox, cursor', cid', "delete")
         /\ pc' \in {"send", "fault", "return"} =>
              \A id \in Ids : ~Speaks(inbox, cursor', id)
<1> DEFINE update == inbox[cursor']
           message == json_object_get(update, "message")
           said == CommandOf(json_object_get(message, "text"))
           content == unpack(update).content
<1>1. cursor' \in 1..arrived
  BY DEF Deliver, Feed!Deliver, Feed!Larger, TypeInv, TypeOK
<1>2. \A id, command : Says(inbox, cursor', id, command)
                         <=> AuthorOf(message) = id /\ said = command
  BY DEF Says, Message
<1>3. CASE unpack(update).type = "UPDATE_MESSAGE"
  <2>1. content.from.id = AuthorOf(message) /\ content.command = said
    BY <1>3, UnpackFacts
  <2>2. pc' = Entry(content) /\ cid' = content.from.id
    BY <1>3 DEF Deliver, Hand
  <2> HIDE DEF content, said, message
  <2>3. CASE said = "join" /\ cid' # 0
    <3>1. pc' = "join"
      BY <2>1, <2>2, <2>3 DEF Entry
    <3> QED
      BY <1>1, <1>2, <2>1, <2>2, <2>3, <3>1
  <2>4. CASE said = "delete" /\ cid' # 0
    <3>1. pc' = "delete"
      BY <2>1, <2>2, <2>4 DEF Entry
    <3> QED
      BY <1>1, <1>2, <2>1, <2>2, <2>4, <3>1
  <2>5. CASE said \notin {"join", "delete"} \/ cid' = 0
    <3>1. pc' \in {"send", "fault", "return"}
      BY <2>1, <2>2, <2>5 DEF Entry
    <3>2. \A id \in Ids : ~Speaks(inbox, cursor', id)
      BY <1>2, <2>1, <2>2, <2>5 DEF Speaks, Ids, Junk
    <3> QED
      BY <1>1, <3>1, <3>2
  <2> QED
    BY <2>3, <2>4, <2>5
<1>4. CASE unpack(update).type # "UPDATE_MESSAGE"
  <2>1. AuthorOf(message) = 0 /\ pc' = "return"
    BY <1>4, UnpackFacts DEF Deliver, Hand
  <2>2. \A id \in Ids : ~Speaks(inbox, cursor', id)
    BY <1>2, <2>1 DEF Speaks, Ids, Junk
  <2> QED
    BY <1>1, <2>1, <2>2
<1> QED
  BY <1>3, <1>4

LEMMA PlaceStep ==
  ASSUME Inv, TypeInv', [Next]_vars
  PROVE  Place'
<1> USE DEF Inv, TypeInv, TypeOK, Shape, Place
<1>1. ASSUME UNCHANGED vars PROVE Place'
  BY <1>1 DEF vars, feed, handler, Listed
<1>2. ASSUME Arrive PROVE Place'
  <2> PICK update \in Updates : inbox' = Append(inbox, update)
    BY <1>2 DEF Arrive
  <2>1. active => cursor \in 1..Len(inbox)
    OBVIOUS
  <2>2. UNCHANGED <<confirmed, cursor, active, pc, cid, file, reach>>
          /\ arrived' = arrived + 1
    BY <1>2 DEF Arrive, Feed!Arrive, handler
  <2>3. inbox \in Seq(Updates) /\ 0 \in 0..Len(inbox)
    OBVIOUS
  <2>4. ASSUME active, NEW id, NEW command \in {"join", "delete"}
        PROVE  Says(inbox, cursor, id, command)' <=> Says(inbox, cursor, id, command)
    <3>1. Says(Append(inbox, update), cursor, id, command)
            <=> Says(inbox, cursor, id, command)
      BY <2>1, <2>3, <2>4, OldSays
    <3> QED
      BY <2>2, <3>1
  <2>5. pc' # "idle" => active
    BY <2>2
  <2>6. pc \in {"join", "append"} => cid \in Ids /\ Says(inbox, cursor, cid, "join")'
    BY <2>2, <2>4, <2>5
  <2>7. pc \in {"delete", "read", "truncate", "write"} =>
          cid \in Ids /\ Says(inbox, cursor, cid, "delete")'
    BY <2>2, <2>4, <2>5
  <2>8. pc \in {"send", "polled", "fault"} =>
          \A id \in Ids : ~Speaks(inbox, cursor, id)'
    BY <2>4, <2>5 DEF Speaks
  <2>9. Listed(file)' = Listed(file)
    BY <2>2 DEF Listed
  <2> QED
    BY <2>2, <2>6, <2>7, <2>8, <2>9
<1>3. ASSUME Deliver PROVE Place'
  <2>1. /\ active' /\ reach' = Feed!Larger(reach, cursor')
        /\ UNCHANGED <<arrived, confirmed, inbox>>
    BY <1>3 DEF Deliver, Feed!Deliver
  <2>2. cursor' <= reach' /\ confirmed' <= reach' /\ reach' <= arrived'
    BY <1>3, <2>1, HandFacts DEF Feed!Larger
  <2>3. pc' \in {"join", "delete"} => cid' \in Ids
    BY <1>3, HandFacts DEF Ids, Junk
  <2> QED
    BY <1>3, <2>1, <2>2, <2>3, HandFacts
<1>4. ASSUME Complete PROVE Place'
  BY <1>4 DEF Complete, Feed!Complete
<1>5. ASSUME Confirm PROVE Place'
  BY <1>5 DEF Confirm, Feed!Confirm, handler, Listed
<1>6. ASSUME Die PROVE Place'
  BY <1>6 DEF Die, Feed!Restart
<1>7. ASSUME FindForJoin \/ FindForDelete PROVE Place'
  BY <1>7 DEF FindForJoin, FindForDelete, Goto, feed, Listed
<1>8. ASSUME AppendLine \/ ReadAndCut \/ Truncate \/ WriteBack PROVE Place'
  BY <1>8 DEF AppendLine, ReadAndCut, Truncate, WriteBack, Goto, feed
<1>9. ASSUME SendPoll \/ EndOfFile PROVE Place'
  BY <1>9 DEF SendPoll, EndOfFile, Goto, feed
<1> QED
  BY <1>1, <1>2, <1>3, <1>4, <1>5, <1>6, <1>7, <1>8, <1>9 DEF Next, Handle

LEMMA CutOutStep ==
  ASSUME Inv, TypeInv', [Next]_vars
  PROVE  CutOut'
<1> USE DEF Inv, CutOut
<1>1. ASSUME UNCHANGED <<file, lost>>, pc' \notin {"truncate", "write"}
      PROVE  CutOut'
  BY <1>1 DEF Safe
<1>2. ASSUME UNCHANGED <<file, datos, lost, pc, cid>> PROVE CutOut'
  BY <1>2 DEF Safe, Listed
<1>3. ASSUME Deliver PROVE CutOut'
  BY <1>1, <1>3, HandFacts DEF Deliver
<1>4. ASSUME Die PROVE CutOut'
  BY <1>4 DEF Die, Safe, Unique
<1>5. ASSUME AppendLine PROVE CutOut'
  <2> DEFINE words == file.words
  <2>1. words \in Seq(Ints) /\ cid \in Ints
    BY DEF TypeInv, TypeOK
  <2>2. pc' = "return" /\ \A k \in DOMAIN words : words[k] # cid
    BY <1>5 DEF AppendLine, Goto, Place, Listed
  <2>3. CASE file.ended
    <3>1. file'.words = Append(words, cid) /\ lost' = lost \ {cid}
      BY <1>5, <2>3 DEF AppendLine, File
    <3>2. DOMAIN words = 1..Len(words) /\ DOMAIN file'.words = 1..(Len(words) + 1)
      BY <2>1, <3>1
    <3>3. \A j \in 1..(Len(words) + 1) :
            \/ j \in DOMAIN words /\ file'.words[j] = words[j]
            \/ j = Len(words) + 1 /\ file'.words[j] = cid
      BY <2>1, <3>1, <3>2
    <3>4. \A id \in Safe' : id = cid \/ id \in Safe
      BY <3>1 DEF Safe
    <3>5. Unique(file'.words, Safe')
      BY <2>2, <3>2, <3>3, <3>4 DEF Unique
    <3> QED
      BY <2>2, <3>5
  <2>4. CASE ~file.ended
    <3> DEFINE last == Len(words)
    <3>1. /\ file'.words = [words EXCEPT ![last] = Junk]
          /\ lost' = lost \union {cid, words[last]}
      BY <1>5, <2>4 DEF AppendLine, File
    <3>2. last \in 1..Len(words)
      BY <2>1, <2>4 DEF TypeInv, Shape
    <3>3. Safe' \in SUBSET Ids /\ Safe' \subseteq Safe
      BY <3>1 DEF Safe
    <3>4. Junk \in Ints /\ Junk \notin Safe' /\ words[last] \notin Safe'
      BY <3>1, ZeroIsInt DEF Safe, Ids, Junk
    <3>5. Unique(words, Safe')
      BY <3>3 DEF Unique
    <3>6. Unique([words EXCEPT ![last] = Junk], Safe')
      BY <2>1, <3>2, <3>3, <3>4, <3>5, ExceptKeeps
    <3> QED
      BY <2>2, <3>1, <3>6
  <2> QED
    BY <2>3, <2>4
<1>6. ASSUME ReadAndCut PROVE CutOut'
  <2> PICK k \in DOMAIN file.words : FirstLine(file.words, cid, k) /\ CutLine(k)
    BY <1>6 DEF ReadAndCut
  <2>1. cid \in Ids /\ file.words[k] = cid
    BY <1>6 DEF ReadAndCut, Goto, Place, FirstLine
  <2>2. /\ lost \subseteq lost'
        /\ Unique(datos'.words, Safe')
        /\ \A id \in Safe' \ {cid} : id \in Listed(datos)' <=> id \in Listed(file)
        /\ cid \in Safe' => cid \notin Listed(datos)'
    BY <2>1, CutLineKeeps
  <2>3. UNCHANGED <<file, cid>> /\ pc' = "truncate"
    BY <1>6 DEF ReadAndCut, Goto
  <2>4. Unique(file.words, Safe')
    BY <2>2 DEF Unique, Safe
  <2> QED
    BY <2>2, <2>3, <2>4 DEF Listed
<1>7. ASSUME Truncate PROVE CutOut'
  <2>1. UNCHANGED <<datos, cid, lost>> /\ pc' = "write" /\ file' = NoFile
    BY <1>7 DEF Truncate, Goto
  <2>2. Unique(file'.words, Safe')
    BY <2>1, NoFileFacts DEF Unique
  <2> QED
    BY <1>7, <2>1, <2>2 DEF Truncate, Goto, Safe, Listed
<1>8. ASSUME WriteBack PROVE CutOut'
  BY <1>8 DEF WriteBack, Goto, Safe
<1>9. ASSUME Complete PROVE CutOut'
  BY <1>1, <1>9 DEF Complete
<1>10. ASSUME UNCHANGED vars \/ Arrive \/ Confirm PROVE CutOut'
  BY <1>2, <1>10 DEF vars, Arrive, Confirm, handler
<1>11. ASSUME FindForJoin \/ FindForDelete \/ SendPoll \/ EndOfFile PROVE CutOut'
  BY <1>1, <1>11 DEF FindForJoin, FindForDelete, SendPoll, EndOfFile, Goto
<1> QED
  BY <1>3, <1>4, <1>5, <1>6, <1>7, <1>8, <1>9, <1>10, <1>11 DEF Next, Handle

\* What becomes of the others when a line is appended.
LEMMA AppendLineKeeps ==
  ASSUME TypeInv, AppendLine, NEW id \in Safe', id # cid
  PROVE  id \in Safe /\ (id \in Listed(file)' <=> id \in Listed(file))
<1> DEFINE words == file.words
           last == Len(words)
<1>1. words \in Seq(Ints) /\ cid \in Ints
  BY DEF TypeInv, TypeOK
<1>2. CASE file.ended
  <2>1. file'.words = Append(words, cid) /\ lost' = lost \ {cid}
    BY <1>2 DEF AppendLine, File
  <2>2. /\ DOMAIN words = 1..last /\ DOMAIN file'.words = 1..(last + 1)
        /\ \A j \in 1..(last + 1) : j \in 1..last \/ j = last + 1
        /\ \A j \in 1..last : file'.words[j] = words[j] /\ j \in 1..(last + 1)
        /\ file'.words[last + 1] = cid
    BY <1>1, <2>1
  <2>3. id \in Listed(file)' <=> id \in Listed(file)
    BY <2>2 DEF Listed
  <2> QED
    BY <2>1, <2>3 DEF Safe
<1>3. CASE ~file.ended
  <2>1. /\ file'.words = [words EXCEPT ![last] = Junk]
        /\ lost' = lost \union {cid, words[last]}
    BY <1>3 DEF AppendLine, File
  <2>2. last \in DOMAIN words
    BY <1>1, <1>3 DEF TypeInv, Shape
  <2>3. /\ DOMAIN file'.words = DOMAIN words
        /\ \A j \in DOMAIN words : file'.words[j] = IF j = last THEN Junk ELSE words[j]
    BY <1>1, <2>1, <2>2
  <2>4. id # Junk /\ id # words[last] /\ id \in Safe
    BY <2>1 DEF Safe, Ids
  <2>5. id \in Listed(file)' <=> id \in Listed(file)
    <3> HIDE DEF last
    <3> QED
      BY <2>3, <2>4 DEF Listed
  <2> QED
    BY <2>4, <2>5
<1> QED
  BY <1>2, <1>3

\* A step that leaves the session where it is need only keep those who are not
\* concerned.
LEMMA SameSubscribers ==
  ASSUME Subscribed, Done' = Done, reach' = reach, inbox' = inbox,
         \A id \in Safe' : Silent(inbox, id, Done, reach) =>
           id \in Safe /\ (id \in Listed(Kept)' <=> id \in Listed(Kept))
  PROVE  Subscribed'
<1> SUFFICES ASSUME NEW id \in Safe', Silent(inbox, id, Done, reach)'
             PROVE  (id \in Listed(Kept) <=> Wants(inbox, id, Done))'
  BY DEF Subscribed
<1>1. Silent(inbox, id, Done, reach)
  OBVIOUS
<1> QED
  BY <1>1 DEF Subscribed

LEMMA SubscribedStep ==
  ASSUME Inv, TypeInv', Place', [Next]_vars
  PROVE  Subscribed'
<1> USE DEF Inv
<1>1. ASSUME UNCHANGED vars PROVE Subscribed'
  BY <1>1 DEF vars, feed, handler, Subscribed, Safe, Done, Kept, Listed,
              Feed!Larger
<1>2. ASSUME Arrive PROVE Subscribed'
  <2> PICK update \in Updates : inbox' = Append(inbox, update)
    BY <1>2 DEF Arrive
  <2>1. UNCHANGED <<confirmed, cursor, active, file, pc, datos, reach, lost>>
    BY <1>2 DEF Arrive, Feed!Arrive, handler
  <2>2. inbox \in Seq(Updates) /\ Done \in 0..Len(inbox) /\ reach \in 0..Len(inbox)
    BY DoneFacts DEF TypeInv, TypeOK, Shape, Place
  <2>3. Done' = Done /\ Safe' = Safe /\ Listed(Kept)' = Listed(Kept)
    BY <2>1 DEF Done, Safe, Kept, Listed, Feed!Larger
  <2>4. ASSUME NEW id \in Safe
        PROVE  /\ Silent(inbox, id, Done, reach)' <=> Silent(inbox, id, Done, reach)
               /\ Wants(inbox, id, Done)' <=> Wants(inbox, id, Done)
    <3>1. /\ Wants(Append(inbox, update), id, Done) <=> Wants(inbox, id, Done)
          /\ Silent(Append(inbox, update), id, Done, reach)
               <=> Silent(inbox, id, Done, reach)
      <4>1. Wants(Append(inbox, update), id, Done) <=> Wants(inbox, id, Done)
        BY <2>2, OldWords
      <4>2. \A from \in Nat, to \in 0..Len(inbox) :
              Silent(Append(inbox, update), id, from, to)
                <=> Silent(inbox, id, from, to)
        BY <2>2, OldWords
      <4>3. Done \in Nat
        BY <2>2
      <4> QED
        BY <2>2, <4>1, <4>2, <4>3
    <3> QED
      BY <2>1, <2>3, <3>1
  <2> QED
    BY <2>3, <2>4 DEF Subscribed
<1>3. ASSUME Deliver PROVE Subscribed'
  <2>1. /\ ~active /\ active' /\ cursor' = Feed!Larger(cursor, confirmed) + 1
        /\ UNCHANGED <<confirmed, inbox, file, lost>>
        /\ reach' = Feed!Larger(reach, cursor')
    BY <1>3 DEF Deliver, Feed!Deliver
  <2>2. pc = "idle" /\ pc' # "write"
    BY <1>3, <2>1, HandFacts DEF Place
  <2>3. Done' = Done /\ Done \in Nat
    BY <2>1, DoneFacts DEF Done
  <2>4. Safe' = Safe /\ Listed(Kept)' = Listed(Kept)
    BY <2>1, <2>2 DEF Safe, Kept, Listed
  <2>5. ASSUME NEW id, Silent(inbox, id, Done, reach)'
        PROVE  Silent(inbox, id, Done, reach)
    <3>1. Silent(inbox, id, Done, reach')
      BY <2>1, <2>3, <2>5
    <3>2. reach \in Nat /\ cursor' \in Nat
      BY <1>3, HandFacts DEF TypeInv, TypeOK
    <3>3. \A j \in (Done + 1)..reach : j \in (Done + 1)..reach'
      BY <2>1, <2>3, <3>2 DEF Feed!Larger
    <3> QED
      BY <3>1, <3>3 DEF Silent
  <2> QED
    BY <2>1, <2>3, <2>4, <2>5 DEF Subscribed
<1>4. ASSUME Complete PROVE Subscribed'
  <2>1. /\ active /\ ~active' /\ pc \in {"return", "polled"} /\ pc' = "idle"
        /\ UNCHANGED <<confirmed, cursor, inbox, file, reach, lost>>
    BY <1>4 DEF Complete, Feed!Complete
  <2>2. /\ Done = cursor - 1 /\ cursor \in Nat \ {0} /\ confirmed < cursor
        /\ cursor <= reach /\ reach \in Nat /\ confirmed \in Nat
    BY <2>1, DoneFacts DEF TypeInv, TypeOK, Shape, Place
  <2>3. Done' = cursor
    BY <2>1, <2>2 DEF Done, Feed!Larger
  <2>4. Safe' = Safe /\ Listed(Kept)' = Listed(file) /\ Kept = file
    BY <2>1 DEF Safe, Kept, Listed
  <2> SUFFICES ASSUME NEW id \in Safe, Silent(inbox, id, cursor, reach)
               PROVE  id \in Listed(file) <=> Wants(inbox, id, cursor)
    BY <2>1, <2>3, <2>4 DEF Subscribed
  <2>5. CASE Speaks(inbox, cursor, id)
    <3>1. pc = "return"
      BY <2>1, <2>5 DEF Place, Safe
    <3>2. id \in Listed(file) <=> Says(inbox, cursor, id, "join")
      BY <2>5, <3>1 DEF Effect
    <3>3. Wants(inbox, id, cursor) <=> Says(inbox, cursor, id, "join")
      BY <2>2, <2>5, SpeakerWants
    <3> QED
      BY <3>2, <3>3
  <2>6. CASE ~Speaks(inbox, cursor, id)
    <3>1. \A j \in (Done + 1)..reach : j = cursor \/ j \in (cursor + 1)..reach
      BY <2>2
    <3>2. Silent(inbox, id, Done, reach)
      BY <2>6, <3>1 DEF Silent
    <3>3. id \in Listed(file) <=> Wants(inbox, id, Done)
      BY <2>4, <3>2 DEF Subscribed
    <3>4. Silent(inbox, id, Done, cursor) /\ Done \in Nat /\ Done <= cursor
      BY <2>2, <2>6 DEF Silent
    <3>5. Wants(inbox, id, Done) <=> Wants(inbox, id, cursor)
      BY <2>2, <3>4, SilentWants
    <3> QED
      BY <3>3, <3>5
  <2> QED
    BY <2>5, <2>6
<1>5. ASSUME Confirm PROVE Subscribed'
  <2>1. /\ ~active /\ confirmed' \in (confirmed + 1)..cursor
        /\ UNCHANGED <<active, cursor, inbox, file, pc, datos, reach, lost>>
    BY <1>5 DEF Confirm, Feed!Confirm, handler
  <2>2. Done' = Done
    BY <2>1 DEF Done, Feed!Larger, TypeInv, TypeOK
  <2>3. Safe' = Safe /\ Listed(Kept)' = Listed(Kept)
    BY <2>1 DEF Safe, Kept, Listed
  <2> QED
    BY <2>1, <2>2, <2>3, SameSubscribers
<1>6. ASSUME Die PROVE Subscribed'
  <2>1. /\ ~active' /\ cursor' = 0 /\ pc' = "idle"
        /\ lost' = lost \union (IF pc = "write" THEN Listed(datos) ELSE {})
        /\ UNCHANGED <<confirmed, inbox, file, reach>>
    BY <1>6 DEF Die, Feed!Restart
  <2>2. Done' = confirmed /\ confirmed \in Nat /\ Done \in Nat /\ confirmed <= Done
          /\ Done <= reach /\ reach \in Nat
    BY <2>1, DoneFacts DEF Done, Feed!Larger, TypeInv, TypeOK
  <2>3. Kept' = file
    BY <2>1 DEF Kept
  <2> SUFFICES ASSUME NEW id \in Safe', Silent(inbox, id, confirmed, reach)
               PROVE  id \in Listed(file) <=> Wants(inbox, id, confirmed)
    BY <2>1, <2>2, <2>3 DEF Subscribed, Listed
  <2>4. id \in Safe
    BY <2>1 DEF Safe
  <2>5. (\A j \in (Done + 1)..reach : j \in (confirmed + 1)..reach)
          /\ (\A j \in (confirmed + 1)..Done : j \in (confirmed + 1)..reach)
    BY <2>2
  <2>6. Silent(inbox, id, Done, reach) /\ Silent(inbox, id, confirmed, Done)
    BY <2>5 DEF Silent
  <2>7. id \in Listed(Kept) <=> Wants(inbox, id, Done)
    BY <2>4, <2>6 DEF Subscribed
  <2>8. Wants(inbox, id, confirmed) <=> Wants(inbox, id, Done)
    BY <2>2, <2>6, SilentWants
  <2>9. id \in Listed(Kept) <=> id \in Listed(file)
    <3>1. CASE pc = "write"
      <4>1. id \notin Listed(datos)
        BY <2>1, <3>1 DEF Safe
      <4>2. Listed(file) = {}
        BY <3>1, NoFileFacts DEF Emptied, Listed
      <4> QED
        BY <3>1, <4>1, <4>2 DEF Kept
    <3>2. CASE pc # "write"
      BY <3>2 DEF Kept
    <3> QED
      BY <3>1, <3>2
  <2> QED
    BY <2>7, <2>8, <2>9
<1>7. ASSUME FindForJoin \/ FindForDelete \/ SendPoll \/ EndOfFile
      PROVE  Subscribed'
  <2>1. /\ UNCHANGED <<confirmed, cursor, active, inbox, file, reach, lost>>
        /\ pc # "write" /\ pc' # "write"
    BY <1>7 DEF FindForJoin, FindForDelete, SendPoll, EndOfFile, Goto, feed
  <2>2. Done' = Done /\ Safe' = Safe /\ Listed(Kept)' = Listed(Kept)
    BY <2>1 DEF Done, Safe, Kept, Listed, Feed!Larger
  <2> QED
    BY <2>1, <2>2, SameSubscribers
<1>8. ASSUME AppendLine PROVE Subscribed'
  <2>1. /\ UNCHANGED <<confirmed, cursor, active, inbox, reach>>
        /\ pc = "append" /\ pc' = "return"
    BY <1>8 DEF AppendLine, Goto, feed
  <2>2. Done' = Done
    BY <2>1 DEF Done, Feed!Larger
  <2>3. active /\ Speaks(inbox, cursor, cid)
    BY <2>1 DEF Place, Speaks
  <2>4. ~Silent(inbox, cid, Done, reach)
    BY <2>3, NotSilent
  <2>5. ASSUME NEW id \in Safe', id # cid
        PROVE  id \in Safe /\ (id \in Listed(file)' <=> id \in Listed(file))
    BY <1>8, <2>5, AppendLineKeeps
  <2> QED
    BY <2>1, <2>2, <2>4, <2>5, SameSubscribers DEF Kept
<1>9. ASSUME ReadAndCut PROVE Subscribed'
  <2> PICK k \in DOMAIN file.words : FirstLine(file.words, cid, k) /\ CutLine(k)
    BY <1>9 DEF ReadAndCut
  <2>1. cid \in Ids /\ file.words[k] = cid
    BY <1>9 DEF ReadAndCut, Goto, Place, FirstLine
  <2>2. lost \subseteq lost'
    BY <2>1, CutLineKeeps DEF CutOut
  <2>3. /\ UNCHANGED <<confirmed, cursor, active, inbox, file, reach>>
        /\ pc = "read" /\ pc' = "truncate"
    BY <1>9 DEF ReadAndCut, Goto, feed
  <2>4. Done' = Done /\ Safe' \subseteq Safe /\ Listed(Kept)' = Listed(Kept)
    BY <2>2, <2>3 DEF Done, Safe, Kept, Listed, Feed!Larger
  <2> QED
    BY <2>3, <2>4, SameSubscribers
<1>10. ASSUME Truncate PROVE Subscribed'
  <2>1. /\ UNCHANGED <<confirmed, cursor, active, inbox, reach, datos, lost>>
        /\ pc = "truncate" /\ pc' = "write"
    BY <1>10 DEF Truncate, Goto, feed
  <2>2. Done' = Done /\ Safe' = Safe /\ Kept = file /\ Kept' = datos
    BY <2>1 DEF Done, Safe, Kept, Feed!Larger
  <2>3. ~Silent(inbox, cid, Done, reach)
    BY <2>1, NotSilent DEF Place, Speaks
  <2>4. \A id \in Safe : id # cid => (id \in Listed(datos) <=> id \in Listed(file))
    BY <2>1 DEF CutOut
  <2>5. \A id : id \in Listed(Kept)' <=> id \in Listed(datos)
    BY <2>2 DEF Listed
  <2> QED
    BY <2>1, <2>2, <2>3, <2>4, <2>5, SameSubscribers
<1>11. ASSUME WriteBack PROVE Subscribed'
  <2>1. /\ UNCHANGED <<confirmed, cursor, active, inbox, reach, lost>>
        /\ pc = "write" /\ pc' = "return" /\ file' = datos
    BY <1>11 DEF WriteBack, Goto, feed
  <2>2. Done' = Done /\ Safe' = Safe /\ Listed(Kept)' = Listed(Kept)
    BY <2>1 DEF Done, Safe, Kept, Listed, Feed!Larger
  <2> QED
    BY <2>1, <2>2, SameSubscribers
<1> QED
  BY <1>1, <1>2, <1>3, <1>4, <1>5, <1>6, <1>7, <1>8, <1>9, <1>10, <1>11
     DEF Next, Handle

LEMMA EffectStep ==
  ASSUME Inv, TypeInv', Place', [Next]_vars
  PROVE  Effect' /\ Emptied'
<1> USE DEF Inv
<1>1. ASSUME pc' \notin {"return", "write"} PROVE Effect' /\ Emptied'
  BY <1>1 DEF Effect, Emptied
<1>2. ASSUME UNCHANGED <<cursor, file, pc, lost>>,
             pc = "return" => active,
             \A id, command : active =>
               (Says(inbox, cursor, id, command)' <=> Says(inbox, cursor, id, command))
      PROVE  Effect' /\ Emptied'
  BY <1>2 DEF Effect, Emptied, Safe, Listed, Speaks
<1>3. ASSUME UNCHANGED vars \/ Confirm PROVE Effect' /\ Emptied'
  <2>1. UNCHANGED <<cursor, file, pc, lost, inbox>>
    BY <1>3 DEF vars, feed, handler, Confirm, Feed!Confirm
  <2> QED
    BY <1>2, <2>1 DEF Place
<1>4. ASSUME Arrive PROVE Effect' /\ Emptied'
  <2> PICK update \in Updates : inbox' = Append(inbox, update)
    BY <1>4 DEF Arrive
  <2>1. UNCHANGED <<cursor, file, pc, lost>>
    BY <1>4 DEF Arrive, Feed!Arrive, handler
  <2>2. active => cursor \in 1..Len(inbox)
    BY DEF TypeInv, TypeOK, Shape
  <2>3. ASSUME NEW id, NEW command, active
        PROVE  Says(inbox, cursor, id, command)' <=> Says(inbox, cursor, id, command)
    <3>1. inbox \in Seq(Updates)
      BY DEF TypeInv, TypeOK
    <3>2. Says(Append(inbox, update), cursor, id, command)
            <=> Says(inbox, cursor, id, command)
      BY <2>2, <2>3, <3>1, OldSays
    <3> QED
      BY <2>1, <3>2
  <2> QED
    BY <1>2, <2>1, <2>3 DEF Place
<1>5. ASSUME Deliver PROVE Effect' /\ Emptied'
  <2>1. inbox' = inbox
    BY <1>5 DEF Deliver
  <2> QED
    BY <1>5, <2>1, HandFacts DEF Effect, Emptied, Safe
<1>6. ASSUME Complete \/ Die \/ ReadAndCut \/ SendPoll \/ EndOfFile
      PROVE  Effect' /\ Emptied'
  BY <1>1, <1>6 DEF Complete, Die, ReadAndCut, SendPoll, EndOfFile, Goto
<1>7. ASSUME FindForJoin \/ FindForDelete PROVE Effect' /\ Emptied'
  <2>1. /\ UNCHANGED <<cursor, inbox, file, cid, lost>>
        /\ pc \in {"join", "delete"} /\ pc' # "write"
        /\ pc' = "return" => (cid \in Listed(file) <=> pc = "join")
    BY <1>7 DEF FindForJoin, FindForDelete, Goto, feed
  <2>2. Says(inbox, cursor, cid, pc)
    BY <2>1 DEF Place
  <2>3. ASSUME NEW id \in Safe, Speaks(inbox, cursor, id), pc' = "return"
        PROVE  id \in Listed(file) <=> Says(inbox, cursor, id, "join")
    <3>1. id = cid
      BY <2>2, <2>3, OneWord DEF Speaks
    <3>2. Says(inbox, cursor, id, "join") <=> pc = "join"
      BY <2>2, <3>1, OneWord
    <3> QED
      BY <2>1, <2>3, <3>1, <3>2
  <2> QED
    BY <2>1, <2>3 DEF Effect, Emptied, Safe, Listed
<1>8. ASSUME AppendLine PROVE Effect' /\ Emptied'
  <2>1. UNCHANGED <<cursor, inbox, cid>> /\ pc = "append" /\ pc' = "return"
    BY <1>8 DEF AppendLine, Goto, feed
  <2>2. Says(inbox, cursor, cid, "join")
    BY <2>1 DEF Place
  <2>3. cid \in Safe' => cid \in Listed(file)'
    <3>1. CASE file.ended
      <4>1. file'.words = Append(file.words, cid)
        BY <1>8, <3>1 DEF AppendLine, File
      <4>. DEFINE words == file.words
      <4>2. words \in Seq(Ints)
        BY DEF TypeInv, TypeOK
      <4>. HIDE DEF words
      <4>3. /\ Append(words, cid)[Len(words) + 1] = cid
            /\ Len(words) + 1 \in DOMAIN Append(words, cid)
        BY <4>2
      <4>4. /\ file'.words[Len(words) + 1] = cid
            /\ Len(words) + 1 \in DOMAIN file'.words
        BY <4>1, <4>3 DEF words
      <4> QED
        BY <4>4 DEF Listed
    <3>2. CASE ~file.ended
      BY <1>8, <3>2 DEF AppendLine, Safe
    <3> QED
      BY <3>1, <3>2
  <2>4. \A id : Speaks(inbox, cursor, id) => id = cid
    BY <2>2, OneWord DEF Speaks
  <2> QED
    BY <2>1, <2>2, <2>3, <2>4 DEF Effect, Emptied
<1>9. ASSUME Truncate PROVE Effect' /\ Emptied'
  BY <1>9 DEF Truncate, Goto, Effect, Emptied
<1>10. ASSUME WriteBack PROVE Effect' /\ Emptied'
  <2>1. /\ UNCHANGED <<cursor, inbox, cid, lost>>
        /\ pc = "write" /\ pc' = "return" /\ file' = datos
    BY <1>10 DEF WriteBack, Goto, feed
  <2>2. Says(inbox, cursor, cid, "delete")
    BY <2>1 DEF Place
  <2>3. ~Says(inbox, cursor, cid, "join")
    BY <2>2, OneWord
  <2>4. \A id : Speaks(inbox, cursor, id) => id = cid
    BY <2>2, OneWord DEF Speaks
  <2>5. cid \in Safe => cid \notin Listed(datos)
    BY <2>1 DEF CutOut
  <2> QED
    BY <2>1, <2>3, <2>4, <2>5 DEF Effect, Emptied, Safe, Listed
<1> QED
  BY <1>3, <1>4, <1>5, <1>6, <1>7, <1>8, <1>9, <1>10 DEF Next, Handle

LEMMA InvInit == Init => Inv
<1> SUFFICES ASSUME Init PROVE Inv
  OBVIOUS
<1>1. TypeInv
  BY TypeInit
<1>2. /\ arrived = 0 /\ confirmed = 0 /\ cursor = 0 /\ active = FALSE
      /\ pc = "idle" /\ reach = 0 /\ lost = {}
      /\ file.words = Initial
  BY DEF Init, Feed!Init, File
<1>3. Done = 0 /\ Safe = Ids /\ Kept = file
  BY <1>2 DEF Done, Safe, Kept, Feed!Larger
<1>4. Place /\ Emptied /\ Effect
  BY <1>2 DEF Place, Emptied, Effect
<1>5. CutOut
  BY <1>2, <1>3, InitialAssumption DEF CutOut
<1>6. \A id : id \in Listed(file) <=> Wants(inbox, id, 0)
  BY <1>2 DEF Listed, Wants
<1> QED
  BY <1>1, <1>3, <1>4, <1>5, <1>6 DEF Inv, Subscribed

LEMMA InvStep == Inv /\ [Next]_vars => Inv'
<1> SUFFICES ASSUME Inv, [Next]_vars PROVE Inv'
  OBVIOUS
<1>1. TypeInv'
  BY TypeStep DEF Inv
<1>2. Place'
  BY <1>1, PlaceStep
<1>3. CutOut' /\ Subscribed' /\ Effect' /\ Emptied'
  BY <1>1, <1>2, CutOutStep, SubscribedStep, EffectStep
<1> QED
  BY <1>1, <1>2, <1>3 DEF Inv

\* Nobody is in the file twice, however often an update is handled.
THEOREM OnceEach == Spec => []NoDuplicates
<1>1. Inv => NoDuplicates
  BY DEF Inv, CutOut, NoDuplicates
<1> QED
  BY <1>1, InvInit, InvStep, PTL DEF Spec

\* The file of a bot that has caught up is what its users last asked for.
THEOREM LastWord == Spec => []LastWordCounts
<1>1. ASSUME Inv, ~active, Done >= reach, NEW id \in Safe
      PROVE  id \in Listed(file) <=> Wants(inbox, id, Done)
  <2>1. Kept = file
    BY <1>1 DEF Inv, Place, Kept
  <2>2. Done = reach /\ reach \in Nat
    BY <1>1, DoneFacts DEF Inv, TypeInv, TypeOK
  <2>3. Silent(inbox, id, Done, reach)
    BY <2>2 DEF Silent
  <2> QED
    BY <1>1, <2>1, <2>3 DEF Inv, Subscribed
<1>2. Inv => LastWordCounts
  BY <1>1 DEF LastWordCounts
<1> QED
  BY <1>2, InvInit, InvStep, PTL DEF Spec

-----------------------------------------------------------------------------
(* Polls *)

\* doEncuesta has asked those whose lines it has read.
Copied ==
  /\ pc = "idle" => line = 0 /\ asked = <<>>
  /\ pc \in {"send", "polled"} =>
       /\ Len(asked) = line /\ line <= Len(file.words)
       /\ \A k \in 1..line : asked[k] = file.words[k]
  /\ pc = "polled" => line = Len(file.words)

LEMMA CopiedStep ==
  ASSUME Inv, Copied, [Next]_vars
  PROVE  Copied'
<1> USE DEF Inv, Copied
<1>1. ASSUME pc' \notin {"idle", "send", "polled"} PROVE Copied'
  BY <1>1
<1>2. ASSUME UNCHANGED <<pc, file, line, asked>> PROVE Copied'
  BY <1>2
<1>3. ASSUME Deliver PROVE Copied'
  <2>1. line = 0 /\ asked = <<>> /\ UNCHANGED <<line, asked, file>>
    BY <1>3 DEF Deliver, Feed!Deliver, Place
  <2>2. pc' \notin {"idle", "polled"}
    BY <1>3, HandFacts
  <2>3. Len(asked) = 0 /\ Len(file.words) \in Nat /\ \A k \in 1..0 : FALSE
    BY <2>1 DEF TypeInv, TypeOK
  <2> QED
    BY <2>1, <2>2, <2>3
<1>4. ASSUME Complete \/ Die PROVE Copied'
  BY <1>4 DEF Complete, Die
<1>5. ASSUME SendPoll PROVE Copied'
  <2>1. /\ pc' = "send" /\ pc = "send" /\ line' = line + 1 /\ file' = file
        /\ asked' = Append(asked, file.words[line + 1]) /\ line < Len(file.words)
    BY <1>5 DEF SendPoll, Goto
  <2>2. /\ line \in Nat /\ asked \in Seq(Ints) /\ Len(asked) = line
        /\ Len(file.words) \in Nat
    BY <2>1 DEF TypeInv, TypeOK
  <2>3. /\ Len(asked') = line + 1
        /\ \A k \in 1..line : asked'[k] = asked[k]
        /\ asked'[line + 1] = file.words[line + 1]
        /\ \A k \in 1..(line + 1) : k \in 1..line \/ k = line + 1
    BY <2>1, <2>2
  <2> QED
    BY <2>1, <2>2, <2>3
<1>6. ASSUME EndOfFile PROVE Copied'
  <2>1. /\ pc' = "polled" /\ pc = "send" /\ UNCHANGED <<file, line, asked>>
        /\ line >= Len(file.words)
    BY <1>6 DEF EndOfFile, Goto
  <2>2. line \in Nat /\ Len(file.words) \in Nat
    BY DEF TypeInv, TypeOK
  <2> QED
    BY <2>1, <2>2
<1>7. ASSUME UNCHANGED vars \/ Arrive \/ Confirm PROVE Copied'
  BY <1>2, <1>7 DEF vars, Arrive, Confirm, handler
<1>8. ASSUME FindForJoin \/ FindForDelete \/ AppendLine \/ ReadAndCut \/ Truncate
               \/ WriteBack
      PROVE  Copied'
  BY <1>1, <1>8 DEF FindForJoin, FindForDelete, AppendLine, ReadAndCut, Truncate,
                    WriteBack, Goto
<1> QED
  BY <1>3, <1>4, <1>5, <1>6, <1>7, <1>8 DEF Next, Handle

\* A poll reaches each subscriber of the moment once, and nobody else.
THEOREM PollsReach == Spec => []PollsSubscribers
<1>1. Init => Copied
  BY DEF Init, Copied
<1>2. Inv /\ Copied /\ [Next]_vars => Copied'
  BY CopiedStep
<1>3. ASSUME Inv, Copied, pc = "polled", Done + 1 >= reach
      PROVE  /\ Unique(asked, Safe)
             /\ \A id \in Safe : (\E k \in DOMAIN asked : asked[k] = id)
                                   <=> Wants(inbox, id, Done)
  <2>1. /\ active /\ Done = cursor - 1 /\ cursor \in Nat /\ reach = cursor
    BY <1>3, DoneFacts DEF Inv, TypeInv, TypeOK, Place
  <2>2. \A id \in Safe : Silent(inbox, id, Done, reach)
    BY <1>3, <2>1 DEF Inv, Place, Silent, Safe
  <2>3. \A id \in Safe : id \in Listed(file) <=> Wants(inbox, id, Done)
    BY <1>3, <2>2 DEF Inv, Subscribed, Kept
  <2>4. /\ DOMAIN asked = DOMAIN file.words
        /\ \A k \in DOMAIN asked : asked[k] = file.words[k]
    BY <1>3 DEF Copied, Inv, TypeInv, TypeOK
  <2>5. Unique(asked, Safe)
    BY <1>3, <2>4 DEF Inv, CutOut, Unique
  <2> QED
    BY <2>3, <2>4, <2>5 DEF Listed
<1>4. Inv /\ Copied => PollsSubscribers
  BY <1>3 DEF PollsSubscribers
<1> QED
  BY <1>1, <1>2, <1>4, InvInit, InvStep, PTL DEF Spec

=============================================================================
