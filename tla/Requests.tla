------------------------------ MODULE Requests ------------------------------
(***************************************************************************)
(* The HTTP requests of lib/telebot_Capi and the curl handles they are     *)
(* made with.                                                              *)
(*                                                                         *)
(* telebot_init makes one handle, for the threads of the user; tbc_poll    *)
(* duplicates it for itself, while the user may already be sending, and    *)
(* lends the duplicate to the handlers each tbc_parser runs.  A handle     *)
(* keeps its options from one request to the next, and keeps POSTFIELDS    *)
(* and WRITEDATA as bare pointers: "dead" is a pointer into a frame that   *)
(* has returned or a block that was freed.                                 *)
(*                                                                         *)
(* Polling.tla has the loan itself, with the queue that makes it:          *)
(* StartParser, EndParser and WaitOffset stand for it here, for a queue    *)
(* that can be opened.  Both modules implement Loan.tla.                   *)
(***************************************************************************)
EXTENDS Integers, Sequences

CONSTANTS
  MainCalls,     \* what main calls, of {"getMe", "sendMessage", "sendPoll"}
  HandlerCalls,  \* what handlers call
  MaxChunks      \* bound: chunks in one answer

Sends == {"sendMessage", "sendPoll"}
Gets  == {"getUpdates", "getMe"}
Calls == Sends \union Gets
Threads == {"main", "poll", "parser"}

ASSUME CallsAssumption ==
  MainCalls \union HandlerCalls \subseteq Sends \union {"getMe"}
ASSUME ChunksAssumption == MaxChunks \in Nat

VARIABLES
  handle,    \* handle[h]: the options of the handle of "main", of "poll"
  snapshot,  \* main's handle when duphandle began to read it
  pc,        \* pc[t]: where thread t is
  call,      \* call[t]: the call t is in, or "none"
  request,   \* request[t]: the options its transfer was started with
  response,  \* response[t]: the chunks in t's http_response_t
  sent       \* the parser has sent the offset and tbc_poll has not read it

vars == <<handle, snapshot, pc, call, request, response, sent>>

\* The handle t uses: tbc_poll's is in update->http_info of the handlers.
Uses(t) == IF t = "main" THEN "main" ELSE "poll"

Pointers == Threads \union {"none", "dead"}
Options == [method : {"GET", "POST"}, url : Calls \union {"none"},
            fields : Pointers, write : Pointers]

\* What curl_easy_init and telebot_init leave: no URL, no body, GET.
NoOptions == [method |-> "GET", url |-> "none", fields |-> "none",
              write |-> "none"]

Pcs == {"idle", "dup", "duplicating", "ready", "postfields", "url",
        "writedata", "clear", "perform", "transfer", "performed", "failed",
        "reset", "return", "wait"}

TypeOK ==
  /\ handle \in [{"main", "poll"} -> Options]
  /\ snapshot \in Options
  /\ pc \in [Threads -> Pcs]
  /\ call \in [Threads -> Calls \union {"none"}]
  /\ request \in [Threads -> Options]
  /\ response \in [Threads -> Seq(Calls \union {"none"})]
  /\ sent \in BOOLEAN

\* telebot_init has returned: main is at work and tbc_poll starts.
Init ==
  /\ handle = [h \in {"main", "poll"} |-> NoOptions]
  /\ snapshot = NoOptions
  /\ pc = [t \in Threads |-> CASE t = "main" -> "ready"
                               [] t = "poll" -> "dup"
                               [] t = "parser" -> "idle"]
  /\ call = [t \in Threads |-> IF t = "poll" THEN "getUpdates" ELSE "none"]
  /\ request = [t \in Threads |-> NoOptions]
  /\ response = [t \in Threads |-> <<>>]
  /\ sent = FALSE

-----------------------------------------------------------------------------
Goto(t, from, to) == pc[t] = from /\ pc' = [pc EXCEPT ![t] = to]

\* curl_easy_duphandle(bot_info's handle).  Nothing keeps main from setting
\* options meanwhile, so that each option is the one before or the one after.
DupStarts ==
  /\ Goto("poll", "dup", "duplicating")
  /\ snapshot' = handle["main"]
  /\ UNCHANGED <<handle, call, request, response, sent>>

DupEnds ==
  /\ Goto("poll", "duplicating", "url")
  /\ \E method \in {snapshot.method, handle["main"].method},
        url    \in {snapshot.url,    handle["main"].url},
        fields \in {snapshot.fields, handle["main"].fields},
        write  \in {snapshot.write,  handle["main"].write} :
       handle' = [handle EXCEPT !["poll"] =
                    [method |-> method, url |-> url, fields |-> fields,
                     write |-> write]]
  /\ snapshot' = NoOptions
  /\ UNCHANGED <<call, request, response, sent>>

\* A thread of the user calls telebot_getMe, _sendMessage or _sendPoll.
CallsOf(t) == IF t = "main" THEN MainCalls ELSE HandlerCalls

StartCallMutant(t) ==
  /\ t \in {"main", "parser"}
  /\ \E c \in CallsOf(t) :
       /\ Goto(t, "ready", IF c = "sendMessage" THEN "postfields" ELSE "url")
       /\ call' = [call EXCEPT ![t] = c]
  /\ UNCHANGED <<handle, snapshot, request, response, sent>>

StartCall(t) ==
  /\ t \in {"main", "parser"}
  /\ \E c \in CallsOf(t) :
       /\ Goto(t, "ready", IF c \in Sends THEN "postfields" ELSE "url")
       /\ call' = [call EXCEPT ![t] = c]
  /\ UNCHANGED <<handle, snapshot, request, response, sent>>

\* curl_easy_setopt(handle, CURLOPT_POSTFIELDS, data): the pointer, and POST.
SetPostFields(t) ==
  /\ Goto(t, "postfields", "url")
  /\ handle' = [handle EXCEPT ![Uses(t)].fields = t, ![Uses(t)].method = "POST"]
  /\ UNCHANGED <<snapshot, call, request, response, sent>>

\* CURLOPT_URL: the text is copied.
SetUrl(t) ==
  /\ Goto(t, "url", "writedata")
  /\ handle' = [handle EXCEPT ![Uses(t)].url = call[t]]
  /\ UNCHANGED <<snapshot, call, request, response, sent>>

\* CURLOPT_WRITEDATA: the thread's own http_response_t.
SetWriteDataMutant(t) ==
  /\ Goto(t, "writedata", "clear")
  /\ handle' = [handle EXCEPT ![Uses(t)].write = call[t]]
  /\ UNCHANGED <<snapshot, call, request, response, sent>>

SetWriteData(t) ==
  /\ Goto(t, "writedata", "clear")
  /\ handle' = [handle EXCEPT ![Uses(t)].write = t]
  /\ UNCHANGED <<snapshot, call, request, response, sent>>

\* response.response = NULL; response.size = 0
ClearResponse(t) ==
  /\ Goto(t, "clear", "perform")
  /\ response' = [response EXCEPT ![t] = <<>>]
  /\ UNCHANGED <<handle, snapshot, call, request, sent>>

\* curl_easy_perform reads the options and sends the request ...
Perform(t) ==
  /\ Goto(t, "perform", "transfer")
  /\ request' = [request EXCEPT ![t] = handle[Uses(t)]]
  /\ UNCHANGED <<handle, snapshot, call, response, sent>>

\* ... tbc_http_callback adds each chunk of the answer to WRITEDATA ...
Chunk(t) ==
  /\ pc[t] = "transfer"
  /\ LET to == handle[Uses(t)].write IN
       /\ to \in Threads
       /\ Len(response[to]) < MaxChunks
       /\ response' = [response EXCEPT ![to] = Append(@, request[t].url)]
  /\ UNCHANGED <<handle, snapshot, pc, call, request, sent>>

\* ... and it returns CURLE_OK or, at any moment (realloc failing in
\* tbc_http_callback is one), an error.
TransferEnds(t) ==
  /\ Goto(t, "transfer", "performed") \/ Goto(t, "transfer", "failed")
  /\ UNCHANGED <<handle, snapshot, call, request, response, sent>>

\* The user's calls go on alike after an error.  Only sendMessage sets
\* CURLOPT_HTTPGET.
AfterPerform(t) ==
  /\ t # "poll"
  /\ \E outcome \in {"performed", "failed"} :
       Goto(t, outcome, IF call[t] = "sendMessage" THEN "reset" ELSE "return")
  /\ UNCHANGED <<handle, snapshot, call, request, response, sent>>

ResetMethodMutant(t) ==
  /\ Goto(t, "reset", "return")
  /\ UNCHANGED <<handle, snapshot, call, request, response, sent>>

ResetMethod(t) ==
  /\ Goto(t, "reset", "return")
  /\ handle' = [handle EXCEPT ![Uses(t)].method = "GET"]
  /\ UNCHANGED <<snapshot, call, request, response, sent>>

\* The pointers to what t had are dead, in whatever handle they are.
Bury(pointer, t) == IF pointer = t THEN "dead" ELSE pointer

Buried(options, t) ==
  [method |-> options.method, url |-> options.url,
   fields |-> Bury(options.fields, t), write |-> Bury(options.write, t)]

\* The call returns; its data and its http_response_t were on its stack.
ReturnCall(t) ==
  /\ Goto(t, "return", "ready")
  /\ handle' = [h \in {"main", "poll"} |-> Buried(handle[h], t)]
  /\ snapshot' = Buried(snapshot, t)
  /\ call' = [call EXCEPT ![t] = "none"]
  /\ request' = [request EXCEPT ![t] = NoOptions]
  /\ response' = [response EXCEPT ![t] = <<>>]
  /\ UNCHANGED sent

-----------------------------------------------------------------------------
(* The loan of tbc_poll's handle *)

\* pthread_create(..., tbc_parser, resp_info); after an error tbc_poll asks
\* again.
StartParser ==
  /\ pc["poll"] = "performed" /\ pc["parser"] = "idle"
  /\ pc' = [pc EXCEPT !["poll"] = "wait", !["parser"] = "ready"]
  /\ UNCHANGED <<handle, snapshot, call, request, response, sent>>

Retry ==
  /\ Goto("poll", "failed", "url")
  /\ UNCHANGED <<handle, snapshot, call, request, response, sent>>

\* The last handler has returned: msgsnd, then free(info), which holds the
\* http_response_t of tbc_poll.
EndParser ==
  /\ Goto("parser", "ready", "idle")
  /\ sent' = TRUE
  /\ handle' = [h \in {"main", "poll"} |-> Buried(handle[h], "poll")]
  /\ UNCHANGED <<snapshot, call, request, response>>

WaitOffsetMutant ==
  /\ Goto("poll", "wait", "url")
  /\ sent' = FALSE
  /\ UNCHANGED <<handle, snapshot, call, request, response>>

WaitOffset ==
  /\ sent
  /\ Goto("poll", "wait", "url")
  /\ sent' = FALSE
  /\ UNCHANGED <<handle, snapshot, call, request, response>>

Next ==
  \/ DupStarts \/ DupEnds \/ StartParser \/ Retry \/ EndParser \/ WaitOffset
  \/ \E t \in Threads :
       \/ StartCall(t) \/ SetPostFields(t) \/ SetUrl(t) \/ SetWriteData(t)
       \/ ClearResponse(t) \/ Perform(t) \/ Chunk(t) \/ TransferEnds(t)
       \/ AfterPerform(t) \/ ResetMethod(t) \/ ReturnCall(t)

Spec == Init /\ [][Next]_vars

-----------------------------------------------------------------------------
(* Properties *)

\* Every request goes to the URL of the call that makes it, its answer to
\* that call alone, and what a call finds in its http_response_t is the
\* answer to that request and to no other one.
OwnAnswer ==
  \A t \in Threads :
    /\ pc[t] = "transfer" => /\ request[t].url = call[t]
                             /\ handle[Uses(t)].write = t
    /\ pc[t] = "performed" =>
         \A k \in DOMAIN response[t] : response[t][k] = call[t]

\* What is sent is what the caller gave: a POST with the caller's own text,
\* which is still there.
OwnBody ==
  \A t \in Threads :
    pc[t] = "transfer" /\ call[t] \in Sends =>
      request[t].method = "POST" /\ handle[Uses(t)].fields = t

\* telebot_Capi.c:269, "http_get(...)": getMe, and with it getUpdates, is a
\* GET, without a body.
GetIsGet ==
  \A t \in Threads :
    pc[t] = "transfer" /\ call[t] \in Gets => request[t].method = "GET"

\* testbot/test.c:24, "NO SE DEBEN COMPARTIR ENTRE VARIOS HILOS": no handle
\* is in the hands of two threads at a time; only curl_easy_duphandle
\* (tbc_polling.c:407) may read main's while main sets its options.
Handling == {"postfields", "url", "writedata", "clear", "perform", "transfer",
             "reset"}

HandledBy(h) == {t \in Threads : pc[t] \in Handling /\ Uses(t) = h}

HandleUnshared ==
  /\ \A h \in {"main", "poll"} : \A t, u \in HandledBy(h) : t = u
  /\ pc["poll"] \in {"dup", "duplicating"} => HandledBy("poll") = {}

\* Who has tbc_poll's handle, and who is at work on it.
Holder == IF sent THEN "sent"
          ELSE IF pc["parser"] # "idle" THEN "parser" ELSE "poll"
Using == IF pc["poll"] \in Handling THEN "poll"
         ELSE IF pc["parser"] \in Handling THEN "parser" ELSE "nobody"

\* The calls keep to the loan that Polling.tla implements: no option is set and
\* no transfer made on tbc_poll's handle but by who has it at that moment, from
\* the first option of a request to the last of its clean-up.
Lending == INSTANCE Loan WITH holder <- Holder, using <- Using
LoanPromise == Lending!Spec

=============================================================================
