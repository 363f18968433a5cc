---------------------------- MODULE ModelRequests ----------------------------
(***************************************************************************)
(* LlamaChatClient and OpenAICompatibleChatClient: a call is a list of     *)
(* HTTP requests.  A request with one JSON answer is repeated up to        *)
(* Retries times; a stream is not.  The handler of the client shows the    *)
(* pieces of an answer as they come, before it is known that the answer    *)
(* will be complete.                                                       *)
(*                                                                         *)
(* A piece is <<request, i>>; a whole answer has Pieces of them.           *)
(***************************************************************************)
EXTENDS Naturals, Sequences

CONSTANTS Retries,  \* request_retries
          Pieces,   \* of a whole answer
          MaxPosts  \* bound: HTTP requests

ASSUME RequestConstants == Retries \in Nat /\ Pieces \in Nat \ {0} /\ MaxPosts \in Nat

VARIABLES
    model,    \* kind of the endpoint, is there a handler, tokens reported resident
    call,     \* state, requests left to make, attempt, pieces received
    timing,   \* phase of inference_timing
    screen,   \* pieces shown since prefill_start
    posts     \* requests so far

requestVars == <<model, call, timing, screen, posts>>

Idle == [state |-> "idle", todo |-> <<>>, attempt |-> 1, content |-> <<>>]
Whole(request) == [i \in 1..Pieces |-> <<request, i>>]
Step == Head(call.todo)

CallEnds(state, content) == call' = [call EXCEPT !.state = state, !.todo = <<>>, !.content = content]

\* _finish_failed_timing, unless the call had not come to its inference.
Raises == CallEnds("failed", call.content) /\ timing' = "idle" /\ UNCHANGED <<model, screen>>

Returns(content) == CallEnds("returned", content) /\ timing' = "idle"

-----------------------------------------------------------------------------
(* Calls.                                                                  *)

Starts(todo) ==
    /\ call.state = "idle" /\ posts < MaxPosts
    /\ call' = [Idle EXCEPT !.state = "busy", !.todo = todo]
    /\ screen' = IF model.kind = "openai" THEN <<>> ELSE screen
    /\ timing' = IF model.kind = "openai" THEN "prefill" ELSE timing
    /\ UNCHANGED <<model, posts>>

Chat ==
    LET answer == IF model.handler THEN "stream" ELSE "complete"
    IN  Starts(IF model.kind = "llama" THEN <<"template", answer>> ELSE <<answer>>)

PreparePrefix == model.kind = "llama" /\ Starts(<<"template", "tokenize", "warm">>)

ResetResident ==
    /\ call.state = "idle"
    /\ model' = [model EXCEPT !.resident = IF model.kind = "llama" THEN model.base ELSE 0]
    /\ UNCHANGED <<call, timing, screen, posts>>

-----------------------------------------------------------------------------
(* _send_json.                                                             *)

Posts == call.state = "busy" /\ Step # "stream" /\ posts < MaxPosts /\ posts' = posts + 1

\* The answer of the request, an error of its form included: HTTP 4xx, no object, no text.
PostAnswers ==
    /\ Posts
    /\ \/ Raises
       \/ /\ Step \in {"template", "tokenize"}
          /\ call' = [call EXCEPT !.todo = Tail(@), !.attempt = 1]
          /\ IF Tail(call.todo) \in {<<"stream">>, <<"complete">>}
             THEN timing' = "prefill" /\ screen' = <<>> ELSE UNCHANGED <<timing, screen>>
          /\ UNCHANGED model
       \/ /\ Step = "complete" /\ Returns(Whole(posts'))
          /\ screen' = IF model.handler THEN screen \o Whole(posts') ELSE screen
          /\ model' = [model EXCEPT !.resident = IF model.kind = "llama" THEN 2 ELSE 0]
       \/ /\ Step = "warm" /\ Returns(<<>>) /\ UNCHANGED screen
          /\ model' = [model EXCEPT !.base = 1, !.resident = 1]

\* HTTP 5xx, no connection, no answer in time, no JSON.
PostIsRepeated ==
    /\ Posts
    /\ IF call.attempt <= Retries
       THEN call' = [call EXCEPT !.attempt = @ + 1] /\ UNCHANGED <<model, timing, screen>>
       ELSE Raises

-----------------------------------------------------------------------------
(* _completion_stream and _stream_request.                                 *)

Streams == call.state = "busy" /\ Step = "stream"

StreamOpens ==
    /\ Streams /\ call.attempt # 0 /\ posts < MaxPosts /\ posts' = posts + 1
    /\ call' = [call EXCEPT !.attempt = 0]
    /\ UNCHANGED <<model, timing, screen>>

Open == Streams /\ call.attempt = 0 /\ UNCHANGED posts

StreamChunk ==
    /\ Open /\ Len(call.content) < Pieces
    /\ LET piece == <<posts, Len(call.content) + 1>>
       IN  call' = [call EXCEPT !.content = Append(@, piece)] /\ screen' = Append(screen, piece)
    /\ timing' = "generate" /\ UNCHANGED model

\* The final record, or the end of the data.
StreamStops ==
    /\ Open /\ Len(call.content) = Pieces /\ Returns(call.content)
    /\ model' = [model EXCEPT !.resident = IF model.kind = "llama" THEN 2 ELSE 0]
    /\ UNCHANGED screen

\* The connection ends early without an error: only llama-server's answers have a last
\* record to miss.
StreamEnds ==
    /\ Open /\ Len(call.content) < Pieces
    /\ IF model.kind = "llama" THEN Raises
       ELSE Returns(call.content) /\ UNCHANGED <<model, screen>>

\* Mutant: a stream that fails is opened again, as the other requests are.
StreamIsRepeated ==
    /\ Open
    /\ \/ Raises
       \/ call' = [call EXCEPT !.attempt = 1, !.content = <<>>] /\ UNCHANGED <<model, timing, screen>>

StreamFails == Open /\ Raises

-----------------------------------------------------------------------------
\* The caller takes the answer or the exception.
CallerGoesOn ==
    /\ call.state \in {"returned", "failed"} /\ call' = Idle
    /\ UNCHANGED <<model, timing, screen, posts>>

RequestInit ==
    /\ model \in [kind : {"llama", "openai"}, handler : BOOLEAN, base : {0}, resident : {0}]
    /\ call = Idle /\ timing = "idle" /\ screen = <<>> /\ posts = 0

RequestNext ==
    \/ Chat \/ PreparePrefix \/ ResetResident
    \/ PostAnswers \/ PostIsRepeated
    \/ StreamOpens \/ StreamChunk \/ StreamStops \/ StreamEnds \/ StreamFails
    \/ CallerGoesOn

RequestSpec == RequestInit /\ [][RequestNext]_requestVars

-----------------------------------------------------------------------------
(* Properties.                                                             *)

\* The answer a call returns comes from one request, is what was shown, and with
\* llama-server it is whole: what an attempt that failed has shown is not under it.
ShownIsTheAnswer ==
    call.state = "returned" /\ call.content # <<>> =>
        /\ model.handler => screen = call.content
        /\ \A i \in DOMAIN call.content : call.content[i] = <<posts, i>>
        /\ model.kind = "llama" => call.content = Whole(posts)

=============================================================================
