--------------------------- MODULE HttpConnection ---------------------------
(***************************************************************************)
(* One connection as the probe sees it: ConnectionReconstructor in         *)
(* agent_probe/llm/reconstruct.py, which composes two Http1Parsers, one    *)
(* for each direction, and a queue of the requests still without a         *)
(* response.  Fragments of the two directions arrive in any sizes and in   *)
(* any interleaving the dialogue allows, and the connection may close      *)
(* after any byte.                                                         *)
(*                                                                         *)
(* A dialogue (Dialogues[name]) is what the two peers would send if the connection stayed    *)
(* open: for each direction the bytes, the positions (ends) at which a     *)
(* message ends that the parser has to deliver, and for each byte how many *)
(* bytes of the other direction have been captured before it.              *)
(*                                                                         *)
(* The constructor's retry registry and price table are absent, as they    *)
(* are by default: a record is its request and its response.               *)
(***************************************************************************)
EXTENDS Naturals, Sequences, FiniteSets

CONSTANTS
  Dialogues,
  MaxHeader, MaxChunkLine, MaxTrailer, MaxBody, MaxPending   \* ParserLimits

(* ParserLimits.__post_init__ accepts positive integers only.              *)
ASSUME LimitAssumption ==
  \A limit \in {MaxHeader, MaxChunkLine, MaxTrailer, MaxBody, MaxPending} :
    limit \in Nat \ {0}

VARIABLES
  dialogue,   \* which dialogue the peers have: never changes
  fed,        \* bytes fed so far, by direction
  client,     \* _request_parser
  server,     \* _response_parser
  pending,    \* _pending: messages, oldest first
  records,    \* _records: what each says was asked and answered
  emitted,    \* history: the messages handled, by direction
  phase       \* where finish() is: "open" before it is called

vars == <<dialogue, fed, client, server, pending, records, emitted, phase>>

Req  == INSTANCE Http1Parser WITH IsRequest <- TRUE,  p <- client
Resp == INSTANCE Http1Parser WITH IsRequest <- FALSE, p <- server

(* What one peer sends.                                                    *)
Wires == [bytes : Seq(Req!Byte), ends : SUBSET Nat, after : Seq(Nat)]
ASSUME DialogueAssumption ==
  \A name \in DOMAIN Dialogues : Dialogues[name] \in [client : Wires, server : Wires]

Talk == Dialogues[dialogue]

None == [none |-> TRUE]   \* in place of a request or a response: none captured

Record == [request : Req!Message \cup {None}, response : Resp!Message \cup {None}]

(* Types, and the bound of the response parser's queue of methods          *)
(* (register_request); the request parser's stays empty.                   *)
TypeOK ==
  /\ dialogue \in DOMAIN Dialogues
  /\ fed \in [client : 0..Len(Talk.client.bytes), server : 0..Len(Talk.server.bytes)]
  /\ client \in Req!Parser /\ client.methods = <<>>
  /\ server \in Resp!Parser /\ Len(server.methods) <= MaxPending
  /\ pending \in Seq(Req!Message)
  /\ records \in Seq(Record)
  /\ emitted \in [client : Seq(Req!Message), server : Seq(Resp!Message)]
  /\ phase \in {"open", "ending_client", "ending_server", "closed"}

-----------------------------------------------------------------------------
Init ==
  /\ dialogue \in DOMAIN Dialogues
  /\ fed = [client |-> 0, server |-> 0]
  /\ client = Req!NewParser /\ server = Resp!NewParser
  /\ pending = <<>> /\ records = <<>>
  /\ emitted = [client |-> <<>>, server |-> <<>>]
  /\ phase = "open"

(* A call returns once its parser has stopped and its batch is handled.    *)
Returned(parser) == ~parser.run /\ parser.batch = <<>>
Quiet == Returned(client) /\ Returned(server)

FeedRequest ==
  /\ phase = "open" /\ Quiet
  /\ \E to \in (fed.client + 1)..Len(Talk.client.bytes) :
       /\ \A i \in (fed.client + 1)..to : Talk.client.after[i] <= fed.server
       /\ client' = Req!Feed(client, SubSeq(Talk.client.bytes, fed.client + 1, to))
       /\ fed' = [fed EXCEPT !.client = to]
  /\ UNCHANGED <<dialogue, server, pending, records, emitted, phase>>

FeedResponse ==
  /\ phase = "open" /\ Quiet
  /\ \E to \in (fed.server + 1)..Len(Talk.server.bytes) :
       /\ \A i \in (fed.server + 1)..to : Talk.server.after[i] <= fed.client
       /\ server' = Resp!Feed(server, SubSeq(Talk.server.bytes, fed.server + 1, to))
       /\ fed' = [fed EXCEPT !.server = to]
  /\ UNCHANGED <<dialogue, client, pending, records, emitted, phase>>

ParseRequest ==
  /\ Req!Advance
  /\ UNCHANGED <<dialogue, fed, server, pending, records, emitted, phase>>

ParseResponse ==
  /\ Resp!Advance
  /\ UNCHANGED <<dialogue, fed, client, pending, records, emitted, phase>>

(* _handle_message of the messages of a batch, in order.                   *)
HandleRequest ==
  /\ ~client.run /\ client.batch # <<>>
  /\ LET m == Head(client.batch) IN
       /\ client' = [client EXCEPT !.batch = Tail(@)]
       /\ pending' = Append(pending, m)
       /\ server' = Resp!Register(server, m.head.method)
       /\ emitted' = [emitted EXCEPT !.client = Append(@, m)]
  /\ UNCHANGED <<dialogue, fed, records, phase>>

HandleAnyResponse ==                     \* broken: a 1xx response takes a request
  /\ ~server.run /\ server.batch # <<>>
  /\ LET m == Head(server.batch) IN
       /\ server' = [server EXCEPT !.batch = Tail(@)]
       /\ emitted' = [emitted EXCEPT !.server = Append(@, m)]
       /\ pending' = IF pending = <<>> THEN <<>> ELSE Tail(pending)
       /\ records' = Append(records, [request |-> IF pending = <<>> THEN None ELSE Head(pending),
                                      response |-> m])
  /\ UNCHANGED <<dialogue, fed, client, phase>>

HandleResponse ==
  /\ ~server.run /\ server.batch # <<>>
  /\ LET m == Head(server.batch) IN
       /\ server' = [server EXCEPT !.batch = Tail(@)]
       /\ emitted' = [emitted EXCEPT !.server = Append(@, m)]
       /\ \/ /\ m.head.status = "info"
             /\ UNCHANGED <<pending, records>>
          \/ /\ m.head.status # "info" /\ pending # <<>>
             /\ pending' = Tail(pending)
             /\ records' = Append(records, [request |-> Head(pending), response |-> m])
          \/ /\ m.head.status # "info" /\ pending = <<>>
             /\ records' = Append(records, [request |-> None, response |-> m])
             /\ UNCHANGED pending
  /\ UNCHANGED <<dialogue, fed, client, phase>>

(* finish(): the request parser, then the response parser, then the        *)
(* requests left without a response.                                       *)
Finish ==
  /\ phase = "open" /\ Quiet
  /\ phase' = "ending_client"
  /\ client' = Req!Finish(client)
  /\ UNCHANGED <<dialogue, fed, server, pending, records, emitted>>

FinishResponses ==
  /\ phase = "ending_client" /\ Quiet
  /\ phase' = "ending_server"
  /\ server' = Resp!Finish(server)
  /\ UNCHANGED <<dialogue, fed, client, pending, records, emitted>>

FlushForgetting ==                       \* broken: the requests left are dropped
  /\ phase = "ending_server" /\ Quiet
  /\ phase' = "closed"
  /\ pending' = <<>>
  /\ UNCHANGED <<dialogue, fed, client, server, records, emitted>>

Flush ==
  /\ phase = "ending_server" /\ Quiet
  /\ phase' = "closed"
  /\ pending' = <<>>
  /\ records' = records \o [i \in 1..Len(pending) |-> [request |-> pending[i], response |-> None]]
  /\ UNCHANGED <<dialogue, fed, client, server, emitted>>

Next ==
  \/ FeedRequest \/ FeedResponse
  \/ ParseRequest \/ ParseResponse
  \/ HandleRequest \/ HandleResponse
  \/ Finish \/ FinishResponses \/ Flush

(* A call runs to its end: the loop of _run, the batch and finish() are    *)
(* straight code.  Nothing makes a peer send or close.                     *)
Fairness ==
  /\ WF_vars(ParseRequest) /\ WF_vars(ParseResponse)
  /\ WF_vars(HandleRequest) /\ WF_vars(HandleResponse)
  /\ WF_vars(FinishResponses) /\ WF_vars(Flush)

Spec == Init /\ [][Next]_vars /\ Fairness

-----------------------------------------------------------------------------
(* Properties.                                                             *)

(* The response parser's view of the requests is whole: no method was      *)
(* dropped from its bounded queue (reported as dropped_request_contexts).  *)
MethodsKept == server.dropped = 0

(* A body that only the close ends is as long as what came before it.      *)
IsNumbered(messages) ==
  \A i \in 1..Len(messages) :
     /\ messages[i].head.num = i
     /\ messages[i].complete /\ messages[i].head.framing # "none" =>
          messages[i].got = messages[i].head.body

(* Framing follows message boundaries (_run): whatever the fragments, each *)
(* direction yields the messages its peer sent, in the order sent, none    *)
(* twice, none skipped, and a complete message took exactly the bytes of   *)
(* its own body.                                                           *)
Framed ==
  /\ IsNumbered(emitted.client)
  /\ MethodsKept => IsNumbered(emitted.server)

Complete(messages) == {i \in 1..Len(messages) : messages[i].complete}

(* Nothing that has arrived is held back or refused (feed): between calls, *)
(* the complete messages of an open connection are those whose last byte   *)
(* has been fed, even when fragments cut a head, an empty line, a chunk    *)
(* size or a CRLF in two.                                                  *)
Prompt ==
  Quiet /\ phase = "open" =>
    /\ Cardinality(Complete(emitted.client))
         = Cardinality({e \in Talk.client.ends : e <= fed.client})
    /\ MethodsKept => Cardinality(Complete(emitted.server))
                        = Cardinality({e \in Talk.server.ends : e <= fed.server})

(* Fragments do not matter: the messages are the peers', at once, and the  *)
(* queue of methods stays bounded on the way.                              *)
FramedPromptly == TypeOK /\ Framed /\ Prompt

(* A record that has a request and a response pairs a response with the    *)
(* request it answers (_handle_message): the exchanges of one connection   *)
(* are not mixed up.                                                       *)
PairedRight ==
  MethodsKept =>
    \A i \in 1..Len(records) :
       LET r == records[i] IN
       r.request # None /\ r.response # None => r.response.head.answers = r.request.head.num

Honest(m) ==
  /\ m.kept <= MaxBody
  /\ ~m.truncated => m.kept = m.got

(* A payload is what it says (_append_body, payload_truncated): within the *)
(* limit, and all of the body that arrived unless it is marked as cut.     *)
PayloadHonest ==
  \A d \in {"client", "server"} : \A i \in 1..Len(emitted[d]) : Honest(emitted[d][i])

(* The sequence s without its Nones.                                       *)
Captured(s) ==
  LET kept[n \in 0..Len(s)] ==
        IF n = 0 THEN <<>>
        ELSE IF s[n] = None THEN kept[n-1] ELSE Append(kept[n-1], s[n])
  IN  kept[Len(s)]

Requests  == Captured([i \in 1..Len(records) |-> records[i].request])
Responses == Captured([i \in 1..Len(records) |-> records[i].response])
Finals(messages) ==
  Captured([i \in 1..Len(messages) |->
              IF messages[i].head.status = "info" THEN None ELSE messages[i]])

(* No exchange is lost or invented (_handle_message, finish): the requests *)
(* handled are, in order, those of the records followed by those that      *)
(* wait, the final responses handled are those of the records, and none    *)
(* waits once the connection has closed.                                   *)
EveryExchangeRecorded ==
  /\ emitted.client = Requests \o pending
  /\ Finals(emitted.server) = Responses
  /\ phase = "closed" => pending = <<>>

(* A call returns (_run, finish): no input makes the parser's loop turn    *)
(* forever or leaves finish() half-way.                                    *)
CallsReturn ==
  /\ client.run ~> ~client.run
  /\ server.run ~> ~server.run
  /\ phase # "open" ~> phase = "closed"
=============================================================================
