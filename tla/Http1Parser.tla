---------------------------- MODULE Http1Parser ----------------------------
(***************************************************************************)
(* The incremental HTTP/1.1 parser of one direction of a connection:       *)
(* Http1Parser in agent_probe/llm/http1.py.  feed() appends a fragment to  *)
(* the buffer and runs the loop of _run, one iteration per step here,      *)
(* until an iteration makes no progress; finish() runs it once more with   *)
(* eof.                                                                    *)
(*                                                                         *)
(* Data abstraction.  A byte is one of: the first and the second half of a *)
(* start line ("s1" carries what the head says, "s2"), CR, LF, a chunk     *)
(* size, a body byte, and "x" for any other byte of a header, a chunk      *)
(* extension or a trailer.  Decoding of the body and diagnostics other     *)
(* than the failure are left out, and so is the HTTP/2 preface, whose      *)
(* parser fails like one that reads a malformed start line.                *)
(***************************************************************************)
EXTENDS Naturals, Sequences

CONSTANTS
  IsRequest,      (* is_request_direction                                  *)
  MaxHeader,      (* max_header_bytes                                      *)
  MaxChunkLine,   (* max_chunk_line_bytes                                  *)
  MaxTrailer,     (* max_trailer_bytes                                     *)
  MaxBody,        (* max_body_bytes                                        *)
  MaxPending      (* max_pending_requests                                  *)

VARIABLE p   (* the parser: a record, see NewParser                        *)

States == {"start", "fixed_body", "chunk_size", "chunk_data", "chunk_data_crlf",
           "chunk_trailer", "eof_body", "failed"}

Methods == {"GET", "HEAD", "CONNECT"}

(* What a head says.  num is the message's place among those its sender    *)
(* sent, answers that of the request it answers, body the length of its    *)
(* body on the wire: the parser reads none of the three.  fault is the     *)
(* first thing about the head that the parser rejects.                     *)
Heading == [num : Nat, answers : Nat, body : Nat,
            method  : Methods,
            status  : {"info", "ok", "nobody", "error"},
            framing : {"none", "length", "chunked"},
            length  : Nat,
            fault   : {"none", "start", "headers", "coding", "length"}]
NoHead == [num |-> 0, answers |-> 0, body |-> 0, method |-> "GET", status |-> "ok",
           framing |-> "none", length |-> 0, fault |-> "none"]

Byte == [k : {"s1", "s2", "x", "cr", "lf", "size", "data"}, head : Heading, n : Nat]

(* _PendingMessage                                                         *)
Draft == [head : Heading, method : Methods \cup {"unknown"},
          remaining : Nat, got : Nat, kept : Nat, truncated : BOOLEAN, trailer : Nat]
NewDraft == [head |-> NoHead, method |-> "unknown", remaining |-> 0, got |-> 0,
             kept |-> 0, truncated |-> FALSE, trailer |-> 0]

Message == [head : Heading, complete : BOOLEAN, got : Nat, kept : Nat, truncated : BOOLEAN]

Parser == [buf : Seq(Byte), scan : Nat, state : States, draft : Draft, eof : BOOLEAN,
           run : BOOLEAN, batch : Seq(Message), methods : Seq(Methods), dropped : Nat]

NewParser == [buf |-> <<>>, scan |-> 0, state |-> "start", draft |-> NewDraft, eof |-> FALSE,
              run |-> FALSE, batch |-> <<>>, methods |-> <<>>, dropped |-> 0]

-----------------------------------------------------------------------------
(* The calls: what they make of parser q.                                  *)

Feed(q, bytes) ==
  IF q.state = "failed" THEN q ELSE [q EXCEPT !.buf = @ \o bytes, !.run = TRUE]

Finish(q) == [q EXCEPT !.eof = TRUE, !.run = (q.state # "failed")]

(* register_request: a full deque drops its oldest method.                 *)
Register(q, method) ==
  IF Len(q.methods) = MaxPending
  THEN [q EXCEPT !.methods = Append(Tail(@), method), !.dropped = @ + 1]
  ELSE [q EXCEPT !.methods = Append(@, method)]

-----------------------------------------------------------------------------
(* Positions in the buffer.                                                *)
At(b, i, kinds) ==
  /\ i + Len(kinds) <= Len(b)
  /\ \A j \in 1..Len(kinds) : b[i + j].k = kinds[j]

CRLF == <<"cr", "lf">>
LF   == <<"lf">>
StartsWithEmptyLine(b) == At(b, 0, CRLF) \/ At(b, 0, LF)

(* _find_header_end: the length of the head that an empty line ends,       *)
(* searched from where the last search gave up; ScanFrom is that place.    *)
EmptyLineAt(b, i) == At(b, i, <<"cr", "lf", "cr", "lf">>) \/ At(b, i, <<"lf", "lf">>)
HeadEnded(q) == \E i \in q.scan..Len(q.buf) : EmptyLineAt(q.buf, i)
HeadEnd(q)   == CHOOSE i \in q.scan..Len(q.buf) :
                  /\ EmptyLineAt(q.buf, i)
                  /\ \A j \in q.scan..(i - 1) : ~EmptyLineAt(q.buf, j)

ScanFromTheEnd(b) == Len(b)                     \* broken: a split empty line is missed
ScanFrom(b)       == IF Len(b) > 3 THEN Len(b) - 3 ELSE 0

(* _find_line: the line without its terminator, and with it.               *)
HasLine(b) == \E i \in 1..Len(b) : b[i].k = "lf"
LineLen(b) == CHOOSE i \in 1..Len(b) : b[i].k = "lf" /\ \A j \in 1..(i - 1) : b[j].k # "lf"
RawLine(b) ==
  LET i == LineLen(b) - 1
  IN  SubSeq(b, 1, IF i > 0 /\ b[i].k = "cr" THEN i - 1 ELSE i)

Consume(q, n) == [q EXCEPT !.buf = SubSeq(@, n + 1, Len(@))]

-----------------------------------------------------------------------------
(* The end of a message: _finalize, and _fail, which may emit what it has. *)
MessageOf(draft, complete) ==
  [head |-> draft.head, complete |-> complete, got |-> draft.got,
   kept |-> draft.kept, truncated |-> draft.truncated]

Finalize(q, complete) ==
  [q EXCEPT !.batch = Append(@, MessageOf(q.draft, complete)),
            !.draft = NewDraft, !.state = "start"]

Fail(q, emit) ==
  [q EXCEPT !.batch = IF emit THEN Append(@, MessageOf(q.draft, FALSE)) ELSE @,
            !.draft = NewDraft, !.state = "failed", !.buf = <<>>]

(* _append_body                                                            *)
AppendBodyUnmarked(q, n) ==                    \* broken: the cut is not marked
  [q EXCEPT !.draft.got = @ + n,
            !.draft.kept = IF @ + n > MaxBody THEN MaxBody ELSE @ + n]

AppendBody(q, n) ==
  LET cut == q.draft.kept + n > MaxBody IN
  IF q.draft.truncated THEN [q EXCEPT !.draft.got = @ + n]
  ELSE [q EXCEPT !.draft.got = @ + n, !.draft.truncated = cut,
                 !.draft.kept = IF cut THEN MaxBody ELSE @ + n]

-----------------------------------------------------------------------------
(* _plan_body: how the message is framed whose head has been read.         *)
NoBody(draft) ==
  IF IsRequest THEN draft.head.framing = "none"
  ELSE draft.head.status \in {"info", "nobody"} \/ draft.method = "HEAD"

PlanBodyByHeadersOnly(q) ==                    \* broken: the method is not used
  CASE q.draft.head.framing = "chunked" -> [q EXCEPT !.state = "chunk_size"]
    [] q.draft.head.framing = "length" ->
         [q EXCEPT !.state = "fixed_body", !.draft.remaining = q.draft.head.length]
    [] OTHER -> Finalize(q, TRUE)

PlanBody(q) ==
  LET h == q.draft.head IN
  CASE NoBody(q.draft) -> Finalize(q, TRUE)
    [] ~IsRequest /\ q.draft.method = "CONNECT" /\ h.status = "ok" ->
         [Finalize(q, TRUE) EXCEPT !.state = "failed", !.buf = <<>>]
    [] OTHER ->
         CASE h.framing = "chunked" -> [q EXCEPT !.state = "chunk_size"]
           [] h.framing = "length" ->
                [q EXCEPT !.state = "fixed_body", !.draft.remaining = h.length]
           [] OTHER -> [q EXCEPT !.state = "eof_body"]

(* _parse_head of a block that was consumed.  A response that is not       *)
(* informational takes the oldest method, whatever its headers are.  The   *)
(* head of a stream that ended in it is emitted, incomplete.               *)
ParseHead(q, block, terminated) ==
  LET h      == block[1].head
      takes  == ~IsRequest /\ h.status # "info" /\ q.methods # <<>>
      parsed == [q EXCEPT
                   !.draft.head = h,
                   !.draft.method = IF takes THEN Head(q.methods) ELSE @,
                   !.methods = IF takes THEN Tail(@) ELSE @]
  IN  CASE ~At(block, 0, <<"s1", "s2">>) \/ h.fault = "start" -> Fail(q, FALSE)
        [] OTHER ->
             CASE h.fault = "headers" -> Fail(parsed, TRUE)
               [] h.fault # "headers" /\ ~terminated -> Finalize(parsed, FALSE)
               [] h.fault \in {"coding", "length"} /\ terminated ->
                    Fail(parsed, h.fault = "coding")
               [] OTHER -> PlanBody(parsed)

-----------------------------------------------------------------------------
(* One iteration of _run in each state.                                    *)
In(state) == p.run /\ p.state = state

(* _skip_empty_lines, one line.                                            *)
SkipEmptyLine ==
  /\ In("start")
  /\ StartsWithEmptyLine(p.buf)
  /\ p' = Consume(p, IF At(p.buf, 0, LF) THEN 1 ELSE 2)

AdvanceHead ==
  /\ In("start")
  /\ p.buf # <<>> /\ ~StartsWithEmptyLine(p.buf)
  /\ HeadEnded(p)
  /\ LET i == HeadEnd(p) IN
       p' = IF i > MaxHeader THEN Fail(p, FALSE)
            ELSE ParseHead([Consume(p, i + IF At(p.buf, i, LF) THEN 2 ELSE 4) EXCEPT !.scan = 0],
                           SubSeq(p.buf, 1, i), TRUE)

HeadTooLarge ==
  /\ In("start") /\ ~p.eof
  /\ ~StartsWithEmptyLine(p.buf)
  /\ ~HeadEnded(p) /\ Len(p.buf) > MaxHeader
  /\ p' = Fail(p, FALSE)

HeadAtEof ==
  /\ In("start") /\ p.eof
  /\ p.buf # <<>> /\ ~StartsWithEmptyLine(p.buf)
  /\ ~HeadEnded(p)
  /\ p' = [ParseHead(Consume(p, Len(p.buf)), p.buf, FALSE) EXCEPT !.run = FALSE]

Taken(q) ==
  LET n == IF q.draft.remaining < Len(q.buf) THEN q.draft.remaining ELSE Len(q.buf)
  IN  [AppendBody(Consume(q, n), n) EXCEPT !.draft.remaining = @ - n]

AdvanceFixedBody ==
  /\ In("fixed_body")
  /\ p.buf # <<>> \/ p.draft.remaining = 0
  /\ p' = IF Taken(p).draft.remaining = 0 THEN Finalize(Taken(p), TRUE) ELSE Taken(p)

AdvanceChunkSize ==
  /\ In("chunk_size")
  /\ HasLine(p.buf)
  /\ LET raw == RawLine(p.buf)
         q   == Consume(p, LineLen(p.buf))
         n   == raw[1].n
     IN p' = CASE Len(raw) > MaxChunkLine -> Fail(q, TRUE)
               [] Len(raw) <= MaxChunkLine /\ ~At(raw, 0, <<"size">>) -> Fail(q, TRUE)
               [] OTHER ->
                    IF n = 0 THEN [q EXCEPT !.state = "chunk_trailer", !.draft.remaining = 0]
                    ELSE [q EXCEPT !.state = "chunk_data", !.draft.remaining = n,
                                   !.draft.truncated = @ \/ n > MaxBody]

AdvanceChunkData ==
  /\ In("chunk_data")
  /\ p.buf # <<>>
  /\ p' = IF Taken(p).draft.remaining = 0
          THEN [Taken(p) EXCEPT !.state = "chunk_data_crlf"] ELSE Taken(p)

AdvanceChunkDataCrlf ==
  /\ In("chunk_data_crlf")
  /\ p.buf # <<>> /\ ~(Len(p.buf) = 1 /\ p.buf[1].k = "cr")
  /\ p' = IF StartsWithEmptyLine(p.buf)
          THEN [Consume(p, IF At(p.buf, 0, LF) THEN 1 ELSE 2) EXCEPT !.state = "chunk_size"]
          ELSE Fail(p, TRUE)

AdvanceChunkTrailerKeeping ==                  \* broken: a trailer line is not consumed
  /\ In("chunk_trailer")
  /\ HasLine(p.buf)
  /\ p' = IF RawLine(p.buf) = <<>> THEN Finalize(Consume(p, LineLen(p.buf)), TRUE)
          ELSE p

AdvanceChunkTrailer ==
  /\ In("chunk_trailer")
  /\ HasLine(p.buf)
  /\ LET raw  == RawLine(p.buf)
         size == LineLen(p.buf)
         q    == [Consume(p, size) EXCEPT !.draft.trailer = @ + size]
     IN p' = CASE raw = <<>> -> Finalize(q, TRUE)
               [] raw # <<>> /\ (q.draft.trailer > MaxTrailer \/ Len(raw) > MaxHeader) ->
                    Fail(q, TRUE)
               [] OTHER -> q

(* A line that does not end within its limit.                              *)
LineTooLarge ==
  /\ \/ In("chunk_size") /\ Len(p.buf) > MaxChunkLine
     \/ In("chunk_trailer") /\ Len(p.buf) > MaxTrailer
  /\ ~HasLine(p.buf)
  /\ p' = Fail(p, TRUE)

AdvanceEofBody ==
  /\ In("eof_body")
  /\ p.buf # <<>>
  /\ p' = AppendBody(Consume(p, Len(p.buf)), Len(p.buf))

(* The iteration makes no progress: the loop returns.  With eof, a body    *)
(* delimited by the close is complete, and any other is cut short.         *)
Starved ==
  CASE p.state = "start" ->
         \/ p.buf = <<>>
         \/ ~StartsWithEmptyLine(p.buf) /\ ~HeadEnded(p) /\ Len(p.buf) <= MaxHeader /\ ~p.eof
    [] p.state = "fixed_body" -> p.buf = <<>> /\ p.draft.remaining > 0
    [] p.state = "chunk_size" -> ~HasLine(p.buf) /\ Len(p.buf) <= MaxChunkLine
    [] p.state = "chunk_trailer" -> ~HasLine(p.buf) /\ Len(p.buf) <= MaxTrailer
    [] p.state = "chunk_data_crlf" -> p.buf = <<>> \/ (Len(p.buf) = 1 /\ p.buf[1].k = "cr")
    [] p.state \in {"chunk_data", "eof_body"} -> p.buf = <<>>
    [] p.state = "failed" -> TRUE

Stop ==
  /\ p.run /\ Starved
  /\ p' = [IF p.eof /\ p.state \notin {"start", "failed"}
           THEN Finalize(p, p.state = "eof_body") ELSE p
           EXCEPT !.run = FALSE,
                  !.scan = IF p.state = "start" /\ p.buf # <<>> THEN ScanFrom(p.buf) ELSE @]

Advance ==
  \/ SkipEmptyLine \/ AdvanceHead \/ HeadTooLarge \/ HeadAtEof
  \/ AdvanceFixedBody
  \/ AdvanceChunkSize \/ AdvanceChunkData \/ AdvanceChunkDataCrlf \/ AdvanceChunkTrailer
  \/ LineTooLarge
  \/ AdvanceEofBody
  \/ Stop
=============================================================================
