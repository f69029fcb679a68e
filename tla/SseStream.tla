----------------------------- MODULE SseStream ------------------------------
(***************************************************************************)
(* The incremental SSE decoder of agent_probe/llm/sse.py, and what         *)
(* analyze_payload (completion.py) and extract_usage_from_sse_events       *)
(* (usage.py) conclude from its events.  A body arrives in fragments cut   *)
(* anywhere and the stream may end anywhere, with the HTTP layer knowing   *)
(* that something is missing or not.  A body may also be a single JSON     *)
(* document, which needs no decoder, or one that cannot be read at all.    *)
(*                                                                         *)
(* Data abstraction.  A byte is a symbol.  "data:", "event:", "id:" and    *)
(* "retry:" stand for a field name with its separator, ":" begins a        *)
(* comment, every other symbol is content, of which Continuation begins no *)
(* character of the decoded text; Json says which contents are a JSON      *)
(* object and what the analysis finds in it; Documents does so for whole   *)
(* bodies.  A value of retry: that isdigit() and int() understand          *)
(* differently, like a superscript, is left out.                           *)
(***************************************************************************)
EXTENDS Integers, Sequences, FiniteSets, SequencesExt

CONSTANTS
  Bodies,         (* the event streams, sequences of symbols               *)
  JsonBodies,     (* the other response bodies                             *)
  Documents,      (* [text -> [object, containers]]: the texts that are    *)
                  (* JSON                                                  *)
  Json,           (* [text -> [terminal, finish, containers]]: the texts   *)
                  (* that are JSON objects                                 *)
  Braces,         (* symbols a text that looks like JSON begins with       *)
  Digits,         (* symbols that are a number                             *)
  Continuation,   (* symbols that are a further byte of a UTF-8 character  *)
  MaxEventBytes, MaxDataLines,  (* SseLimits                               *)
  MaxFragment,    (* bound: bytes of one feed                              *)
  Null, Prices

ASSUME LimitsAssumption ==
  MaxEventBytes \in Nat \ {0} /\ MaxDataLines \in Nat \ {0} /\ MaxFragment \in Nat \ {0}

ASSUME BodiesAssumption == Bodies \cup JsonBodies \subseteq Seq(STRING)

VARIABLES
  stream,    (* is_event_stream                                            *)
  body,      (* what the provider sends                                    *)
  pos,       (* how much of it has been fed                                *)
  decoder,   (* SseParser: buf, scan, dataLines, event, id, retry,         *)
             (* pending, bomChecked, failed                                *)
  events,    (* the events feed and finish returned, in order              *)
  finished,  (* _finished                                                  *)
  analysis,  (* PayloadAnalysis, once finished                             *)
  widest     (* history: most bytes one feed brought                       *)

sseVars == <<stream, body, pos, decoder, events, finished, analysis, widest>>

U == INSTANCE UsagePricing

Terminators == {"CR", "LF"}

-----------------------------------------------------------------------------
(* Lines                                                                   *)

(* _next_line: the search resumes at scan; a CR at the very end waits for  *)
(* what follows it, unless the stream is over.                             *)
Line(d, length, consumed) ==
  [found |-> TRUE, line |-> SubSeq(d.buf, 1, length), consumed |-> consumed]

NoLine(scan) == [found |-> FALSE, scan |-> scan]

NextLineEagerly(d, final) ==                 \* broken: a CR never waits
  LET ends == {i \in (d.scan + 1)..Len(d.buf) : d.buf[i] \in Terminators}
      i == Min(ends)
  IN  IF ends = {} THEN NoLine(Len(d.buf))
      ELSE IF d.buf[i] = "CR" /\ i < Len(d.buf) /\ d.buf[i+1] = "LF"
           THEN Line(d, i - 1, i + 1)
           ELSE Line(d, i - 1, i)

NextLine(d, final) ==
  LET ends == {i \in (d.scan + 1)..Len(d.buf) : d.buf[i] \in Terminators}
      i == Min(ends)
  IN  IF ends = {} THEN NoLine(Len(d.buf))
      ELSE IF d.buf[i] = "CR" /\ i = Len(d.buf) /\ ~final THEN NoLine(i - 1)
      ELSE IF d.buf[i] = "CR" /\ i < Len(d.buf) /\ d.buf[i+1] = "LF"
           THEN Line(d, i - 1, i + 1)
           ELSE Line(d, i - 1, i)

Consume(d, n) == [d EXCEPT !.buf = SubSeq(d.buf, n + 1, Len(d.buf)), !.scan = 0]

(* _check_size, which also looks at the bytes behind the current line.     *)
TooLargeByLines(d) ==                        \* broken: bytes of an event unlimited
  Len(d.dataLines) > MaxDataLines \/ Len(d.buf) > MaxEventBytes

TooLarge(d) ==
  \/ Len(d.dataLines) > MaxDataLines
  \/ d.pending > MaxEventBytes
  \/ Len(d.buf) > MaxEventBytes

CheckSize(d) ==
  IF d.failed \/ ~TooLarge(d) THEN d
  ELSE [d EXCEPT !.failed = TRUE, !.buf = <<>>, !.dataLines = <<>>, !.pending = 0]

(* An event's text: the data lines joined, white space being no symbol.    *)
Text(data) == FlattenSeq(data)

IsDone(e) == Text(e.data) = <<"[DONE]">>

(* _dispatch on an empty line: the event the data lines make, if any.      *)
Dispatch(d) ==
  IF d.dataLines = <<>> THEN [d EXCEPT !.event = Null]
  ELSE [d EXCEPT !.dataLines = <<>>, !.event = Null, !.pending = 0]

Dispatched(d) ==
  IF d.dataLines = <<>> THEN <<>>
  ELSE <<[data |-> d.dataLines, event |-> d.event, id |-> d.id, retry |-> d.retry]>>

(* len(value): the characters of a value, not its bytes.                   *)
Chars(value) == Cardinality({i \in DOMAIN value : value[i] \notin Continuation})

(* _process_line on a line that is neither empty nor a comment.            *)
Field(d, line) ==
  LET value == Tail(line)
  IN  CASE line[1] = "data:" ->
             [d EXCEPT !.dataLines = Append(@, value), !.pending = @ + Chars(value) + 1]
        [] line[1] = "event:" -> [d EXCEPT !.event = value]
        [] line[1] = "id:" /\ "NUL" \notin ToSet(value) -> [d EXCEPT !.id = value]
        [] line[1] = "retry:" /\ value # <<>> /\ ToSet(value) \subseteq Digits ->
             [d EXCEPT !.retry = value]
        [] OTHER -> d

WithoutBom(d, line) ==
  IF ~d.bomChecked /\ line # <<>> /\ line[1] = "BOM" THEN Tail(line) ELSE line

(* One round of _drain: the next line consumed and processed.              *)
Round(r, found) ==
  LET d == [Consume(r.decoder, found.consumed) EXCEPT !.bomChecked = TRUE]
      line == WithoutBom(r.decoder, found.line)
  IN  CASE line = <<>> -> [decoder |-> Dispatch(d), events |-> r.events \o Dispatched(d)]
        [] line # <<>> /\ line[1] = ":" -> [r EXCEPT !.decoder = d]
        [] OTHER -> [r EXCEPT !.decoder = CheckSize(Field(d, line))]

(* _drain, to the line that is missing or the failure; every round         *)
(* consumes a byte.                                                        *)
Drain(decoder0, final) ==
  LET run[k \in 0..Len(decoder0.buf)] ==
        IF k = 0 THEN [decoder |-> decoder0, events |-> <<>>]
        ELSE LET r == run[k-1]
                 found == NextLine(r.decoder, final)
             IN  IF r.decoder.failed THEN r
                 ELSE IF found.found THEN Round(r, found)
                 ELSE [r EXCEPT !.decoder.scan = found.scan]
      last == run[Len(decoder0.buf)]
  IN  [last EXCEPT !.decoder = CheckSize(@)]

-----------------------------------------------------------------------------
(* What the events say                                                     *)

(* An event whose text is a JSON object; [DONE] is none.                   *)
LooksLikeJson(e) == ~IsDone(e) /\ Text(e.data) # <<>> /\ Text(e.data)[1] \in Braces

HoldsObject(e) == LooksLikeJson(e) /\ Text(e.data) \in DOMAIN Json

ContainersOf(e) == IF HoldsObject(e) THEN Json[Text(e.data)].containers ELSE <<>>

Containers(evs) == FlattenSeq([i \in DOMAIN evs |-> ContainersOf(evs[i])])

Unparseable(evs) ==
  /\ \E i \in DOMAIN evs : LooksLikeJson(evs[i])
  /\ \A i \in DOMAIN evs : ~HoldsObject(evs[i])

(* The stream's own end marker: [DONE], or a terminal event by its name or *)
(* by the type of its object.                                              *)
ExplicitEnd(evs) ==
  \E i \in DOMAIN evs :
    \/ IsDone(evs[i])
    \/ evs[i].event = <<"message_stop">>
    \/ HoldsObject(evs[i]) /\ Json[Text(evs[i].data)].terminal

FinishReason(evs) ==
  \E i \in DOMAIN evs : HoldsObject(evs[i]) /\ Json[Text(evs[i].data)].finish

(* What finish reports as truncated: a failure, or bytes of no event.      *)
Leftover(d) == d.failed \/ d.buf # <<>> \/ d.dataLines # <<>>

VerdictByReason(evs, truncated) ==           \* broken: a finish reason outweighs a cut
  CASE ExplicitEnd(evs) \/ FinishReason(evs) -> "complete"
    [] ~ExplicitEnd(evs) /\ ~FinishReason(evs) /\ truncated -> "truncated"
    [] OTHER -> "unknown"

Verdict(evs, truncated) ==
  CASE ExplicitEnd(evs) -> "complete"
    [] ~ExplicitEnd(evs) /\ truncated -> "truncated"
    [] ~ExplicitEnd(evs) /\ ~truncated /\ FinishReason(evs) -> "complete"
    [] OTHER -> "unknown"

AnalyzeIgnoringCut(evs, cut, leftover) ==    \* broken: the cut is not passed on
  [cut |-> cut,
   completion |-> Verdict(evs, cut \/ leftover),
   usage |-> U!Merged(Containers(evs)),
   status |-> U!UsageStatus(Containers(evs), FALSE, Unparseable(evs))]

(* cut: the HTTP message is incomplete; leftover: the decoder says so.     *)
Analyze(evs, cut, leftover) ==
  [cut |-> cut,
   completion |-> Verdict(evs, cut \/ leftover),
   usage |-> U!Merged(Containers(evs)),
   status |-> U!UsageStatus(Containers(evs), cut \/ leftover, Unparseable(evs))]

(* analyze_payload and extract_usage_from_message on a body that is no     *)
(* stream: an object is complete as soon as nothing is known to be cut,    *)
(* finish reason or not.                                                   *)
IsObject(text) == text \in DOMAIN Documents /\ Documents[text].object

(* The braces of an object close with its last byte.                       *)
ASSUME ObjectsAssumption ==
  \A b \in JsonBodies : \A n \in 0..(Len(b) - 1) : ~IsObject(SubSeq(b, 1, n))

AnalyzeDocument(text, cut) ==
  LET containers == IF IsObject(text) THEN Documents[text].containers ELSE <<>>
  IN  [cut |-> cut,
       completion |-> CASE IsObject(text) -> IF cut THEN "truncated" ELSE "complete"
                        [] text \in DOMAIN Documents /\ ~IsObject(text) -> "unknown"
                        [] OTHER -> IF cut THEN "truncated" ELSE "unknown",
       usage |-> U!Merged(containers),
       status |-> U!UsageStatus(containers, cut /\ ~IsObject(text), ~IsObject(text))]

(* The same on a body that cannot be read, its encoding being unknown.     *)
AnalyzeNothing(cut) ==
  [cut |-> cut, completion |-> IF cut THEN "truncated" ELSE "unknown",
   usage |-> <<>>, status |-> "not_captured"]

-----------------------------------------------------------------------------
(* Actions                                                                 *)

NewDecoder ==
  [buf |-> <<>>, scan |-> 0, dataLines |-> <<>>, event |-> Null, id |-> Null,
   retry |-> Null, pending |-> 0, bomChecked |-> FALSE, failed |-> FALSE]

(* feed: a failed decoder drops the bytes.                                 *)
Feed(n) ==
  /\ stream /\ ~finished /\ pos + n <= Len(body)
  /\ pos' = pos + n
  /\ LET d == [decoder EXCEPT !.buf = @ \o SubSeq(body, pos + 1, pos + n)]
         r == Drain(d, FALSE)
     IN  IF decoder.failed THEN UNCHANGED <<decoder, events, widest>>
         ELSE /\ decoder' = r.decoder
              /\ events' = events \o r.events
              /\ widest' = Max({widest, n})
  /\ UNCHANGED <<stream, body, finished, analysis>>

(* The bytes of any other body are only collected.                         *)
Collect(n) ==
  /\ ~stream /\ ~finished /\ pos + n <= Len(body)
  /\ pos' = pos + n
  /\ UNCHANGED <<stream, body, decoder, events, finished, analysis, widest>>

(* The stream ends, and the analysis follows: cut says that the HTTP       *)
(* message is known to be incomplete.                                      *)
FinishStream(cut) ==
  /\ stream /\ ~finished
  /\ finished' = TRUE
  /\ LET r == IF decoder.failed THEN [decoder |-> decoder, events |-> <<>>]
              ELSE Drain(decoder, TRUE)
     IN  /\ decoder' = r.decoder
         /\ events' = events \o r.events
         /\ analysis' = Analyze(events', cut, Leftover(r.decoder))
  /\ UNCHANGED <<stream, body, pos, widest>>

(* Another body ends, and can be read or not.                              *)
FinishDocument(cut, readable) ==
  /\ ~stream /\ ~finished
  /\ finished' = TRUE
  /\ analysis' = IF readable THEN AnalyzeDocument(SubSeq(body, 1, pos), cut)
                 ELSE AnalyzeNothing(cut)
  /\ UNCHANGED <<stream, body, pos, decoder, events, widest>>

SseInit ==
  /\ stream \in BOOLEAN
  /\ body \in IF stream THEN Bodies ELSE JsonBodies
  /\ pos = 0
  /\ decoder = NewDecoder
  /\ events = <<>>
  /\ finished = FALSE
  /\ analysis = Null
  /\ widest = 0

SseNext ==
  \/ \E n \in 1..MaxFragment : Feed(n) \/ Collect(n)
  \/ \E cut \in BOOLEAN : FinishStream(cut)
  \/ \E cut, readable \in BOOLEAN : FinishDocument(cut, readable)

SseSpec == SseInit /\ [][SseNext]_sseVars

-----------------------------------------------------------------------------
(* Properties                                                              *)

Received == SubSeq(body, 1, pos)

Decoder ==
  [buf : Seq(STRING), scan : Nat, dataLines : Seq(Seq(STRING)),
   event : Seq(STRING) \cup {Null}, id : Seq(STRING) \cup {Null},
   retry : Seq(STRING) \cup {Null}, pending : Nat,
   bomChecked : BOOLEAN, failed : BOOLEAN]

(* The types of the state; a search never resumes behind the buffer, and   *)
(* the verdicts are there exactly when the body has ended.                 *)
SseTypeOK ==
  /\ stream \in BOOLEAN /\ body \in (IF stream THEN Bodies ELSE JsonBodies)
  /\ pos \in 0..Len(body)
  /\ decoder \in Decoder
  /\ ~decoder.failed => decoder.scan <= Len(decoder.buf)
  /\ finished \in BOOLEAN
  /\ IF finished
     THEN /\ analysis.cut \in BOOLEAN
          /\ analysis.completion \in {"complete", "truncated", "unknown"}
          /\ analysis.status \in {"present", "absent", "not_captured", "unparseable"}
     ELSE analysis = Null

(* The members of a set of numbers, in order.                              *)
Sorted(S) ==
  [i \in 1..Cardinality(S) |-> CHOOSE x \in S : Cardinality({y \in S : y < x}) = i - 1]

(* The stream as the event-stream format defines it, without a decoder.    *)
(* A line is known by the position of its last byte: CRLF, LF and CR each  *)
(* end one, and a byte order mark is no part of the first.                 *)
LineEnds(b, final) ==
  {i \in DOMAIN b :
     \/ b[i] = "LF"
     \/ b[i] = "CR" /\ (IF i < Len(b) THEN b[i+1] # "LF" ELSE final)}

LinesAt(b, ends) ==
  LET from(e) == Max({0} \cup {x \in ends : x < e}) + 1
      to(e) == IF b[e] = "LF" /\ e > from(e) /\ b[e-1] = "CR" THEN e - 2 ELSE e - 1
      plain(e) == SubSeq(b, from(e), to(e))
  IN  [e \in ends |->
         IF from(e) = 1 /\ plain(e) # <<>> /\ plain(e)[1] = "BOM"
         THEN Tail(plain(e)) ELSE plain(e)]

Lines(b, final) == LinesAt(b, LineEnds(b, final))

Upto(lines, e) == [x \in {y \in DOMAIN lines : y <= e} |-> lines[x]]

(* The event that lines leave open: the data and the name given since the  *)
(* last empty line, the id and the retry time given last.                  *)
Blanks(lines) == {e \in DOMAIN lines : lines[e] = <<>>}

Block(lines) == {e \in DOMAIN lines : \A x \in Blanks(lines) : x < e}

Named(lines, name) == {e \in DOMAIN lines : lines[e] # <<>> /\ lines[e][1] = name}

Values(lines, at) == [i \in 1..Cardinality(at) |-> Tail(lines[Sorted(at)[i]])]

LastValue(lines, at) == IF at = {} THEN Null ELSE Tail(lines[Max(at)])

Open(lines) ==
  [data  |-> Values(lines, Block(lines) \cap Named(lines, "data:")),
   event |-> LastValue(lines, Block(lines) \cap Named(lines, "event:")),
   id    |-> LastValue(lines, {e \in Named(lines, "id:") : "NUL" \notin ToSet(Tail(lines[e]))}),
   retry |-> LastValue(lines, {e \in Named(lines, "retry:") :
                                 /\ Tail(lines[e]) # <<>>
                                 /\ ToSet(Tail(lines[e])) \subseteq Digits})]

(* An empty line ends an event that has a data line.                       *)
Full(lines) == {e \in Blanks(lines) : Open(Upto(lines, e - 1)).data # <<>>}

EventsOf(lines) ==
  [i \in 1..Cardinality(Full(lines)) |-> Open(Upto(lines, Sorted(Full(lines))[i] - 1))]

Stream(b, final) == EventsOf(Lines(b, final))

(* Fragments do not matter: however the body is cut into feeds, inside a   *)
(* CRLF or a field included, the events are those of the stream, in order, *)
(* none early and none twice; a decoder that gave up has delivered a       *)
(* prefix of them.                                                         *)
EventsAreTheStreams ==
  /\ SseTypeOK
  /\ stream => IsPrefix(events, Stream(Received, finished))
  /\ stream /\ ~decoder.failed => events = Stream(Received, finished)

(* What the limits are about: the data lines of one event, in characters,  *)
(* those of the one still open included, and a line, in bytes, its         *)
(* terminator perhaps included.                                            *)
Size(data) ==
  LET size[n \in 0..Len(data)] == IF n = 0 THEN 0 ELSE size[n-1] + Chars(data[n]) + 1
  IN  size[Len(data)]

Oversized(data) == Len(data) > MaxDataLines \/ Size(data) > MaxEventBytes

HasOversizedEvent(lines) == \E e \in DOMAIN lines : Oversized(Open(Upto(lines, e)).data)

HasOversizedLine(b) ==
  \E i, j \in DOMAIN b : j - i >= MaxEventBytes /\ \A k \in i..(j-1) : b[k] \notin Terminators

(* No event of more than max_data_lines lines, or of more than             *)
(* max_event_bytes characters, is delivered, and the decoder gives up only *)
(* on such an event, on a line of more bytes than that, or because one     *)
(* feed brought more bytes at once.                                        *)
LimitsEnforced ==
  /\ \A i \in DOMAIN events : ~Oversized(events[i].data)
  /\ decoder.failed =>
       \/ HasOversizedEvent(Lines(Received, finished))
       \/ HasOversizedLine(Received)
       \/ widest > MaxEventBytes

(* Bytes that end with an event: no line and no event is left open.        *)
Whole(b) ==
  /\ b # <<>> => Last(b) \in Terminators
  /\ Open(Lines(b, TRUE)).data = <<>>

(* A verdict of complete has evidence in the bytes that arrived: an end    *)
(* marker, or a finish reason where nothing shows a cut; of a document,    *)
(* that the whole of it arrived.  And a body is called truncated only if   *)
(* something shows it.                                                     *)
VerdictSound ==
  finished =>
    LET arrived == Stream(Received, TRUE)
        intact == ~analysis.cut /\ ~decoder.failed /\ (stream => Whole(Received))
    IN  /\ analysis.completion = "complete" =>
             IF stream THEN ExplicitEnd(arrived) \/ (FinishReason(arrived) /\ intact)
             ELSE pos = Len(body) /\ intact
        /\ analysis.completion = "truncated" => ~intact

(* What the provider says of its usage, with all of the body.              *)
Sent ==
  U!Merged(CASE stream -> Containers(Stream(body, TRUE))
             [] ~stream /\ IsObject(body) -> Documents[body].containers
             [] OTHER -> <<>>)

(* Absent is a statement about the provider.  Usage it did send is called  *)
(* absent only if the capture stopped between two events and nothing, not  *)
(* even the HTTP framing, shows that; or behind an empty usage object.  In *)
(* a document it never is, and a document is called unparseable only if    *)
(* nothing shows a cut.                                                    *)
UsageSound ==
  finished =>
    /\ analysis.status = "absent" /\ DOMAIN Sent # {} =>
         /\ stream
         /\ \/ pos < Len(body) /\ ~analysis.cut /\ Whole(Received)
            \/ Containers(events) # <<>>
    /\ analysis.status = "unparseable" => ~analysis.cut

(* limits.py:54: max_event_bytes limits the bytes of an event.  Violated:  *)
(* sse.py:236 counts the characters of the decoded value.                  *)
LimitIsInBytes ==
  \A i \in DOMAIN events :
    Len(Text(events[i].data)) + Len(events[i].data) <= MaxEventBytes

(* limits.py:55: max_event_bytes limits one event, not a stream of small   *)
(* events.                                                                 *)
LimitIsPerEvent ==
  decoder.failed =>
    HasOversizedEvent(Lines(Received, finished)) \/ HasOversizedLine(Received)
=============================================================================
