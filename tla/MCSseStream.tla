---------------------------- MODULE MCSseStream -----------------------------
(* Every short body over the line terminators and a data field, and bodies *)
(* of the two providers with comments, ids and names, larger than the      *)
(* limits in every way, one of them in bytes but not in characters.        *)
EXTENDS SseStream, TLC

CONSTANT MaxShort  (* bound: length of the bodies enumerated               *)

CRLF == <<"CR", "LF">>
Data(s) == <<"data:", s>>

Short == UNION {[1..n -> {"CR", "LF", "data:", "{u"}] : n \in 0..MaxShort}

OpenAI ==
  <<"BOM">> \o Data("{text") \o CRLF \o CRLF \o Data("{stop") \o CRLF \o CRLF
    \o Data("{usage") \o CRLF \o CRLF \o Data("[DONE]") \o CRLF \o CRLF
Anthropic ==
  Data("{usage") \o <<"CR", "id:", "7", "CR", "CR", ":", "CR", "event:", "message_stop", "CR">>
    \o Data("{end") \o <<"CR", "CR">>
NoMarker ==
  <<"retry:", "7", "LF", "id:", "NUL", "LF", "retry:", "x", "LF">>
    \o Data("{empty") \o <<"LF", "LF">> \o Data("{stop") \o <<"LF", "LF">>
    \o Data("{usage") \o <<"LF", "LF">>
Broken == Data("{junk") \o <<"CR", "LF", "LF", "event:", "x", "LF", "LF">> \o Data("x") \o <<"LF">>
ManyLines == Data("{text") \o CRLF \o <<"data:", "LF">> \o Data("x") \o <<"LF", "LF">>
LongEvent == <<"data:", "x", "x", "LF", "data:", "x", "x", "x", "LF", "LF">>
TwoByte == <<"data:", "x", "~", "x", "LF", "data:", "x", "~", "LF", "LF">>
LongLine == <<":", "x", "x", "x", "x", "x", "x", "x", "LF">> \o Data("{usage") \o <<"LF", "LF">>

MCBodies == Short \cup {OpenAI, Anthropic, NoMarker, Broken, ManyLines, LongEvent, LongLine, TwoByte}

Says(terminal, finish, containers) ==
  [terminal |-> terminal, finish |-> finish, containers |-> containers]

MCJson ==
  (<<"{text">> :> Says(FALSE, FALSE, <<>>)) @@ (<<"{stop">> :> Says(FALSE, TRUE, <<>>))
    @@ (<<"{end">> :> Says(TRUE, FALSE, <<>>)) @@ (<<"{empty">> :> Says(FALSE, FALSE, <<<<>>>>))
    @@ (<<"{usage">> :> Says(FALSE, FALSE, <<"output_tokens" :> 1>>))
    @@ (<<"{u">> :> Says(FALSE, FALSE, <<"input_tokens" :> 1>>))

Document(object, containers) == [object |-> object, containers |-> containers]

\* A full answer, an error without usage, an empty usage object, a number.
MCDocuments ==
  (<<"{choices", "stop", "usage", "}">> :>
     Document(TRUE, <<"input_tokens" :> 1 @@ "output_tokens" :> 1>>))
    @@ (<<"{error", "}">> :> Document(TRUE, <<>>))
    @@ (<<"{empty", "}">> :> Document(TRUE, <<<<>>>>))
    @@ (<<"7">> :> Document(FALSE, <<>>))
    @@ (<<"7", "7">> :> Document(FALSE, <<>>))

MCJsonBodies == DOMAIN MCDocuments \cup {<<>>, <<"<html>">>}

MCBraces == {"{text", "{stop", "{end", "{empty", "{usage", "{u", "{junk"}
MCDigits == {"7"}
MCContinuation == {"~"}
MCPrices == <<>>
=============================================================================
