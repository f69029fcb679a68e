-------------------------- MODULE MCHttpConnection --------------------------
(***************************************************************************)
(* HttpConnection on a few dialogues.  A dialogue is written as the parts  *)
(* each peer sends: a part has its bytes, whether it is a message that has *)
(* to be delivered (whole), and how many parts of the other peer precede   *)
(* it on the wire (after).                                                 *)
(***************************************************************************)
EXTENDS HttpConnection, SequencesExt

Sym(k)     == <<[k |-> k, head |-> Req!NoHead, n |-> 0]>>
Times(k, n) == [i \in 1..n |-> Sym(k)[1]]
Size(n)    == <<[k |-> "size", head |-> Req!NoHead, n |-> n]>>
Nl         == Sym("cr") \o Sym("lf")
Line(h)    == <<[k |-> "s1", head |-> h, n |-> 0], [k |-> "s2", head |-> h, n |-> 0]>>
Block(h)   == Line(h) \o Nl \o Nl
LongBlock(h, n) == Line(h) \o Nl \o Times("x", n) \o Nl \o Nl
LfBlock(h) == Sym("lf") \o Line(h) \o Sym("lf") \o Sym("lf")
Chunk(n)   == Size(n) \o Nl \o Times("data", n) \o Nl
LastChunk  == Size(0) \o Nl

Ask(num, method) == [Req!NoHead EXCEPT !.num = num, !.method = method]
Say(num, to, status) == [Req!NoHead EXCEPT !.num = num, !.answers = to, !.status = status]
Sized(h, n)   == [h EXCEPT !.framing = "length", !.length = n, !.body = n]
Chunked(h, n) == [h EXCEPT !.framing = "chunked", !.body = n]
Bad(h, fault) == [h EXCEPT !.fault = fault]

Whole(bytes, after)  == [bytes |-> bytes, whole |-> TRUE, after |-> after]
Broken(bytes, after) == [bytes |-> bytes, whole |-> FALSE, after |-> after]

Bytes(parts)   == FlattenSeq([i \in 1..Len(parts) |-> parts[i].bytes])
EndOf(parts, i) == Len(Bytes(SubSeq(parts, 1, i)))
Wire(parts, others) ==
  [bytes |-> Bytes(parts),
   ends  |-> {EndOf(parts, i) : i \in {j \in 1..Len(parts) : parts[j].whole}},
   after |-> FlattenSeq([i \in 1..Len(parts) |->
                [b \in 1..Len(parts[i].bytes) |-> EndOf(others, parts[i].after)]])]
Dialogue(asked, said) == [client |-> Wire(asked, said), server |-> Wire(said, asked)]

(* Two pipelined exchanges; the second response is chunked, with an        *)
(* informational response before it and a trailer, and cut by MaxBody.     *)
Pipelined == Dialogue(
  << Whole(Block(Ask(1, "GET")), 0),
     Whole(Block(Sized(Ask(2, "GET"), 2)) \o Times("data", 2), 0) >>,
  << Whole(Block(Say(1, 0, "info")), 0),
     Whole(Block(Sized(Say(2, 1, "ok"), 1)) \o Times("data", 1), 1),
     Whole(Block(Chunked(Say(3, 2, "ok"), 3)) \o Chunk(1) \o Chunk(2) \o LastChunk
             \o Sym("x") \o Nl \o Nl, 2) >>)

(* Responses that have no body whatever their headers say, then one that   *)
(* the close ends; bare line feeds and empty lines between messages.       *)
Bodyless == Dialogue(
  << Whole(Block(Ask(1, "HEAD")), 0), Whole(LfBlock(Ask(2, "GET")), 0),
     Whole(Nl \o Block(Ask(3, "GET")), 2) >>,
  << Whole(Block([Sized(Say(1, 1, "ok"), 2) EXCEPT !.body = 0]), 1),
     Whole(LfBlock([Chunked(Say(2, 2, "nobody"), 0) EXCEPT !.length = 1]), 2),
     Broken(Block([Say(3, 3, "ok") EXCEPT !.body = 3]) \o Times("data", 3), 3) >>)

(* A tunnel.                                                               *)
Tunnel == Dialogue(
  << Whole(Block(Ask(1, "CONNECT")), 0), Broken(Times("data", 2), 1) >>,
  << Whole(Block(Say(1, 1, "ok")), 1), Broken(Times("data", 2), 1) >>)

(* More requests pipelined than the response parser keeps methods of.      *)
Deep == Dialogue(
  << Whole(Block(Ask(1, "HEAD")), 0), Whole(Block(Ask(2, "GET")), 0),
     Whole(Block(Ask(3, "GET")), 0) >>,
  << Whole(Block([Sized(Say(1, 1, "ok"), 1) EXCEPT !.body = 0]), 1),
     Whole(Block(Sized(Say(2, 2, "error"), 1)) \o Times("data", 1), 2) >>)

(* What the parsers have to refuse, or just to tolerate.                    *)
Reply == Chunked(Say(1, 1, "ok"), 1)
Refused(asked, said) == Dialogue(<<Broken(asked, 0)>>, <<Broken(said, 0)>>)
Refusals ==
  << Refused(Block(Bad(Ask(1, "GET"), "start")), Block(Reply) \o Size(1) \o Nl \o Times("data", 2)),
     Refused(Block(Bad(Ask(1, "GET"), "headers")), Block(Reply) \o Times("x", 1) \o Nl),
     Refused(Block(Bad(Ask(1, "GET"), "length")), Block(Reply) \o Size(1) \o Times("x", 3) \o Nl),
     Refused(LongBlock(Ask(1, "GET"), 6), Block(Reply) \o LastChunk \o Times("x", 6)),
     Refused(Block(Bad(Ask(1, "GET"), "coding")),
             Block(Reply) \o LastChunk \o Times("x", 1) \o Nl \o Times("x", 1) \o Nl),
     Dialogue(<< Whole(Block(Sized(Ask(1, "GET"), 0)), 0), Broken(Times("x", 1), 0) >>,
              << Whole(Block(Reply) \o Size(1) \o Nl \o Times("data", 1) \o Sym("lf")
                         \o LastChunk \o Nl, 1) >>) >>

MCDialogues == <<Pipelined, Bodyless, Tunnel, Deep>> \o Refusals

(* The peer answers the first request before it is all sent, and the       *)
(* connection goes on.                                                     *)
Early == << Dialogue(
  << Whole(Block(Sized(Ask(1, "GET"), 2)) \o Times("data", 2), 0),
     Whole(Block(Ask(2, "GET")), 1) >>,
  << Whole(Block(Sized(Say(1, 1, "error"), 0)), 0),
     Whole(Block(Sized(Say(2, 2, "ok"), 1)) \o Times("data", 1), 2) >>) >>
=============================================================================
