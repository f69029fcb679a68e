-------------------------- MODULE MCCallAccounting --------------------------
(* Three requests; an OpenAI-like and an Anthropic-like model, complete,   *)
(* cut and unanswered responses.                                           *)
EXTENDS CallAccounting, TLC

CONSTANT L  (* a logical name that is no request id *)

Answer(containers, truncated, model) ==
  [response |-> TRUE, containers |-> containers, truncated |-> truncated,
   unparseable |-> FALSE, model |-> model]

NoResponse ==
  [response |-> FALSE, containers |-> <<>>, truncated |-> FALSE,
   unparseable |-> FALSE, model |-> Null]

Prompt(input, output, details) ==
  ("prompt_tokens" :> input) @@ ("completion_tokens" :> output)
    @@ ("prompt_tokens_details" :> details)

Cached == Answer(<<Prompt(5, 2, "cached_tokens" :> 4)>>, FALSE, "gpt")
OverCached == Answer(<<Prompt(1, 2, "cached_tokens" :> 3)>>, FALSE, "gpt")
Created == Answer(<<Prompt(5, 2, "cache_creation_tokens" :> 1)>>, FALSE, "claude")
Streamed ==
  Answer(<<("input_tokens" :> 3) @@ ("cache_read_input_tokens" :> 2)
             @@ ("cache_creation_input_tokens" :> 1) @@ ("output_tokens" :> 1),
           "output_tokens" :> 4>>, FALSE, "claude")
Unfinished == Answer(<<>>, TRUE, "claude")

MCPrices ==
  [gpt |-> [input |-> 7, output |-> 11, cache_read |-> 3, cache_write |-> Null],
   claude |-> [input |-> 5, output |-> 13, cache_read |-> 1, cache_write |-> 6]]

MCName == {L, 1}
MCAnswers == <<{Cached, NoResponse}, {Streamed, Unfinished}, {OverCached, Created}>>
MCBatches == {<<1>>, <<2>>, <<2, 3>>}
=============================================================================
