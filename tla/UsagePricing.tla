---------------------------- MODULE UsagePricing ----------------------------
(***************************************************************************)
(* What one response is worth: the token usage found in its body           *)
(* (agent_probe/llm/usage.py) and its price under a versioned price table  *)
(* (agent_probe/llm/pricing.py).  Pure operators: the accounting and the   *)
(* stream modules instantiate them.                                        *)
(*                                                                         *)
(* Data abstraction.  A usage container is the function from the keys of   *)
(* the JSON object to numbers, nested objects or Null; a key whose value   *)
(* is not a count reads as Null.  Reasoning tokens, total_tokens and the   *)
(* provider name are left out: no price depends on them.  Model lookup by  *)
(* name and prefix is the function Prices.                                 *)
(***************************************************************************)
EXTENDS Integers, Sequences, FiniteSetsExt, Functions

CONSTANTS
  Null,    (* None, and JSON null                                          *)
  Prices   (* [model -> unit price of each component, Null where the       *)
           (* table has none]                                              *)

-----------------------------------------------------------------------------
(* dict.update over the containers, in the order they arrived: of each key *)
(* the last value stays, null included, and nested objects are replaced    *)
(* whole.                                                                  *)
Merged(containers) ==
  LET last(k) == Max({i \in DOMAIN containers : k \in DOMAIN containers[i]})
  IN  [k \in UNION {DOMAIN containers[i] : i \in DOMAIN containers}
         |-> containers[last(k)][k]]

InputKeys == <<"prompt_tokens", "input_tokens", "prompt_tokens_count">>
OutputKeys == <<"completion_tokens", "output_tokens">>

Source(key, sub, included) == [key |-> key, sub |-> sub, included |-> included]

CacheReadSources ==
  <<Source("prompt_tokens_details", "cached_tokens", TRUE),
    Source("input_tokens_details", "cached_tokens", TRUE),
    Source("cache_read_input_tokens", Null, FALSE)>>

CacheWriteSources ==
  <<Source("cache_creation_input_tokens", Null, FALSE),
    Source("prompt_tokens_details", "cache_creation_tokens", TRUE)>>

Value(u, key) == IF key \in DOMAIN u THEN u[key] ELSE Null

Dig(u, source) ==
  IF source.sub = Null \/ Value(u, source.key) = Null
  THEN Value(u, source.key)
  ELSE Value(u[source.key], source.sub)

FirstOf(u, keys) ==
  LET hits == {i \in DOMAIN keys : Value(u, keys[i]) # Null}
  IN  IF hits = {} THEN Null ELSE u[keys[Min(hits)]]

FirstDetail(u, sources) ==
  LET hits == {i \in DOMAIN sources : Dig(u, sources[i]) # Null}
  IN  IF hits = {} THEN [tokens |-> Null, included |-> Null]
      ELSE [tokens |-> Dig(u, sources[Min(hits)]), included |-> sources[Min(hits)].included]

BuildUsage(u) ==
  [input  |-> FirstOf(u, InputKeys),
   output |-> FirstOf(u, OutputKeys),
   read   |-> FirstDetail(u, CacheReadSources),
   write  |-> FirstDetail(u, CacheWriteSources)]

IsEmpty(usage) ==
  /\ usage.input = Null /\ usage.output = Null
  /\ usage.read.tokens = Null /\ usage.write.tokens = Null

(* What a reader of JSON finds in a container: counts, and objects of them.*)
CountKeys == {InputKeys[i] : i \in DOMAIN InputKeys}
               \cup {OutputKeys[i] : i \in DOMAIN OutputKeys}
               \cup {"cache_read_input_tokens", "cache_creation_input_tokens"}
DetailKeys == {"prompt_tokens_details", "input_tokens_details"}

IsCount(n) == n = Null \/ n \in Nat

IsContainer(u) ==
  /\ \A k \in DOMAIN u \cap CountKeys : IsCount(u[k])
  /\ \A k \in DOMAIN u \cap DetailKeys :
        u[k] = Null \/ \A s \in DOMAIN u[k] : IsCount(u[k][s])

(* The status of a body's usage: a non-empty merge is present whatever     *)
(* else happened; an empty one is absent if a container was seen, not      *)
(* captured if the body was cut, unparseable if no JSON in it parses.      *)
UsageStatus(containers, truncated, unparseable) ==
  IF DOMAIN Merged(containers) # {} THEN "present"
  ELSE IF containers # <<>> THEN "absent"
  ELSE IF truncated THEN "not_captured"
  ELSE IF unparseable THEN "unparseable"
  ELSE "absent"

-----------------------------------------------------------------------------
(* estimate_cost.  A component is a number of tokens billed at the price   *)
(* of its name; total is Null (unknown) unless nothing is missing.  (Every *)
(* source above says whether the count is part of the input, so the reason *)
(* cache_inclusion_unknown never arises.)                                  *)
BilledInputGross(usage) == usage.input       \* broken: cached tokens stay in

BilledInput(usage) ==
  IF usage.read.tokens # Null /\ usage.read.included = TRUE
  THEN IF usage.read.tokens > usage.input THEN 0 ELSE usage.input - usage.read.tokens
  ELSE usage.input

Reasons(usage, price) ==
  {r \in {"input_tokens_missing", "output_tokens_missing", "cache_price_missing"} :
     CASE r = "input_tokens_missing" ->
            usage.input = Null /\ usage.read.tokens = Null /\ usage.write.tokens = Null
       [] r = "output_tokens_missing" -> usage.output = Null /\ usage.input # Null
       [] r = "cache_price_missing" ->
            \/ usage.read.tokens # Null /\ price.cache_read = Null
            \/ usage.write.tokens # Null /\ price.cache_write = Null}

Components(usage, price) ==
  LET tokens ==
        [input |-> IF usage.input = Null THEN Null ELSE BilledInput(usage),
         output |-> usage.output,
         cache_read |-> usage.read.tokens,
         cache_write |-> usage.write.tokens]
  IN  [n \in {m \in DOMAIN tokens : tokens[m] # Null /\ price[m] # Null} |-> tokens[n]]

Subtotal(components, price) ==
  SumFunction([n \in DOMAIN components |-> components[n] * price[n]])

Unknown(reason) ==
  [total |-> Null, complete |-> FALSE, components |-> <<>>, reasons |-> {reason}]

EstimateCost(usage, status, model) ==
  CASE status # "present" -> Unknown(status)
    [] status = "present" /\ IsEmpty(usage) -> Unknown("usage_empty")
    [] status = "present" /\ ~IsEmpty(usage) /\ model \notin DOMAIN Prices ->
         Unknown("model_not_in_price_table")
    [] OTHER ->
         LET price == Prices[model]
             reasons == Reasons(usage, price)
             components == Components(usage, price)
         IN  [total |-> IF reasons = {} THEN Subtotal(components, price) ELSE Null,
              complete |-> reasons = {},
              components |-> components,
              reasons |-> reasons]
=============================================================================
