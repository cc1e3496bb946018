---------------------------- MODULE ProviderUsage ----------------------------
(***************************************************************************)
(* How the adapter SDK reads token usage out of a provider's response:     *)
(* packages/adapter-sdk/src/usage.ts.  A response has at most one usage    *)
(* object, at one place, and perhaps a mark of its format ("message" is    *)
(* Anthropic's, "response" OpenAI's).  Its counts are Absent, Malformed    *)
(* (present, but not a non-negative integer) or a number.  OpenAI's input  *)
(* and output have two names each (input and prompt, output and            *)
(* completion), its cache and reasoning counts (cached, reasoning) are     *)
(* not where Anthropic's are (cache, thinking), and the input, output and  *)
(* total names are shared.  Gemini's counts and those at the paths of the  *)
(* caller's own mapping go under the names of Anthropic's; a mapping says  *)
(* whether cache tokens add to the total (cacheIsExtra).                   *)
(***************************************************************************)
EXTENDS Integers

Absent == -1
Malformed == -2
Has(n) == n >= 0
OrZero(n) == IF Has(n) THEN n ELSE 0

Counts == Nat \cup {Absent, Malformed}
Names == {"input", "prompt", "output", "completion", "cached", "cache",
          "reasoning", "thinking", "total"}

IsResponse(r) ==
  /\ r.provider \in {"auto", "openai", "anthropic", "gemini", "mapped"}
  /\ r.place \in {"none", "usage", "response.usage", "usageMetadata"}
  /\ r.mark \in {"none", "message", "response"}
  /\ r.cacheIsExtra \in BOOLEAN
  /\ r.counts \in [Names -> Counts]

Unavailable == [ok |-> FALSE, total |-> 0]

(* firstTokenCount(): the first name that is present counts.               *)
FirstCount(a, b) == IF a # Absent THEN a ELSE b

(* Mutant: one of input and output is enough for a total.                  *)
NormalizedUsageFromAnyPart(c, mayCompute, cacheIsExtra) ==
  LET computable == mayCompute /\ (Has(c.input) \/ Has(c.output))
      cached == IF cacheIsExtra THEN OrZero(c.cache) ELSE 0
  IN  IF \/ Malformed \in {c.input, c.output, c.cache, c.reasoning, c.total}
         \/ ~Has(c.total) /\ ~computable
         \/ Has(c.reasoning) /\ Has(c.output) /\ c.reasoning > c.output
        THEN Unavailable
        ELSE [ok |-> TRUE, total |-> IF Has(c.total) THEN c.total
                                     ELSE OrZero(c.input) + OrZero(c.output) + cached]

(* normalizedUsage(), with the malformed counts that tokenCount() throws   *)
(* at and every caller turns into an adapter-error.                        *)
NormalizedUsage(c, mayCompute, cacheIsExtra) ==
  LET computable == mayCompute /\ Has(c.input) /\ Has(c.output)
      cached == IF cacheIsExtra THEN OrZero(c.cache) ELSE 0
  IN  IF \/ Malformed \in {c.input, c.output, c.cache, c.reasoning, c.total}
         \/ ~Has(c.total) /\ ~computable
         \/ Has(c.reasoning) /\ Has(c.output) /\ c.reasoning > c.output
        THEN Unavailable
        ELSE [ok |-> TRUE, total |-> IF Has(c.total) THEN c.total
                                     ELSE c.input + c.output + cached]

Read(input, output, cache, reasoning, total) ==
  [input |-> input, output |-> output, cache |-> cache, reasoning |-> reasoning, total |-> total]

OpenAI(r) ==
  LET c == r.counts
  IN  IF r.place \notin {"usage", "response.usage"} THEN Unavailable
      ELSE NormalizedUsage(Read(FirstCount(c.input, c.prompt), FirstCount(c.output, c.completion),
                                c.cached, c.reasoning, c.total), TRUE, FALSE)

Own(r) == Read(r.counts.input, r.counts.output, r.counts.cache, r.counts.thinking, r.counts.total)

Anthropic(r) == IF r.place # "usage" THEN Unavailable ELSE NormalizedUsage(Own(r), TRUE, TRUE)
Gemini(r) == IF r.place # "usageMetadata" THEN Unavailable ELSE NormalizedUsage(Own(r), FALSE, FALSE)
Mapped(r) == NormalizedUsage(Own(r), TRUE, r.cacheIsExtra)

(* normalizeProviderUsage(): a named provider reads whatever usage object  *)
(* is at its place; "auto" goes by the format that it recognizes.          *)
NormalizeProviderUsage(r) ==
  CASE r.provider = "mapped" -> Mapped(r)
    [] r.provider = "openai" -> OpenAI(r)
    [] r.provider = "anthropic" -> Anthropic(r)
    [] r.provider = "gemini" \/ (r.provider = "auto" /\ r.place = "usageMetadata") -> Gemini(r)
    [] r.provider = "auto" /\ r.place # "usageMetadata" ->
         IF r.mark = "message" THEN Anthropic(r)
         ELSE IF r.mark = "response" \/ r.place = "response.usage" THEN OpenAI(r)
         ELSE Unavailable
=============================================================================
