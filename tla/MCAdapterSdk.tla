---------------------------- MODULE MCAdapterSdk ----------------------------
(***************************************************************************)
(* Two tasks, and responses at the boundaries of normalizedUsage: each     *)
(* count absent, malformed or small, at every place and with every mark,   *)
(* read as every provider's, recognized or mapped.                         *)
(***************************************************************************)
EXTENDS AdapterSdk

(* Input under either name, output, reasoning and total; the cache counts  *)
(* of the two formats differ.                                              *)
TheCounts(i, p, o, q, r, t) ==
  [input |-> i, prompt |-> p, output |-> o, completion |-> q, cached |-> 5, cache |-> 3,
   reasoning |-> r, thinking |-> r, total |-> t]

Kind(p, at, mark, extra) ==
  [provider |-> p, place |-> at, mark |-> mark, cacheIsExtra |-> extra]

MCResponses ==
  LET inputs == {<< Absent, Absent >>, << Absent, 1 >>, << 2, Malformed >>, << Malformed, 1 >>}
      outputs == {<< Absent, Absent >>, << 1, 2 >>, << Absent, 2 >>}
      kinds == {Kind(p, at, mark, FALSE) :
                  p \in {"auto", "openai", "anthropic", "gemini"},
                  at \in {"none", "usage", "response.usage", "usageMetadata"},
                  mark \in {"none", "message", "response"}}
                 \cup {Kind("mapped", "none", "none", extra) : extra \in BOOLEAN}
  IN  {[provider |-> k.provider, place |-> k.place, mark |-> k.mark,
        cacheIsExtra |-> k.cacheIsExtra,
        counts |-> TheCounts(i[1], i[2], o[1], o[2], r, t)] :
         k \in kinds, i \in inputs, o \in outputs, r \in {Absent, 2}, t \in {Absent, 4}}
=============================================================================
