--------------------------- MODULE ConnectionTest ---------------------------
(***************************************************************************)
(* POST /api/settings/test-connection (lib/settings-connection-test.ts):   *)
(* what a test of an LLM's credentials, or of the Exa key, may answer,     *)
(* given the truth about the key and the model that the vendor knows; and  *)
(* whether the snapshot's own call (adapters/llm) would get an answer.     *)
(* Operators only. Which of its ways of saying no a vendor takes, whether  *)
(* it lists its models to anybody, and whether it is overloaded or         *)
(* unreachable, is not determined.                                         *)
(***************************************************************************)
EXTENDS Naturals

Listing == {"openai", "openrouter", "custom"}
LlmProviders == Listing \cup {"anthropic", "gemini"}

(* A vendor's HTTP answer: its status, whether the list in its body has    *)
(* the model, and whether the body names the error as the model's.         *)
Reply(status, listed, named) == [status |-> status, listed |-> listed, named |-> named]
Trouble == {Reply(s, FALSE, FALSE) : s \in {418, 429, 500}}
NotFound == Reply(404, FALSE, FALSE)

(* Vendors whose list nothing here shows to be kept behind the key:        *)
(* OpenRouter's is public, and a custom server is what its owner made it.  *)
OpenListing == {"openrouter", "custom"}

Refusals == {Reply(s, FALSE, FALSE) : s \in {401, 403}}

(* What a vendor that minds no key, or likes this one, answers a probe.    *)
Answers(provider, known) ==
    CASE provider \in Listing -> {Reply(200, known, FALSE)}
      [] provider \notin Listing /\ known -> {Reply(200, FALSE, FALSE)}
      [] provider = "gemini" /\ ~known -> {NotFound}
      [] provider = "anthropic" /\ ~known -> {NotFound, Reply(400, FALSE, TRUE)}

(* What a vendor may answer a probe.                                       *)
Replies(provider, authentic, known) ==
    Trouble \cup {r \in Refusals : ~authentic}
            \cup {r \in Answers(provider, known) : authentic \/ provider \in OpenListing}

MapHttpStatusToCode(status) ==
    CASE status \in {401, 403} -> "auth"
      [] status = 404 -> "model"
      [] status = 429 -> "rate_limit"
      [] status >= 500 -> "network"
      [] OTHER -> "unknown"

(* Mutant: a vendor that lists models is believed when it answers at all.  *)
JudgeUnread(provider, reply) ==
    CASE reply.status = 200 -> "ok"
      [] reply.status = 400 /\ provider = "anthropic" /\ reply.named -> "model"
      [] OTHER -> MapHttpStatusToCode(reply.status)

(* How a probe reads the answer: a list must have the model, and Anthropic *)
(* may say with a 400 that it has no such model.                           *)
Judge(provider, reply) ==
    CASE reply.status = 200 ->
            (IF provider \in Listing /\ ~reply.listed THEN "model" ELSE "ok")
      [] reply.status = 400 /\ provider = "anthropic" /\ reply.named -> "model"
      [] OTHER -> MapHttpStatusToCode(reply.status)

(* probeCustom asks /v1/models and, if that is not there, /models: only    *)
(* one of them may be the server's.                                        *)
ProbeCustom(authentic, known) ==
    LET Heard == Replies("custom", authentic, known)
        Judged(r) == Judge("custom", r)
    IN  {Judged(r) : r \in Heard} \cup {Judged(NotFound)}

Probe(provider, authentic, known) ==
    IF provider = "custom" THEN ProbeCustom(authentic, known)
    ELSE {Judge(provider, r) : r \in Replies(provider, authentic, known)}

(* testLlmConnection: the route's body is valid; the SSRF guard comes      *)
(* before the key, and a vendor that cannot be reached is a network error. *)
TestLlm(provider, safe, hasKey, authentic, known) ==
    CASE provider = "custom" /\ ~safe -> {"endpoint"}
      [] (provider = "custom" => safe) /\ ~hasKey -> {"auth"}
      [] OTHER -> {"network"} \cup Probe(provider, authentic, known)

TestExa(hasKey, authentic) ==
    IF ~hasKey THEN {"auth"}
    ELSE {"network"} \cup
         IF authentic THEN {"ok"} \cup {MapHttpStatusToCode(r.status) : r \in Trouble}
         ELSE {MapHttpStatusToCode(s) : s \in {401, 403, 418, 429, 500}}

-----------------------------------------------------------------------------
(* What the snapshot would make of the same settings                       *)

(* Adapters that are still stubs: their complete() calls nobody and always *)
(* rejects.                                                                *)
Stubs == {"openrouter", "custom"}

(* Whether complete() has an answer when the vendor is well.               *)
Completes(provider, authentic, known) == provider \notin Stubs /\ authentic /\ known
=============================================================================
