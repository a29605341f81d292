------------------------------ MODULE AIProviders ------------------------------
(***************************************************************************)
(* What the AI provider adapters make of an answer to their HTTP request:  *)
(* OpenAIProvider._complete, OllamaProvider._chat, the two parsers of      *)
(* their bodies and validate_ai_response.                                  *)
(*                                                                         *)
(* An answer is lost (a timeout, a connection error), or a status code and *)
(* a body.  Codes stand for their class; a redirect is not followed, its   *)
(* body is read as that of a 200.                                          *)
(*                                                                         *)
(* A definition marked as a seeded error is used by no other.              *)
(***************************************************************************)
EXTENDS Integers

\* create_ai_provider; "unkeyed" is the OpenAI adapter without an API key.
Adapter == {"openai", "unkeyed", "ollama"}

Code == {200, 401, 404, 429, 503}

\* "undecodable" is not in the encoding of JSON, "noContent" has no text where
\* it belongs, "oddUsage" a usage that is no object, "noModel" an empty name
\* of the model, "blank" nothing but white space.
Body == {"text", "blank", "notJson", "undecodable", "noContent", "oddUsage", "noModel"}

Lost == {"timeout", "connection"}
Http(code, body) == [lost |-> "no", code |-> code, body |-> body]
HttpAnswer ==
  [lost : Lost, code : {0}, body : {"notJson"}]
  \cup { Http(200, body) : body \in Body }
  \cup { Http(code, "notJson") : code \in Code \ {200} }

\* How a call of generate_response ends.  "refusal" is a client or
\* authentication error or a malformed answer; "blank" is text that validation
\* finds empty; "unexpected" is an exception outside the AIError hierarchy.
Transient == {"timeout", "connection", "rateLimit", "server"}
Outcome == Transient \cup {"text", "refusal", "blank", "unexpected"}

\* The tests of the status, in their order.  (OllamaStatusBroad: seeded error,
\* the range of client errors has no end.)
OllamaStatusBroad(code) == IF code >= 400 THEN "refusal" ELSE "server"
OllamaStatus(code) == IF code \in 400..499 THEN "refusal" ELSE "server"
OpenAIStatus(code) ==
  IF code \in {401, 403} THEN "refusal"
  ELSE IF code = 429 THEN "rateLimit"
  ELSE OllamaStatus(code)

\* response.json(), _parse_openai_response or _parse_ollama_response: only
\* the latter takes the model's name from the body.
Parsed(adapter, body) ==
  CASE body \in {"notJson", "noContent"} -> "refusal"
    [] body = "undecodable" -> "unexpected"
    [] body = "oddUsage" -> IF adapter = "openai" THEN "unexpected" ELSE "text"
    [] body = "noModel" -> IF adapter = "ollama" THEN "noModel" ELSE "text"
    [] OTHER -> body

\* validate_ai_response.
Validated(parsed) == IF parsed = "noModel" THEN "refusal" ELSE parsed

\* Without a key the adapter raises before it asks anybody.
OutcomeOf(adapter, answer) ==
  CASE adapter = "unkeyed" -> "refusal"
    [] adapter # "unkeyed" /\ answer.lost # "no" -> answer.lost
    [] adapter = "openai" /\ answer.lost = "no" /\ answer.code >= 400 -> OpenAIStatus(answer.code)
    [] adapter = "ollama" /\ answer.lost = "no" /\ answer.code >= 400 -> OllamaStatus(answer.code)
    [] OTHER -> Validated(Parsed(adapter, answer.body))

\* A request was made and came to nothing through no fault of its own: nobody
\* answered, or the provider reports an error of its own.
Unserved(adapter, answer) ==
  adapter # "unkeyed" /\ (answer.lost # "no" \/ answer.code >= 500)

\* Asking again may help.  ai/exceptions.py counts a 429 among these, whoever
\* the provider is: "Provider rate limit exceeded (HTTP 429)", and a client
\* error is "HTTP 4xx except 429".
Curable(adapter, answer) ==
  \/ Unserved(adapter, answer)
  \/ adapter # "unkeyed" /\ answer.code = 429
=============================================================================
