---------------------------- MODULE RequestChain ----------------------------
(***************************************************************************)
(* One HTTP request on its way through the handler of internal/server: the *)
(* outermost middleware, which recovers and logs, then the middleware of   *)
(* Options (metrics and hooks, in the order of the slice), then the route's*)
(* handler, and back.  pkg/polystac/hook and internal/hooks are the hooks. *)
(*                                                                         *)
(* Layer i of chain hands its successor writer i; writer 0 is the          *)
(* statusRecorder of the outermost middleware, on the connection.  Of the  *)
(* connection (net/http) we say what WriteHeader does: the first final     *)
(* status is sent and all later ones are ignored, an informational status  *)
(* is not final, an impossible one panics.                                 *)
(***************************************************************************)
EXTENDS Naturals, Sequences, FiniteSets

CONSTANTS
  Request, \* requests
  Chains   \* the chains of layers to consider

Layers == {"metrics", "webhook", "pre", "post"}

ASSUME ChainAssumption == Chains \subseteq Seq(Layers)

VARIABLE req \* each request

OK == 200   Refused == 401   Failed == 500   BadGateway == 502
Info == 102   Impossible == 20
Final == {OK, Refused, Failed, BadGateway}
Codes == Final \cup {Info, Impossible}

(* chain is what Options.Middleware of the request's server is, outermost  *)
(* first.  at: on the way "down" at layer depth (Len(chain) + 1 is the     *)
(* handler), "asking" the webhook there, on the way "up" at a post-hook,   *)
(* "done".                                                                 *)
(* wire and body are what the client gets, logged the status the outermost *)
(* recorder holds, inner that of each layer's recorder or buffer, held a   *)
(* buffer's content, counted what the metrics observed.  History: verdict, *)
(* what a pre-hook answered; handled, how often the handler ran; panicked, *)
(* and early, whether that was after an answer.                            *)
NoRequest ==
  [chain |-> <<>>, at |-> "none", depth |-> 0, wire |-> 0, body |-> {}, logged |-> OK,
   inner |-> <<>>, held |-> {}, counted |-> {}, verdict |-> 0,
   handled |-> 0, early |-> FALSE, panicked |-> FALSE]

Active == {"down", "asking", "up"}

ChainInit == req = [r \in Request |-> NoRequest]

-----------------------------------------------------------------------------
(* The buffer that catches what is written to writer i, if any.            *)
Buffers(s, i) == {j \in 1..i : s.chain[j] = "post"}
BufferOf(s, i) ==
  IF Buffers(s, i) = {} THEN 0
  ELSE CHOOSE j \in Buffers(s, i) : \A k \in Buffers(s, i) : k <= j

(* Mutant: a recorder keeps the first status it saw.                       *)
WriteHeaderOnce(s, i, code) ==
  IF BufferOf(s, i) > 0 THEN [s EXCEPT !.inner[BufferOf(s, i)] = code]
  ELSE [s EXCEPT !.logged = IF @ = OK THEN code ELSE @,
                 !.wire = IF @ = 0 /\ code \in Final THEN code ELSE @]

(* WriteHeader on writer i: the recorders on the way note the status; a    *)
(* buffer keeps the last one, the connection sends the first final one.    *)
WriteHeader(s, i, code) ==
  LET b == BufferOf(s, i)
      noted == [s EXCEPT !.inner =
                  [j \in DOMAIN s.inner |->
                     IF j = b \/ (b < j /\ j <= i /\ s.chain[j] = "metrics")
                     THEN code ELSE s.inner[j]]]
  IN IF b > 0 THEN noted
     ELSE [noted EXCEPT !.logged = code,
             !.wire = IF @ = 0 /\ code \in Final THEN code ELSE @]

(* Write on writer i: a connection that has sent no status sends 200 first,*)
(* unnoticed by the recorders.  A body is the set of its authors.          *)
Write(s, i, from) ==
  IF BufferOf(s, i) > 0 THEN [s EXCEPT !.held = @ \cup from]
  ELSE [s EXCEPT !.wire = IF @ = 0 THEN OK ELSE @, !.body = @ \cup from]

(* HTTPMiddleware and PostFunc only wrap the writer on the way down, a     *)
(* buffer starting with status 200: the next one to act is a pre-hook, a   *)
(* webhook or the handler.                                                 *)
Deciding(s, j) == j = Len(s.chain) + 1 \/ s.chain[j] \in {"webhook", "pre"}
Passed(s, i) ==
  [s EXCEPT !.at = "down",
            !.depth = CHOOSE j \in (i + 1)..(Len(s.chain) + 1) :
                        /\ Deciding(s, j)
                        /\ \A k \in (i + 1)..(j - 1) : ~Deciding(s, k)]

Arrived(chain) ==
  Passed([NoRequest EXCEPT !.chain = chain,
                           !.inner = [i \in 1..Len(chain) |-> OK]], 0)

(* The log line is written; net/http sends 200 if nobody wrote.            *)
Logged(s) ==
  [s EXCEPT !.at = "done", !.depth = 0, !.inner = <<>>, !.held = {},
            !.wire = IF @ = 0 THEN OK ELSE @]

(* Back from what was handed writer i: HTTPMiddleware observes, pre-hooks  *)
(* have nothing left to do, a post-hook is next.                           *)
Returned(s, i) ==
  LET b == BufferOf(s, i)
      metered == {k \in (b + 1)..i : s.chain[k] = "metrics"}
      back == [s EXCEPT !.at = "up", !.depth = b,
                        !.counted = @ \cup {s.inner[k] : k \in metered}]
  IN IF b = 0 THEN Logged(back) ELSE back

(* Mutant: recover logs and leaves the answer to net/http.                 *)
RecoverSilently(s) ==
  [Logged(s) EXCEPT !.panicked = TRUE, !.early = s.wire # 0]

(* A panic unwinds to the deferred function of the outermost middleware:   *)
(* writeError on its recorder.  Buffers are dropped with their layers.     *)
Recovered(s) ==
  [Logged(Write(WriteHeader(s, 0, Failed), 0, {"error"}))
     EXCEPT !.panicked = TRUE, !.early = s.wire # 0]

Panics(s, i, code) == code = Impossible /\ BufferOf(s, i) = 0 /\ s.wire = 0

(* Header and body on writer i.                                            *)
Answered(s, i, code, from) ==
  LET h == WriteHeader(s, i, code)
  IN IF Panics(s, i, code) THEN Recovered(h) ELSE Returned(Write(h, i, from), i)

At(r, where, kind) ==
  /\ req[r].at = where
  /\ req[r].depth \in DOMAIN req[r].chain
  /\ req[r].chain[req[r].depth] = kind

Become(r, s) == req' = [req EXCEPT ![r] = s]

-----------------------------------------------------------------------------
(* PreFunc: the function returns a request, or answers and returns nil.    *)
PreFunc(r) ==
  /\ At(r, "down", "pre")
  /\ LET s == req[r]
         refused == [s EXCEPT !.verdict = Refused] IN
     \/ Become(r, Passed(s, s.depth))
     \/ Become(r, Answered(refused, s.depth - 1, Refused, {"hook"}))
     \/ Become(r, Recovered(s))
     \/ Become(r, Recovered(Write(WriteHeader(refused, s.depth - 1, Refused),
                                  s.depth - 1, {"hook"})))

(* HTTPWebhook: one POST with its own deadline.  What it cuts off a request *)
(* body of more than 4 MiB is left out, as bodies of requests are.         *)
AskWebhook(r) ==
  /\ At(r, "down", "webhook")
  /\ Become(r, [req[r] EXCEPT !.at = "asking"])

(* 204, or 200 without a body.                                             *)
WebhookProceeds(r) ==
  /\ At(r, "asking", "webhook")
  /\ Become(r, Passed(req[r], req[r].depth))

(* Mutant: an answer with a status of its own does not stop the request.   *)
WebhookRefusesAndProceeds(r) ==
  /\ At(r, "asking", "webhook")
  /\ Become(r, Passed(WriteHeader([req[r] EXCEPT !.verdict = Refused],
                                  req[r].depth - 1, Refused), req[r].depth))

(* Any other status; 200 with a text; or 200 with JSON that names a status,*)
(* of which 0 stands for 200.                                              *)
WebhookRefuses(r) ==
  /\ At(r, "asking", "webhook")
  /\ \E code \in {OK, Refused, Info, Impossible} :
       Become(r, Answered([req[r] EXCEPT !.verdict = code],
                          req[r].depth - 1, code, {"hook"}))

(* Unreachable, timed out, or the client has gone: 502.  A request to it   *)
(* that cannot even be made: 500.                                          *)
WebhookFails(r) ==
  /\ At(r, "asking", "webhook")
  /\ \E code \in {BadGateway, Failed} :
       Become(r, Answered([req[r] EXCEPT !.verdict = code],
                          req[r].depth - 1, code, {"hook"}))

(* The route's handler makes its repository call and answers once, at its  *)
(* end (writeJSON, writeError); or it panics before.                       *)
InHandler(r) == req[r].at = "down" /\ req[r].depth = Len(req[r].chain) + 1

Handle(r, code) ==
  /\ InHandler(r)
  /\ Become(r, Answered([req[r] EXCEPT !.handled = @ + 1],
                        Len(req[r].chain), code, {"handler"}))

HandlerPanics(r) ==
  /\ InHandler(r)
  /\ Become(r, Recovered([req[r] EXCEPT !.handled = @ + 1]))

(* PostFunc runs its function on the buffer, which may panic, and writes   *)
(* status and body to the writer it was given itself.                      *)
RunPostFunc(r) ==
  /\ At(r, "up", "post")
  /\ LET s == req[r] IN
     \/ Become(r, Recovered(s))
     \/ Become(r, Answered([s EXCEPT !.held = {}], s.depth - 1,
                           s.inner[s.depth], s.held))

(* What the goroutine of a request does next by itself.                    *)
ChainStep(r) ==
  \/ PreFunc(r) \/ AskWebhook(r)
  \/ WebhookProceeds(r) \/ WebhookRefuses(r) \/ WebhookFails(r)
  \/ RunPostFunc(r)

-----------------------------------------------------------------------------
Requests == [
  chain: Chains \cup {<<>>}, at: {"none", "down", "asking", "up", "done"},
  depth: Nat, wire: {0} \cup Final,
  body: SUBSET {"hook", "handler", "error"}, logged: Codes,
  inner: Seq(Codes),
  held: SUBSET {"hook", "handler"}, counted: SUBSET Codes,
  verdict: {0} \cup Codes, handled: {0, 1}, early: BOOLEAN,
  panicked: BOOLEAN]

ChainTypeOK ==
  /\ req \in [Request -> Requests]
  /\ \A r \in Request : /\ req[r].depth <= Len(req[r].chain) + 1
                         /\ req[r].at \in Active =>
                              Len(req[r].inner) = Len(req[r].chain)

(* Where a pre-hook or webhook refused a request, the handler never ran,   *)
(* and the client gets the hook's status and nothing but its body, also    *)
(* through the buffers of post-hooks (webhook.go, shortCircuit) - if the   *)
(* status is one that can end a response, and no hook panicked.            *)
RefusalReachesClient ==
  \A r \in Request : req[r].at = "done" /\ req[r].verdict # 0 =>
    /\ req[r].handled = 0
    /\ req[r].verdict \in Final /\ ~req[r].panicked =>
         req[r].wire = req[r].verdict /\ req[r].body = {"hook"}

(* Every request that is answered gets one status and one body: that of    *)
(* the handler, of the hook, or, after a panic, the error of recover, and  *)
(* then nothing of a buffer that was filled before.  Excepted is a panic   *)
(* of a hook that had answered already: the error is appended to that.     *)
OneAnswer ==
  \A r \in Request : req[r].at = "done" /\ ~req[r].early =>
    /\ req[r].body \in {{"hook"}, {"handler"}, {"error"}}
    /\ req[r].panicked <=> req[r].body = {"error"}
    /\ req[r].panicked => req[r].wire = Failed
    /\ req[r].verdict # 0 => "handler" \notin req[r].body

(* Where app.Build puts the metrics.  Metrics behind a post-hook that      *)
(* panics would have counted an answer that nobody gets.                   *)
MetricsOutermost(chain) ==
  \A i \in DOMAIN chain : chain[i] = "metrics" <=> i = 1

(* The log line, and the metrics where they are outermost and nowhere      *)
(* else, name the status that the client got, although hooks answer        *)
(* twice, panic, and hold answers back.  Excepted are a panic after an     *)
(* answer, where recover's status is logged and not sent, and a webhook    *)
(* that names an informational status, which is logged while 200 is sent.  *)
LogMatchesClient ==
  \A r \in Request :
    req[r].at = "done" /\ ~req[r].early /\ req[r].verdict # Info =>
      /\ req[r].logged = req[r].wire
      /\ req[r].chain # <<>> /\ MetricsOutermost(req[r].chain) =>
           req[r].counted = IF req[r].panicked THEN {} ELSE {req[r].wire}
=============================================================================
