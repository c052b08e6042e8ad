-------------------------- MODULE MCWebhookIngress --------------------------
(***************************************************************************)
(* WebhookIngress on small constants: two handlers and two workers around  *)
(* a queue of one, generations of two, one retention, one restart.  Three  *)
(* requests arrive any number of times: two events that compete for the    *)
(* queue and one the bridge cannot parse, or one event among requests that *)
(* are turned away before or after the replay cache.                       *)
(***************************************************************************)
EXTENDS WebhookIngress, TLC

CONSTANTS e1, e2, other, h1, h2, w1, w2

ThreeRequests == {e1, e2, other}
TwoHandlers == {h1, h2}
TwoWorkers == {w1, w2}

Arriving(a, b, c) == (e1 :> a @@ e2 :> b @@ other :> c)
Mixes ==
    {Arriving("event", "event", "unparsable"),
     Arriving("event", "badSignature", "headerless"),
     Arriving("event", "misaddressed", "stranger")}
=============================================================================
