---------------------------- MODULE ReverseProxy ----------------------------
(***************************************************************************)
(* What the gateway promises for a request, without filters, buffers,      *)
(* callbacks or objects: it admits or refuses it; it asks an upstream only *)
(* for a request that it admitted, once, and not after having answered it; *)
(* and the client gets one response, either the gateway's own, at once, or *)
(* the upstream's, begun and ended.  The client may go away at any time.   *)
(***************************************************************************)
CONSTANT Requests

VARIABLE view  \* of each request: [verdict, upstream, stage, by]

View(verdict, upstream, stage, by) ==
  [verdict |-> verdict, upstream |-> upstream, stage |-> stage, by |-> by]

Init == view = [r \in Requests |-> View("pending", "unasked", "none", "none")]

Becomes(r, v) == view' = [view EXCEPT ![r] = v]

Admit(r) ==
  /\ view[r].verdict = "pending"
  /\ Becomes(r, View("pass", view[r].upstream, view[r].stage, view[r].by))

Refuse(r) ==
  /\ view[r].verdict = "pending"
  /\ Becomes(r, View("refuse", view[r].upstream, "complete", "gateway"))

Ask(r) ==
  /\ view[r].verdict = "pass"
  /\ view[r].upstream = "unasked"
  /\ view[r].stage \in {"none", "cut"}
  /\ Becomes(r, View("pass", "asked", view[r].stage, view[r].by))

(* The gateway answers for itself: 400, 408 or 502.                        *)
Answer(r) ==
  /\ view[r].verdict = "pass"
  /\ view[r].stage = "none"
  /\ Becomes(r, View("pass", view[r].upstream, "complete", "gateway"))

Relay(r) ==
  /\ view[r].upstream = "asked"
  /\ view[r].stage = "none"
  /\ Becomes(r, View(view[r].verdict, "asked", "started", "upstream"))

Finish(r) ==
  /\ view[r].stage = "started"
  /\ Becomes(r, View(view[r].verdict, view[r].upstream, "complete", view[r].by))

(* The client goes away before it has the whole response.                  *)
Cut(r) ==
  /\ view[r].verdict # "pending"
  /\ view[r].stage \in {"none", "started"}
  /\ Becomes(r, View(view[r].verdict, view[r].upstream, "cut", view[r].by))

Next ==
  \E r \in Requests :
    Admit(r) \/ Refuse(r) \/ Ask(r) \/ Answer(r) \/ Relay(r) \/ Finish(r) \/ Cut(r)

Spec == Init /\ [][Next]_view
=============================================================================
