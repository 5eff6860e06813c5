--------------------------- MODULE MCAdminServer ---------------------------
(***************************************************************************)
(* Small directories and admin requests for AdminServer.                   *)
(***************************************************************************)
EXTENDS AdminServer

Str(x) == [type |-> "string", val |-> x]
Obj(x) == [type |-> "object", val |-> x]

Policy == Obj([kind |-> Str("Policy"), metadata |-> Obj([name |-> Str("a")]),
               spec |-> Obj([k \in {} |-> Absent])])
NoSpec == Obj([kind |-> Str("Router")])

TwoTexts == {Policy, NoSpec}
=============================================================================
