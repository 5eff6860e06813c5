--------------------------- MODULE MCGatewaySystem ---------------------------
(***************************************************************************)
(* Small directories for GatewaySystem.                                    *)
(***************************************************************************)
EXTENDS GatewaySystem, TLC

Str(x) == [type |-> "string", val |-> x]
Obj(x) == [type |-> "object", val |-> x]
Arr(x) == [type |-> "array", val |-> x]
Doc(kind, name, spec) ==
  Obj([kind |-> Str(kind), metadata |-> Obj([name |-> Str(name)]), spec |-> Obj(spec)])

Jwt == Doc("Policy", "a", [security |-> Obj([jwt |-> Obj([jwksUri |-> Str("u")])])])
Router == Doc("Router", "r", [policies |-> Arr(<<Str("b"), Str("a")>>)])
Plain == Doc("Policy", "b", [k \in {} |-> Absent])

SomeTexts == {Jwt, Router, Plain, Unparsable}

FileSymmetry == Permutations(Files)
=============================================================================
