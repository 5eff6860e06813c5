-------------------------- MODULE MCGatewayProcess --------------------------
(***************************************************************************)
(* Small configurations for GatewayProcess.                                *)
(***************************************************************************)
EXTENDS GatewayProcess

Policy(name, order, jwt) == [name |-> name, order |-> order, jwt |-> jwt]

(* No policy; two that guard one router, one of them listed twice, next to *)
(* one without jwt and a name that nobody has; two of equal order.         *)
DistinctNames ==
  { [policies |-> << >>, routers |-> << << >> >>],
    [policies |-> <<Policy("a", 5, "cfgA"), Policy("p", 1, Absent), Policy("b", 2, "cfgB")>>,
     routers |-> << <<"a", "x", "p", "b", "a">>, <<"b">> >>],
    [policies |-> <<Policy("b", 3, "cfgC"), Policy("a", 3, "cfgA")>>,
     routers |-> << <<"a", "b">> >>] }

(* Two policies of one name.                                               *)
SameName ==
  { [policies |-> <<Policy("a", 1, "cfgA"), Policy("a", 2, "cfgB")>>,
     routers |-> << <<"a">> >>] }

(* Both, and a name that a policy without jwt takes up again.              *)
AllStores ==
  DistinctNames \cup SameName \cup
  { [policies |-> <<Policy("a", 1, "cfgA"), Policy("a", 2, Absent)>>,
     routers |-> << <<"a">> >>] }
=============================================================================
