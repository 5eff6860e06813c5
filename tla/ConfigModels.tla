---------------------------- MODULE ConfigModels ----------------------------
(***************************************************************************)
(* The configuration resources and how they are read from JSON: the        *)
(* structures of config/models.h with their defaults, the fromJson         *)
(* functions, and ConfigLoader::dispatchDocument.                          *)
(*                                                                         *)
(* A JSON value is a record [type, val].  The val of an "object" is a      *)
(* function on its keys, that of an "array" a sequence.  A text that is    *)
(* not JSON at all is Unparsable.  apiVersion and kind, which are stored   *)
(* and never looked at again, are left out of the resources.               *)
(***************************************************************************)
EXTENDS Integers, Sequences

CONSTANTS
  Absent,      \* an empty std::optional
  Unparsable,  \* a text that folly::parseJson rejects
  IntRange     \* bound: how many values an int32_t has

(* Half of them are negative, and the defaults in the code are among them. *)
ASSUME IntRangeAssumption == IntRange \in Nat /\ IntRange % 2 = 0 /\ IntRange > 131072

-----------------------------------------------------------------------------
(* Access to JSON                                                          *)

Has(d, key) == key \in DOMAIN d.val

(* getStr, getInt, getBool: a value of another type counts as missing.     *)
Get(d, key, type, default) ==
  IF Has(d, key) /\ d.val[key].type = type THEN d.val[key].val ELSE default

GetStr(d, key, default) == Get(d, key, "string", default)

GetInt(d, key, default) == Get(d, key, "int", default)

GetBool(d, key, default) == Get(d, key, "bool", default)

(* static_cast<uint16_t> and static_cast<int32_t> of an int64_t; what a    *)
(* uint16_t may be is Uint16.                                              *)
U16_Unchecked(n) == n

U16(n) == n % 65536

Uint16 == {n \in Nat : n < 65536}

I32(n) == ((n + IntRange \div 2) % IntRange) - IntRange \div 2

(* The elements of an array that may be missing.                           *)
Items(d, key) == IF Has(d, key) THEN d.val[key].val ELSE << >>

Strings(d, key) == [i \in DOMAIN Items(d, key) |-> Items(d, key)[i].val]

(* get_ptr throws when it is used on what is not an object, iteration when *)
(* it is used on what is not an array, getString on what is not a string.  *)
(* So a section must be missing or an object, a list missing or an array   *)
(* of elements of one type.                                                *)
Section(d, key) == Has(d, key) => d.val[key].type = "object"

ListOf(d, key, type) ==
  Has(d, key) => /\ d.val[key].type = "array"
                 /\ \A i \in DOMAIN d.val[key].val : d.val[key].val[i].type = type

Name(d) == IF Has(d, "metadata") THEN GetStr(d.val["metadata"], "name", "") ELSE ""

-----------------------------------------------------------------------------
(* Listener                                                                *)

ListenerReads(spec) ==
  /\ ListOf(spec, "allowedHostnames", "string")
  /\ Section(spec, "tls")
  /\ Has(spec, "tls") => ListOf(spec.val["tls"], "certificates", "object")
  /\ Section(spec, "connection")

TlsConfig(tls) ==
  [mode         |-> GetStr(tls, "mode", "TERMINATE"),
   minVersion   |-> GetStr(tls, "minVersion", "1.2"),
   certificates |-> [i \in DOMAIN Items(tls, "certificates") |->
                       LET cert == Items(tls, "certificates")[i]
                       IN  [certRef |-> GetStr(cert, "certRef", ""),
                            keyRef  |-> GetStr(cert, "keyRef", "")]]]

ConnectionConfig(conn) ==
  [readTimeout    |-> GetStr(conn, "readTimeout", "30s"),
   writeTimeout   |-> GetStr(conn, "writeTimeout", "30s"),
   maxConnections |-> I32(GetInt(conn, "maxConnections", 0))]

ListenerConfig(d) ==
  LET spec == d.val["spec"]
  IN  [name             |-> Name(d),
       protocol         |-> GetStr(spec, "protocol", "HTTP"),
       port             |-> U16(GetInt(spec, "port", 18000)),
       host             |-> GetStr(spec, "host", "0.0.0.0"),
       allowedHostnames |-> Strings(spec, "allowedHostnames"),
       tls              |-> IF Has(spec, "tls") THEN TlsConfig(spec.val["tls"]) ELSE Absent,
       connection       |-> IF Has(spec, "connection")
                              THEN ConnectionConfig(spec.val["connection"]) ELSE Absent]

-----------------------------------------------------------------------------
(* Service                                                                 *)

ServiceReads(spec) ==
  /\ Section(spec, "loadBalancing")
  /\ Has(spec, "loadBalancing") => ListOf(spec.val["loadBalancing"], "targets", "object")

LoadBalancingTarget(t) ==
  [host   |-> GetStr(t, "host", ""),
   port   |-> U16(GetInt(t, "port", 80)),
   weight |-> I32(GetInt(t, "weight", 1))]

LoadBalancingDefault == [algorithm |-> "ROUND_ROBIN", targets |-> << >>]

LoadBalancingConfig(lb) ==
  [algorithm |-> GetStr(lb, "algorithm", "ROUND_ROBIN"),
   targets   |-> [i \in DOMAIN Items(lb, "targets") |->
                    LoadBalancingTarget(Items(lb, "targets")[i])]]

ServiceConfig(d) ==
  LET spec == d.val["spec"]
  IN  [name          |-> Name(d),
       protocol      |-> GetStr(spec, "protocol", "HTTP"),
       loadBalancing |-> IF Has(spec, "loadBalancing")
                           THEN LoadBalancingConfig(spec.val["loadBalancing"])
                           ELSE LoadBalancingDefault]

-----------------------------------------------------------------------------
(* Router                                                                  *)

RouterReads(spec) ==
  /\ Section(spec, "targetRef")
  /\ ListOf(spec, "rules", "object")
  /\ \A i \in DOMAIN Items(spec, "rules") :
       LET rule == Items(spec, "rules")[i]
       IN  /\ Has(rule, "pathType") => rule.val["pathType"].type = "string"
           /\ ListOf(rule, "methods", "string")
  /\ Section(spec, "config")
  /\ Has(spec, "config") =>
       /\ ListOf(spec.val["config"], "destinations", "object")
       /\ \A i \in DOMAIN Items(spec.val["config"], "destinations") :
            LET dest == Items(spec.val["config"], "destinations")[i]
            IN  Section(dest, "destinationRef") /\ Section(dest, "rewrite")
  /\ ListOf(spec, "policies", "string")

(* What is neither "Exact" nor "Regex" is a prefix, and so is a rule that  *)
(* does not say.                                                           *)
PathType(rule) ==
  LET given == GetStr(rule, "pathType", "Prefix")
  IN  IF given \in {"Exact", "Regex"} THEN given ELSE "Prefix"

RouterRule(rule) ==
  [path |-> GetStr(rule, "path", ""), pathType |-> PathType(rule),
   methods |-> Strings(rule, "methods")]

RefDefault == [kind |-> "Service", name |-> ""]

DestinationRef(ref) ==
  [kind |-> GetStr(ref, "kind", "Service"), name |-> GetStr(ref, "name", "")]

RewriteConfig(rw) == [path |-> GetStr(rw, "path", ""), host |-> GetStr(rw, "host", "")]

RouterDestination(dest) ==
  [ref     |-> IF Has(dest, "destinationRef")
                 THEN DestinationRef(dest.val["destinationRef"]) ELSE RefDefault,
   weight  |-> I32(GetInt(dest, "weight", 100)),
   rewrite |-> IF Has(dest, "rewrite") THEN RewriteConfig(dest.val["rewrite"]) ELSE Absent]

RouterConfig(d) ==
  LET spec  == d.val["spec"]
      dests == IF Has(spec, "config") THEN Items(spec.val["config"], "destinations") ELSE << >>
  IN  [name          |-> Name(d),
       targetRefName |-> IF Has(spec, "targetRef")
                           THEN GetStr(spec.val["targetRef"], "name", "") ELSE "",
       rules         |-> [i \in DOMAIN Items(spec, "rules") |->
                            RouterRule(Items(spec, "rules")[i])],
       destinations  |-> [i \in DOMAIN dests |-> RouterDestination(dests[i])],
       policies      |-> Strings(spec, "policies")]

-----------------------------------------------------------------------------
(* Policy.  A security section without jwt does no more than none, so the  *)
(* two optionals are one.                                                  *)

PolicyReads(spec) ==
  /\ Section(spec, "security")
  /\ Has(spec, "security") => Section(spec.val["security"], "jwt")

JwtConfig(jwt) ==
  [jwksUri         |-> GetStr(jwt, "jwksUri", ""),
   issuer          |-> GetStr(jwt, "issuer", ""),
   audience        |-> GetStr(jwt, "audience", ""),
   cacheTtlSeconds |-> I32(GetInt(jwt, "cacheTtlSeconds", 300))]

PolicyConfig(d) ==
  LET spec == d.val["spec"]
      secured == Has(spec, "security") /\ Has(spec.val["security"], "jwt")
  IN  [name  |-> Name(d),
       order |-> I32(GetInt(spec, "order", 0)),
       jwt   |-> IF secured THEN JwtConfig(spec.val["security"].val["jwt"]) ELSE Absent]

-----------------------------------------------------------------------------
(* Gateway                                                                 *)

GatewayReads(spec) ==
  /\ Section(spec, "observability")
  /\ Has(spec, "observability") => Section(spec.val["observability"], "accessLog")
  /\ Section(spec, "server")

AccessLogDefault == [enabled |-> TRUE, format |-> "JSON"]

AccessLogConfig(al) ==
  [enabled |-> GetBool(al, "enabled", TRUE), format |-> GetStr(al, "format", "JSON")]

ServerTuningDefault ==
  [workerThreads |-> 0, idleTimeoutMs |-> 60000, listenBacklog |-> 1024,
   maxConcurrentStreams |-> 100, initialReceiveWindowBytes |-> 65536,
   useZeroCopy |-> FALSE]

ServerTuningConfig_OtherDefaults(srv) ==
  [workerThreads             |-> I32(GetInt(srv, "workerThreads", 0)),
   idleTimeoutMs             |-> I32(GetInt(srv, "idleTimeoutMs", 0)),
   listenBacklog             |-> I32(GetInt(srv, "listenBacklog", 1024)),
   maxConcurrentStreams      |-> I32(GetInt(srv, "maxConcurrentStreams", 100)),
   initialReceiveWindowBytes |-> I32(GetInt(srv, "initialReceiveWindowBytes", 65536)),
   useZeroCopy               |-> GetBool(srv, "useZeroCopy", FALSE)]

ServerTuningConfig(srv) ==
  [workerThreads             |-> I32(GetInt(srv, "workerThreads", 0)),
   idleTimeoutMs             |-> I32(GetInt(srv, "idleTimeoutMs", 60000)),
   listenBacklog             |-> I32(GetInt(srv, "listenBacklog", 1024)),
   maxConcurrentStreams      |-> I32(GetInt(srv, "maxConcurrentStreams", 100)),
   initialReceiveWindowBytes |-> I32(GetInt(srv, "initialReceiveWindowBytes", 65536)),
   useZeroCopy               |-> GetBool(srv, "useZeroCopy", FALSE)]

GatewayConfig(d) ==
  LET spec   == d.val["spec"]
      logged == Has(spec, "observability") /\ Has(spec.val["observability"], "accessLog")
  IN  [name      |-> Name(d),
       accessLog |-> IF logged THEN AccessLogConfig(spec.val["observability"].val["accessLog"])
                               ELSE AccessLogDefault,
       server    |-> IF Has(spec, "server") THEN ServerTuningConfig(spec.val["server"])
                                            ELSE ServerTuningDefault]

-----------------------------------------------------------------------------
(* ConfigLoader::dispatchDocument                                          *)

EmptyStore ==
  [gateway |-> Absent, listeners |-> << >>, routers |-> << >>,
   services |-> << >>, policies |-> << >>]

(* Reading a text throws when it is not JSON, when it is not an object, or *)
(* when the fromJson of its kind does.  One without a kind, or of a kind   *)
(* that is not implemented, is skipped.                                    *)
Kind(d) == GetStr(d, "kind", "")

Reads(d) ==
  /\ Section(d, "metadata")
  /\ Has(d, "spec")
  /\ Section(d, "spec")
  /\ LET spec == d.val["spec"]
     IN  CASE Kind(d) = "Listener" -> ListenerReads(spec)
           [] Kind(d) = "Router"   -> RouterReads(spec)
           [] Kind(d) = "Service"  -> ServiceReads(spec)
           [] Kind(d) = "Gateway"  -> GatewayReads(spec)
           [] Kind(d) = "Policy"   -> PolicyReads(spec)

Implemented(d) == Kind(d) \in {"Listener", "Router", "Service", "Gateway", "Policy"}

Throws(text) ==
  \/ text = Unparsable
  \/ text.type # "object"
  \/ Implemented(text) /\ ~ Reads(text)

(* Resources are appended; of several Gateways the last one stays.         *)
Dispatch(d, store) ==
  CASE Kind(d) = "Listener" -> [store EXCEPT !.listeners = Append(@, ListenerConfig(d))]
    [] Kind(d) = "Router"   -> [store EXCEPT !.routers = Append(@, RouterConfig(d))]
    [] Kind(d) = "Service"  -> [store EXCEPT !.services = Append(@, ServiceConfig(d))]
    [] Kind(d) = "Gateway"  -> [store EXCEPT !.gateway = GatewayConfig(d)]
    [] Kind(d) = "Policy"   -> [store EXCEPT !.policies = Append(@, PolicyConfig(d))]
    [] OTHER -> store

-----------------------------------------------------------------------------
(* What the data plane is started with: main() and GatewayServer           *)

U32(n) == n % IntRange

SizeT(n) == n % (2 * IntRange)   \* wider than an int32_t

(* The thread count of a negative workerThreads, as of 0, is the number of *)
(* cores.  (The sizes of the three receive windows are one value.)         *)
Options(threads, tuning) ==
  [threads       |-> threads,
   idleTimeout   |-> tuning.idleTimeoutMs,
   listenBacklog |-> U32(tuning.listenBacklog),
   maxStreams    |-> U32(tuning.maxConcurrentStreams),
   receiveWindow |-> SizeT(tuning.initialReceiveWindowBytes),
   useZeroCopy   |-> tuning.useZeroCopy]

Tuning(s) == IF s.gateway = Absent THEN ServerTuningDefault ELSE s.gateway.server

ServerOptions_AnyCount(s, cores) ==
  Options(IF Tuning(s).workerThreads # 0 THEN SizeT(Tuning(s).workerThreads) ELSE cores,
          Tuning(s))

ServerOptions(s, cores) ==
  Options(IF Tuning(s).workerThreads > 0 THEN SizeT(Tuning(s).workerThreads) ELSE cores,
          Tuning(s))

(* A default listener stands in when there is none.                        *)
DataListeners(s, defaultPort) ==
  IF s.listeners # << >> THEN s.listeners
  ELSE << [name |-> "default", protocol |-> "HTTP", port |-> U16(defaultPort),
           host |-> "0.0.0.0", allowedHostnames |-> << >>, tls |-> Absent,
           connection |-> Absent] >>
=============================================================================
