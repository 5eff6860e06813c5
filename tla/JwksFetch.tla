----------------------------- MODULE JwksFetch -----------------------------
(***************************************************************************)
(* JwksCache::fetch and httpGet: one HTTP/1.0 exchange on a blocking       *)
(* socket, against a server that may refuse, answer in pieces, stall,      *)
(* close early or reset the connection.  fetch is called again once it has *)
(* returned, for the next policy; nobody calls it after it threw.          *)
(*                                                                         *)
(* What the server means to answer is a record [line, header, end, body]:  *)
(* its first twelve bytes ("HTTP/1.x " and a status: "200", "404", or      *)
(* "???" for three characters that are no number; "junk" for bytes that    *)
(* are not HTTP), pieces of header, whether an empty line ends them, and   *)
(* pieces of body.  The connection carries these pieces in order.          *)
(***************************************************************************)
EXTENDS Integers, Sequences

CONSTANTS
  Uris,     \* of "empty", "invalid", "https", "http": what jwksUri is
  Text,     \* pieces of text, the first twelve bytes of an answer included
  Answers,  \* what the server may mean to answer
  Blank,    \* the piece "\r\n\r\n", which ends the header; a body may contain it too
  MaxRead,  \* bound: how many pieces fit into buf
  NoBody    \* nothing has been returned

ASSUME MaxReadAssumption == MaxRead \in Nat \ {0}

ASSUME AnswersAssumption ==
  /\ Blank \notin Text
  /\ \A a \in Answers : /\ a.line \in Text
                         /\ a.header \in Seq(Text)
                         /\ a.end \in BOOLEAN
                         /\ a.body \in Seq(Text \cup {Blank})

VARIABLES
  pc,       \* where fetch is: "idle" before a call, "returned" or "threw" at its end
  uri,      \* cfg.jwksUri
  addr,     \* res of getaddrinfo: "none", "held" or "freed"
  sock,     \* the socket: "none", "open" or "closed"
  answer,   \* what the server means to answer
  sent,     \* how many pieces of it the server has sent
  peer,     \* the server's end of the connection: "open", "closed", "reset"
  got,      \* how many pieces are in response
  ending,   \* what ended the recv loop: "none" yet, "eof", "reset", "timeout"
  error,    \* the type of the exception thrown, or "none"
  result    \* the body returned, or NoBody

client == <<uri, addr, sock, got, ending, error, result>>
server == <<answer, sent, peer>>
fetchVars == <<pc, client, server>>

Pieces(a) == <<a.line>> \o a.header \o (IF a.end THEN <<Blank>> \o a.body ELSE << >>)

(* fetch has not been called: uri and answer mean nothing yet.             *)
FetchInit ==
  /\ pc = "idle"
  /\ uri \in Uris
  /\ answer \in Answers
  /\ addr = "none" /\ sock = "none"
  /\ sent = 0 /\ peer = "open"
  /\ got = 0 /\ ending = "none"
  /\ error = "none" /\ result = NoBody

-----------------------------------------------------------------------------
(* JwksCache::fetch and httpGet                                            *)

Call ==
  /\ pc = "idle"
  /\ pc' = "start"
  /\ uri' \in Uris
  /\ answer' \in Answers
  /\ UNCHANGED <<addr, sock, got, ending, error, result, sent, peer>>

Throw(type) == pc' = "threw" /\ error' = type

CheckUri ==
  /\ pc = "start"
  /\ \/ uri = "http" /\ pc' = "lookup" /\ UNCHANGED error
     \/ uri \in {"empty", "https"} /\ Throw("runtime_error")
     \/ uri = "invalid" /\ Throw("invalid_argument")   \* folly::Uri
  /\ UNCHANGED <<uri, addr, sock, got, ending, result, server>>

GetAddrInfo ==
  /\ pc = "lookup"
  /\ \/ pc' = "socket" /\ addr' = "held" /\ UNCHANGED error
     \/ Throw("runtime_error") /\ UNCHANGED addr
  /\ UNCHANGED <<uri, sock, got, ending, result, server>>

Socket ==
  /\ pc = "socket"
  /\ \/ pc' = "connect" /\ sock' = "open" /\ UNCHANGED <<addr, error>>
     \/ Throw("runtime_error") /\ addr' = "freed" /\ UNCHANGED sock
  /\ UNCHANGED <<uri, got, ending, result, server>>

(* connect fails when it is refused, or after ten seconds.                 *)
Connect_KeepsSocket ==
  /\ pc = "connect"
  /\ addr' = "freed"
  /\ \/ pc' = "send" /\ UNCHANGED error
     \/ Throw("runtime_error")
  /\ UNCHANGED <<uri, sock, got, ending, result, server>>

Connect ==
  /\ pc = "connect"
  /\ addr' = "freed"
  /\ \/ pc' = "send" /\ UNCHANGED <<sock, error>>
     \/ Throw("runtime_error") /\ sock' = "closed"
  /\ UNCHANGED <<uri, got, ending, result, server>>

Send ==
  /\ pc = "send"
  /\ \/ pc' = "recv" /\ UNCHANGED <<sock, error>>
     \/ Throw("runtime_error") /\ sock' = "closed"
  /\ UNCHANGED <<uri, addr, got, ending, result, server>>

(* recv appends what has arrived to response.                              *)
Recv_OneMore ==
  /\ pc = "recv"
  /\ \E n \in 1 .. MaxRead :
       /\ got + n <= sent + 1
       /\ got' = got + n
  /\ UNCHANGED <<pc, uri, addr, sock, ending, error, result, server>>

Recv ==
  /\ pc = "recv"
  /\ \E n \in 1 .. MaxRead :
       /\ got + n <= sent
       /\ got' = got + n
  /\ UNCHANGED <<pc, uri, addr, sock, ending, error, result, server>>

(* recv returns 0 or -1: the end of the stream, a reset, which also drops  *)
(* what was not read yet, and ten seconds without data (SO_RCVTIMEO) all   *)
(* end the loop alike.                                                     *)
Ends(how) ==
  \/ how = "eof" /\ peer = "closed" /\ got = sent
  \/ how = "reset" /\ peer = "reset"
  \/ how = "timeout" /\ peer = "open" /\ got = sent

RecvEnds_NoTimeout ==
  /\ pc = "recv"
  /\ \E how \in {"eof", "reset"} : Ends(how) /\ ending' = how
  /\ sock' = "closed"
  /\ pc' = "status"
  /\ UNCHANGED <<uri, addr, got, error, result, server>>

RecvEnds ==
  /\ pc = "recv"
  /\ \E how \in {"eof", "reset", "timeout"} : Ends(how) /\ ending' = how
  /\ sock' = "closed"
  /\ pc' = "status"
  /\ UNCHANGED <<uri, addr, got, error, result, server>>

Response == SubSeq(Pieces(answer), 1, got)

Blanks(s) == {i \in DOMAIN s : s[i] = Blank}

(* response.find("\r\n\r\n")                                               *)
HeaderEnd_Last(s) == CHOOSE i \in Blanks(s) : \A j \in Blanks(s) : j <= i

HeaderEnd(s) == CHOOSE i \in Blanks(s) : \A j \in Blanks(s) : i <= j

(* How the exchange ended and Content-Length are not looked at, and what   *)
(* is returned need not be JSON.                                           *)
Rejected_WantsBody ==
  \/ got = 0
  \/ answer.line \notin {"200", "???"}
  \/ answer.line = "200" /\ Blanks(Response) \subseteq {got}

Rejected ==
  \/ got = 0
  \/ answer.line \notin {"200", "???"}
  \/ answer.line = "200" /\ Blanks(Response) = {}

Extract ==
  /\ pc = "status"
  /\ \/ Rejected /\ Throw("runtime_error") /\ UNCHANGED result
     \/ /\ ~ Rejected /\ answer.line = "???"               \* std::stoi
        /\ Throw("invalid_argument") /\ UNCHANGED result
     \/ /\ ~ Rejected /\ answer.line = "200"
        /\ pc' = "returned"
        /\ result' = SubSeq(Response, HeaderEnd(Response) + 1, got)
        /\ UNCHANGED error
  /\ UNCHANGED <<uri, addr, sock, got, ending, server>>

(* The caller has taken what was returned, and the locals are gone.        *)
Leave ==
  /\ pc = "returned"
  /\ pc' = "idle"
  /\ addr' = "none" /\ sock' = "none"
  /\ sent' = 0 /\ peer' = "open"
  /\ got' = 0 /\ ending' = "none"
  /\ result' = NoBody
  /\ UNCHANGED <<uri, answer, error>>

Fetch ==
  \/ CheckUri \/ GetAddrInfo \/ Socket \/ Connect \/ Send
  \/ Recv \/ RecvEnds \/ Extract

-----------------------------------------------------------------------------
(* The server                                                              *)

Connected == pc = "recv" /\ peer = "open"

ServerSends ==
  /\ Connected
  /\ sent < Len(Pieces(answer))
  /\ sent' = sent + 1
  /\ UNCHANGED <<pc, client, answer, peer>>

(* It closes when it is done, or crashes before.                           *)
ServerEnds ==
  /\ Connected
  /\ peer' \in {"closed", "reset"}
  /\ UNCHANGED <<pc, client, answer, sent>>

FetchNext == Call \/ Fetch \/ Leave \/ ServerSends \/ ServerEnds

FetchSpec == FetchInit /\ [][FetchNext]_fetchVars

-----------------------------------------------------------------------------
(* Properties                                                              *)

(* Every piece of state has a value of its type.                           *)
FetchTypeOK ==
  /\ pc \in {"idle", "start", "lookup", "socket", "connect", "send", "recv", "status",
             "returned", "threw"}
  /\ uri \in Uris
  /\ addr \in {"none", "held", "freed"}
  /\ sock \in {"none", "open", "closed"}
  /\ answer \in Answers
  /\ sent \in Nat
  /\ peer \in {"open", "closed", "reset"}
  /\ got \in 0 .. sent
  /\ ending \in {"none", "eof", "reset", "timeout"}
  /\ error \in {"none", "runtime_error", "invalid_argument"}

(* However fetch ends, it holds neither the address list nor the socket,   *)
(* and it uses neither after it gave it back.                              *)
NoLeak ==
  /\ pc \in {"returned", "threw"} => addr # "held" /\ sock # "open"
  /\ pc \in {"socket", "connect"} => addr = "held"
  /\ pc \in {"connect", "send", "recv"} => sock = "open"

(* A key set is returned only from a response with status 200, and it is   *)
(* the body that the server sent from its first piece, however the         *)
(* response was cut into segments and whatever the body contains; all of   *)
(* it if the server sent all and closed.                                   *)
BodyFaithful ==
  pc = "returned" =>
    /\ answer.line = "200"
    /\ \E n \in 0 .. Len(answer.body) : result = SubSeq(answer.body, 1, n)
    /\ (ending = "eof" /\ sent = Len(Pieces(answer))) => result = answer.body

(* Where BrokenGetThrows fails: whichever way the exchange ended, what was *)
(* received is taken for the response exactly when its status is 200 and   *)
(* the empty line that ends its header has come.                           *)
AcceptedExactly ==
  pc \in {"returned", "threw"} /\ ending # "none" =>
    (pc = "returned" <=> /\ answer.line = "200" /\ answer.end
                         /\ got >= Len(answer.header) + 2)

(* A GET that breaks before the response is complete, because the         *)
(* connection is reset or the server stalls, has failed and throws.        *)
BrokenGetThrows ==
  (ending \in {"reset", "timeout"} /\ got < Len(Pieces(answer))) => pc # "returned"
=============================================================================
