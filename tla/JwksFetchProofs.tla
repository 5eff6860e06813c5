--------------------------- MODULE JwksFetchProofs ---------------------------
(***************************************************************************)
(* Theorems about JwksFetch, for any server and any way of cutting its     *)
(* answer into segments, and about GatewayStartup, which calls it.         *)
(***************************************************************************)
EXTENDS GatewayStartup, SequenceTheorems, TLAPS

(* Where the body begins, if the header is ended.                          *)
Start(a) == Len(a.header) + 2

(* Concatenation, element by element.                                      *)
LEMMA Concat ==
  ASSUME NEW S, NEW s \in Seq(S), NEW t \in Seq(S)
  PROVE  /\ s \o t \in Seq(S)
         /\ Len(s) \in Nat /\ Len(t) \in Nat
         /\ Len(s \o t) = Len(s) + Len(t)
         /\ \A i \in 1 .. Len(s) : (s \o t)[i] = s[i]
         /\ \A i \in 1 .. Len(t) : (s \o t)[Len(s) + i] = t[i]
OBVIOUS

(* The two sums the next lemma needs.                                      *)
LEMMA Sums ==
  ASSUME NEW h \in Nat, NEW b \in Nat
  PROVE  /\ (h + 1) + (b + 1) = h + 2 + b
         /\ \A j \in 1 .. b : j + 1 \in 1 .. b + 1 /\ h + 1 + (j + 1) = h + 2 + j
OBVIOUS

(* What the pieces of an answer are.                                       *)
LEMMA PiecesAre ==
  ASSUME NEW a \in Answers
  PROVE  LET h == Len(a.header)
             s == Pieces(a)
         IN  /\ h \in Nat
             /\ s \in Seq(Text \cup {Blank})
             /\ s[1] = a.line
             /\ \A i \in 1 .. h : s[i + 1] = a.header[i]
             /\ ~ a.end => Len(s) = h + 1
             /\ a.end => /\ Len(s) = h + 2 + Len(a.body)
                         /\ s[h + 2] = Blank
                         /\ \A j \in 1 .. Len(a.body) : s[h + 2 + j] = a.body[j]
<1> DEFINE h == Len(a.header)
           T == Text \cup {Blank}
<1>p. PICK p : p = <<a.line>> \o a.header
  BY Zenon
<1>q. PICK q : q = <<Blank>> \o a.body
  BY Zenon
<1>1. a.line \in T /\ a.header \in Seq(T) /\ a.body \in Seq(T) /\ a.end \in BOOLEAN /\ Blank \in T
  BY AnswersAssumption
<1>2. h \in Nat /\ Len(a.body) \in Nat
  BY <1>1
<1>3. p \in Seq(T) /\ Len(p) = h + 1 /\ p[1] = a.line /\ \A i \in 1 .. h : p[i + 1] = a.header[i]
  BY <1>1, <1>p
<1>4. q \in Seq(T) /\ Len(q) = Len(a.body) + 1 /\ q[1] = Blank
      /\ \A j \in 1 .. Len(a.body) : q[j + 1] = a.body[j]
  BY <1>1, <1>q
<1>5. CASE ~ a.end
  <2>1. Pieces(a) = p \o << >>
    BY <1>5, <1>p DEF Pieces
  <2>2. Pieces(a) \in Seq(T) /\ Len(Pieces(a)) = Len(p) /\ \A i \in 1 .. Len(p) : Pieces(a)[i] = p[i]
    BY <1>3, <2>1
  <2>3. Len(Pieces(a)) = h + 1
    BY <1>3, <2>2
  <2>4. \A i \in 1 .. h : Pieces(a)[i + 1] = a.header[i]
    BY <1>2, <1>3, <2>2
  <2>5. Pieces(a)[1] = a.line
    BY <1>2, <1>3, <2>2
  <2> QED
    BY <1>2, <1>5, <2>2, <2>3, <2>4, <2>5, Zenon
<1>6. CASE a.end
  <2>1. Pieces(a) = p \o q
    BY <1>6, <1>p, <1>q, Zenon DEF Pieces
  <2>2. /\ Pieces(a) \in Seq(T) /\ Len(Pieces(a)) = Len(p) + Len(q)
        /\ \A i \in 1 .. Len(p) : Pieces(a)[i] = p[i]
        /\ \A j \in 1 .. Len(q) : Pieces(a)[Len(p) + j] = q[j]
    <3>1. p \in Seq(T) /\ q \in Seq(T)
      BY <1>3, <1>4, Zenon
    <3>2. /\ p \o q \in Seq(T) /\ Len(p \o q) = Len(p) + Len(q)
          /\ \A i \in 1 .. Len(p) : (p \o q)[i] = p[i]
          /\ \A j \in 1 .. Len(q) : (p \o q)[Len(p) + j] = q[j]
      BY ONLY <3>1, Concat
    <3> QED
      BY <2>1, <3>2, Zenon
  <2>3. Pieces(a)[1] = a.line /\ \A i \in 1 .. h : Pieces(a)[i + 1] = a.header[i]
    <3>1. 1 \in 1 .. Len(p) /\ \A i \in 1 .. h : i + 1 \in 1 .. Len(p)
      BY ONLY <1>2, <1>3
    <3> QED
      BY <1>3, <2>2, <3>1, ZenonT(40)
  <2>4. Pieces(a)[h + 2] = Blank /\ \A j \in 1 .. Len(a.body) : Pieces(a)[h + 2 + j] = a.body[j]
    <3>1. \A j \in 1 .. Len(a.body) + 1 : Pieces(a)[h + 1 + j] = q[j]
      BY <1>3, <1>4, <2>2, Zenon
    <3>2. Pieces(a)[h + 1 + 1] = q[1]
      BY <1>2, <3>1
    <3>3. ASSUME NEW j \in 1 .. Len(a.body) PROVE Pieces(a)[h + 2 + j] = a.body[j]
      <4>1. j + 1 \in 1 .. Len(a.body) + 1 /\ h + 1 + (j + 1) = h + 2 + j
        BY <1>2, Sums, ZenonT(40)
      <4>2. Pieces(a)[h + 1 + (j + 1)] = q[j + 1]
        BY <3>1, <4>1, ZenonT(40)
      <4> QED
        BY <1>4, <4>1, <4>2, ZenonT(40)
    <3>4. h + 1 + 1 = h + 2
      BY ONLY <1>2
    <3> QED
      BY <1>4, <3>2, <3>3, <3>4, ZenonT(40)
  <2>5. Len(Pieces(a)) = h + 2 + Len(a.body)
    <3>1. Len(Pieces(a)) = (h + 1) + (Len(a.body) + 1)
      BY <1>3, <1>4, <2>2, Zenon
    <3>2. (h + 1) + (Len(a.body) + 1) = h + 2 + Len(a.body)
      BY <1>2, Sums, Zenon
    <3> QED
      BY <3>1, <3>2, Zenon
  <2> QED
    BY <1>2, <1>6, <2>2, <2>3, <2>4, <2>5, Zenon
<1> QED
  BY <1>1, <1>5, <1>6, Zenon

(* The first n pieces of an answer, element by element.                    *)
LEMMA PrefixIs ==
  ASSUME NEW S, NEW s \in Seq(S), NEW n \in 0 .. Len(s)
  PROVE  /\ SubSeq(s, 1, n) \in Seq(S)
         /\ Len(SubSeq(s, 1, n)) = n
         /\ \A i \in 1 .. n : SubSeq(s, 1, n)[i] = s[i]
OBVIOUS

(* What follows position k in the first n pieces, element by element.      *)
LEMMA RestIs ==
  ASSUME NEW S, NEW s \in Seq(S), NEW k \in 0 .. Len(s)
  PROVE  /\ SubSeq(s, k + 1, Len(s)) \in Seq(S)
         /\ Len(SubSeq(s, k + 1, Len(s))) = Len(s) - k
         /\ \A i \in 1 .. Len(s) - k : SubSeq(s, k + 1, Len(s))[i] = s[k + i]
OBVIOUS

(* Sequences with the same elements are equal.                             *)
LEMMA SameElements ==
  ASSUME NEW S, NEW s \in Seq(S), NEW t \in Seq(S), Len(s) = Len(t),
         \A i \in 1 .. Len(s) : s[i] = t[i]
  PROVE  s = t
OBVIOUS

(* The first empty line of a response is the one that ends the header.     *)
LEMMA FirstBlank ==
  ASSUME NEW a \in Answers, NEW n \in 0 .. Len(Pieces(a)),
         Blanks(SubSeq(Pieces(a), 1, n)) # {}
  PROVE  /\ a.end
         /\ Start(a) \in 1 .. n
         /\ HeaderEnd(SubSeq(Pieces(a), 1, n)) = Start(a)
<1> DEFINE s == Pieces(a)
           h == Len(a.header)
           B == Blanks(SubSeq(s, 1, n))
<1>1. h \in Nat /\ s \in Seq(Text \cup {Blank}) /\ Len(s) \in Nat /\ n \in Nat /\ n <= Len(s)
  <2>1. h \in Nat /\ s \in Seq(Text \cup {Blank})
    BY PiecesAre, Zenon
  <2>2. Len(s) \in Nat
    BY <2>1, Zenon, LenProperties
  <2> QED
    BY <2>1, <2>2
<1>2. B = {i \in 1 .. n : s[i] = Blank}
  <2>1. DOMAIN SubSeq(s, 1, n) = 1 .. n
    BY <1>1, PrefixIs
  <2> QED
    BY <1>1, <2>1, PrefixIs, ZenonT(40) DEF Blanks
<1>3. \A i \in 1 .. h + 1 : s[i] # Blank
  <2>1. s[1] # Blank
    BY PiecesAre, AnswersAssumption, Zenon
  <2>2. ASSUME NEW i \in 1 .. h PROVE s[i + 1] # Blank
    <3>1. a.header[i] \in Text
      BY AnswersAssumption, ElementOfSeq, Zenon
    <3>2. s[i + 1] = a.header[i]
      BY PiecesAre, Zenon
    <3> QED
      BY <3>1, <3>2, AnswersAssumption, Zenon
  <2>3. ASSUME NEW i \in 1 .. h + 1 PROVE i = 1 \/ \E j \in 1 .. h : i = j + 1
    <3>1. i = 1 \/ i - 1 \in 1 .. h
      BY <1>1
    <3> QED
      BY <1>1, <3>1
  <2> QED
    BY <2>1, <2>2, <2>3, Zenon
<1>4. \A i \in B : i \in 1 .. n /\ i >= h + 2
  <2>1. \A i \in 1 .. n : i \in 1 .. h + 1 \/ i >= h + 2
    BY ONLY <1>1
  <2> QED
    BY <1>2, <1>3, <2>1, ZenonT(40)
<1>5. n >= h + 2
  <2>1. PICK i \in B : i \in 1 .. n /\ i >= h + 2
    BY <1>4, Zenon
  <2> QED
    BY <1>1, <2>1
<1>6. a.end
  <2>1. ~ a.end => Len(s) = h + 1
    BY PiecesAre, Zenon
  <2> QED
    BY <1>1, <1>5, <2>1
<1>7. h + 2 \in B
  <2>1. s[h + 2] = Blank
    BY <1>6, PiecesAre, Zenon
  <2>2. h + 2 \in 1 .. n
    BY <1>1, <1>5
  <2> QED
    BY <1>2, <2>1, <2>2, Zenon
<1>8. HeaderEnd(SubSeq(s, 1, n)) \in B /\ \A j \in B : HeaderEnd(SubSeq(s, 1, n)) <= j
  <2>1. \E i \in B : \A j \in B : i <= j
    <3>1. \A j \in B : h + 2 <= j
      BY <1>1, <1>4
    <3> QED
      BY <1>7, <3>1, Zenon
  <2> QED
    BY <2>1, Zenon DEF HeaderEnd
<1>9. HeaderEnd(SubSeq(s, 1, n)) = h + 2
  <2>1. \A i \in 1 .. n : i >= h + 2 /\ i <= h + 2 => i = h + 2
    BY ONLY <1>1
  <2> QED
    BY <1>4, <1>7, <1>8, <2>1, ZenonT(40)
<1>10. h + 2 \in 1 .. n
  BY ONLY <1>1, <1>5
<1> QED
  BY <1>6, <1>9, <1>10, ZenonT(40) DEF Start

(* What follows that line is the beginning of the body.                    *)
LEMMA BodyIs ==
  ASSUME NEW a \in Answers, NEW n \in 0 .. Len(Pieces(a)), a.end, Start(a) \in 1 .. n
  PROVE  /\ n - Start(a) \in 0 .. Len(a.body)
         /\ SubSeq(SubSeq(Pieces(a), 1, n), Start(a) + 1, n)
              = SubSeq(a.body, 1, n - Start(a))
<1> DEFINE T == Text \cup {Blank}
<1>h. PICK h : h = Start(a)
  BY Zenon
<1>k. PICK k : k = n - h
  BY Zenon
<1>r. PICK r : r = SubSeq(Pieces(a), 1, n)
  BY Zenon
<1>1. /\ h \in Nat /\ n \in Nat /\ h <= n
      /\ Pieces(a) \in Seq(T)
      /\ Len(Pieces(a)) = h + Len(a.body)
      /\ \A j \in 1 .. Len(a.body) : Pieces(a)[h + j] = a.body[j]
  <2>1. /\ h = Len(a.header) + 2 /\ Len(a.header) \in Nat
        /\ Pieces(a) \in Seq(T)
        /\ Len(Pieces(a)) = h + Len(a.body)
        /\ \A j \in 1 .. Len(a.body) : Pieces(a)[h + j] = a.body[j]
    BY <1>h, PiecesAre, Zenon DEF Start
  <2>2. h \in Nat
    BY <2>1
  <2>3. n \in Nat /\ h <= n
    BY <1>h, <2>2
  <2> QED
    BY <2>1, <2>2, <2>3, Zenon
<1>2. a.body \in Seq(T) /\ Len(a.body) \in Nat
  BY AnswersAssumption
<1>3. k \in 0 .. Len(a.body) /\ n = h + k /\ k \in Nat
  BY <1>1, <1>2, <1>k
<1>4. r \in Seq(T) /\ Len(r) = n /\ \A i \in 1 .. n : r[i] = Pieces(a)[i]
  BY <1>1, <1>r, PrefixIs
<1>5. /\ SubSeq(r, h + 1, n) \in Seq(T)
      /\ Len(SubSeq(r, h + 1, n)) = k
      /\ \A i \in 1 .. k : SubSeq(r, h + 1, n)[i] = r[h + i]
  <2>1. h \in 0 .. Len(r)
    BY <1>1, <1>4
  <2>2. /\ SubSeq(r, h + 1, Len(r)) \in Seq(T)
        /\ Len(SubSeq(r, h + 1, Len(r))) = Len(r) - h
        /\ \A i \in 1 .. Len(r) - h : SubSeq(r, h + 1, Len(r))[i] = r[h + i]
    BY <1>4, <2>1, RestIs
  <2>3. Len(r) = n /\ n - h = k
    BY <1>4, <1>k, Zenon
  <2> QED
    BY <2>2, <2>3, Zenon
<1>6. /\ SubSeq(a.body, 1, k) \in Seq(T) /\ Len(SubSeq(a.body, 1, k)) = k
      /\ \A i \in 1 .. k : SubSeq(a.body, 1, k)[i] = a.body[i]
  <2>1. a.body \in Seq(T) /\ k \in 0 .. Len(a.body)
    BY <1>2, <1>3, Zenon
  <2> HIDE DEF T
  <2> QED
    BY ONLY <2>1, PrefixIs
<1>7. ASSUME NEW i \in 1 .. k PROVE r[h + i] = a.body[i]
  <2>1. h + i \in 1 .. n /\ i \in 1 .. Len(a.body)
    BY <1>1, <1>2, <1>3
  <2>2. r[h + i] = Pieces(a)[h + i]
    BY <1>4, <2>1, Zenon
  <2> QED
    BY <1>1, <2>1, <2>2, Zenon
<1>8. SubSeq(r, h + 1, n) = SubSeq(a.body, 1, k)
  <2>1. PICK u : u = SubSeq(r, h + 1, n)
    BY Zenon
  <2>2. PICK v : v = SubSeq(a.body, 1, k)
    BY Zenon
  <2>3. u \in Seq(T) /\ v \in Seq(T) /\ Len(u) = k /\ Len(v) = k
    BY <1>5, <1>6, <2>1, <2>2, Zenon
  <2>4. \A i \in 1 .. k : u[i] = v[i]
    BY <1>5, <1>6, <1>7, <2>1, <2>2, Zenon
  <2>5. u = v
    BY ONLY <2>3, <2>4, SameElements, Zenon
  <2> QED
    BY <2>1, <2>2, <2>5, Zenon
<1> QED
  BY <1>3, <1>8, <1>h, <1>k, <1>r, Zenon

-----------------------------------------------------------------------------
(* What fetch holds at each point.                                         *)
Resources ==
  /\ pc \in {"idle", "start", "lookup"} => addr = "none" /\ sock = "none"
  /\ pc = "socket" => addr = "held" /\ sock = "none"
  /\ pc = "connect" => addr = "held" /\ sock = "open"
  /\ pc \in {"send", "recv"} => addr = "freed" /\ sock = "open"
  /\ pc \in {"status", "returned", "threw"} => addr # "held" /\ sock # "open"

(* The server sends no more than it means to, and the end of its stream is *)
(* seen after all it sent; before a call there is no stream.               *)
Stream ==
  /\ pc = "idle" => sent = 0 /\ ending = "none"
  /\ sent <= Len(Pieces(answer))
  /\ ending = "eof" => got = sent /\ pc \in {"status", "returned", "threw"}

(* What is returned is what was received after the header.                 *)
Extracted ==
  pc = "returned" =>
    /\ answer.line = "200"
    /\ answer.end
    /\ Start(answer) \in 1 .. got
    /\ result = SubSeq(answer.body, 1, got - Start(answer))

(* The inductive invariant.                                                *)
FetchInv == FetchTypeOK /\ Resources /\ Stream /\ Extracted

(* The number of pieces of an answer.                                      *)
LEMMA CountOfPieces == ASSUME NEW a \in Answers PROVE Len(Pieces(a)) \in Nat
BY PiecesAre, LenProperties, Zenon

(* It holds at first.                                                      *)
LEMMA FetchInvInit == FetchInit => FetchInv
<1> SUFFICES ASSUME FetchInit PROVE FetchInv
  OBVIOUS
<1>1. FetchTypeOK /\ Resources /\ Extracted
  BY DEF FetchInit, FetchTypeOK, Resources, Extracted
<1>2. answer \in Answers /\ sent = 0 /\ ending = "none"
  BY DEF FetchInit
<1>3. Stream
  <2>1. Len(Pieces(answer)) \in Nat
    BY <1>2, CountOfPieces
  <2> QED
    BY <1>2, <2>1 DEF Stream
<1> QED
  BY <1>1, <1>3 DEF FetchInv

(* It is kept by every step: fetch takes its system calls one by one, and  *)
(* only Extract decides what is returned.                                  *)
LEMMA FetchInvNext == FetchInv /\ [FetchNext]_fetchVars => FetchInv'
<1> SUFFICES ASSUME FetchInv, [FetchNext]_fetchVars PROVE FetchInv'
  OBVIOUS
<1> USE DEF FetchInv
<1>0. Len(Pieces(answer)) \in Nat
  BY CountOfPieces DEF FetchTypeOK
<1>1. ASSUME CheckUri \/ GetAddrInfo \/ Socket \/ Connect \/ Send PROVE FetchInv'
  <2>1. FetchTypeOK' /\ Resources'
    BY <1>1, ZenonT(40) DEF CheckUri, GetAddrInfo, Socket, Connect, Send, Throw, server, FetchTypeOK, Resources
  <2>2. /\ UNCHANGED <<answer, sent, got, ending, result>>
        /\ pc \notin {"status", "returned", "threw"} /\ pc' \notin {"idle", "returned"}
    BY <1>1, ZenonT(40) DEF CheckUri, GetAddrInfo, Socket, Connect, Send, Throw, server
  <2>3. Stream'
    BY <2>2, ZenonT(40) DEF Stream
  <2>4. Extracted'
    BY <2>2, ZenonT(40) DEF Extracted
  <2> QED
    BY <2>1, <2>3, <2>4, ZenonT(40)
<1>2. CASE Recv
  <2>1. FetchTypeOK' /\ Resources'
    <3>1. /\ \E n \in 1 .. MaxRead : got + n <= sent /\ got' = got + n
          /\ got \in 0 .. sent /\ sent \in Nat
      BY <1>2, ZenonT(40) DEF Recv, FetchTypeOK
    <3>2. got' \in 0 .. sent
      BY ONLY <3>1, MaxReadAssumption
    <3> QED
      BY <1>2, <3>2, ZenonT(40) DEF Recv, server, FetchTypeOK, Resources
  <2>2. pc = "recv" /\ pc' = "recv" /\ UNCHANGED <<answer, sent, ending>>
    BY <1>2, ZenonT(40) DEF Recv, server
  <2>3. Stream' /\ Extracted'
    BY <2>2, ZenonT(40) DEF Stream, Extracted
  <2> QED
    BY <2>1, <2>3, ZenonT(40)
<1>3. CASE RecvEnds
  <2>1. FetchTypeOK' /\ Resources'
    BY <1>3, ZenonT(40) DEF RecvEnds, server, FetchTypeOK, Resources
  <2>2. /\ pc' = "status" /\ UNCHANGED <<answer, sent, got>>
        /\ ending' = "eof" => got = sent
    BY <1>3, ZenonT(40) DEF RecvEnds, Ends, server
  <2>3. Stream' /\ Extracted'
    BY <2>2, ZenonT(40) DEF Stream, Extracted
  <2> QED
    BY <2>1, <2>3, ZenonT(40)
<1>4. CASE Extract
  <2>1. FetchTypeOK' /\ Resources'
    BY <1>4, ZenonT(40) DEF Extract, Throw, server, FetchTypeOK, Resources
  <2>2. /\ pc = "status" /\ pc' \in {"returned", "threw"}
        /\ UNCHANGED <<answer, sent, got, ending>>
    BY <1>4, ZenonT(40) DEF Extract, Throw, server
  <2>3. Stream'
    BY <2>2, ZenonT(40) DEF Stream
  <2>4. ASSUME pc' = "returned" PROVE Extracted'
    <3>1. /\ answer.line = "200" /\ ~ Rejected
          /\ result' = SubSeq(Response, HeaderEnd(Response) + 1, got)
      BY <1>4, <2>4, ZenonT(40) DEF Extract, Throw
    <3>2. answer \in Answers /\ got \in 0 .. Len(Pieces(answer)) /\ Blanks(Response) # {}
      BY <1>0, <3>1 DEF Rejected, FetchTypeOK, Stream
    <3>3. answer.end /\ Start(answer) \in 1 .. got /\ HeaderEnd(Response) = Start(answer)
      BY <3>2, FirstBlank, Zenon DEF Response
    <3>4. result' = SubSeq(answer.body, 1, got - Start(answer))
      BY <3>1, <3>2, <3>3, BodyIs, Zenon DEF Response
    <3> QED
      BY <2>2, <3>1, <3>3, <3>4, Zenon DEF Extracted, Start
  <2> QED
    BY <2>1, <2>3, <2>4, ZenonT(40) DEF Extracted
<1>5. CASE ServerSends
  <2>1. FetchTypeOK' /\ Resources'
    <3>1. sent' = sent + 1 /\ got' = got /\ got \in 0 .. sent /\ sent \in Nat
      BY <1>5, ZenonT(40) DEF ServerSends, client, FetchTypeOK
    <3>2. sent' \in Nat /\ got' \in 0 .. sent'
      BY ONLY <3>1
    <3> QED
      BY <1>5, <3>2, ZenonT(40) DEF ServerSends, client, FetchTypeOK, Resources
  <2>2. /\ pc = "recv" /\ pc' = pc /\ UNCHANGED <<answer, got, ending>>
        /\ sent < Len(Pieces(answer)) /\ sent' = sent + 1
    BY <1>5, ZenonT(40) DEF ServerSends, Connected, client
  <2>3. Stream'
    <3>1. sent \in Nat /\ got \in 0 .. sent
      BY Zenon DEF FetchTypeOK
    <3>2. sent' <= Len(Pieces(answer))
      BY ONLY <1>0, <2>2, <3>1
    <3> QED
      BY <2>2, <3>2, ZenonT(40) DEF Stream
  <2>4. Extracted'
    BY <2>2, ZenonT(40) DEF Extracted
  <2> QED
    BY <2>1, <2>3, <2>4, ZenonT(40)
<1>6. CASE ServerEnds
  BY <1>6, ZenonT(90) DEF ServerEnds, client, FetchTypeOK, Resources, Stream, Extracted
<1>7. CASE Call
  <2>1. FetchTypeOK' /\ Resources'
    BY <1>7, ZenonT(40) DEF Call, FetchTypeOK, Resources
  <2>2. /\ pc = "idle" /\ pc' = "start" /\ answer' \in Answers
        /\ UNCHANGED <<sent, ending>>
    BY <1>7, ZenonT(40) DEF Call
  <2>3. sent' = 0 /\ ending' = "none"
    BY <2>2, ZenonT(40) DEF Stream
  <2>4. sent' <= Len(Pieces(answer'))
    <3>1. Len(Pieces(answer')) \in Nat
      BY <2>2, CountOfPieces, Zenon
    <3> QED
      BY ONLY <2>3, <3>1
  <2>5. Stream' /\ Extracted'
    BY <2>2, <2>3, <2>4, ZenonT(40) DEF Stream, Extracted
  <2> QED
    BY <2>1, <2>5, ZenonT(40)
<1>8. CASE Leave
  <2>1. 0 \in Nat /\ 0 \in 0 .. 0 /\ 0 <= Len(Pieces(answer))
    BY ONLY <1>0
  <2>2. FetchTypeOK' /\ Resources'
    BY <1>8, <2>1, ZenonT(40) DEF Leave, FetchTypeOK, Resources
  <2>3. Stream' /\ Extracted'
    BY <1>8, <2>1, ZenonT(40) DEF Leave, Stream, Extracted
  <2> QED
    BY <2>2, <2>3, ZenonT(40)
<1>9. CASE UNCHANGED fetchVars
  BY <1>9, ZenonT(90) DEF fetchVars, client, server, FetchTypeOK, Resources, Stream, Extracted
<1> QED
  BY <1>1, <1>2, <1>3, <1>4, <1>5, <1>6, <1>7, <1>8, <1>9, ZenonT(40) DEF FetchNext, Fetch

(* However the server behaves, FetchInv holds at every step of fetch.      *)
THEOREM FetchInvariant == FetchSpec => []FetchInv
BY FetchInvInit, FetchInvNext, PTL DEF FetchSpec

(* Every piece of the state of httpGet and of the server has a value of    *)
(* its type; in particular httpGet has read no more than was sent.         *)
THEOREM FetchTypeCorrect == FetchSpec => []FetchTypeOK
<1>1. FetchInv => FetchTypeOK
  BY DEF FetchInv
<1> QED
  BY <1>1, FetchInvariant, PTL

(* jwks_cache.cpp gives back the address list and the socket on every path *)
(* out of httpGet, and uses neither afterwards.                            *)
THEOREM NoLeakAlways == FetchSpec => []NoLeak
<1>1. FetchInv => NoLeak
  BY DEF FetchInv, Resources, NoLeak
<1> QED
  BY <1>1, FetchInvariant, PTL

(* What jwks_cache.cpp returns as the key set is the body the server sent, *)
(* from its first piece, for any answer and any segmentation.              *)
THEOREM BodyFaithfulAlways == FetchSpec => []BodyFaithful
<1>1. FetchInv => BodyFaithful
  <2> SUFFICES ASSUME FetchInv, pc = "returned" PROVE BodyFaithful
    BY DEF BodyFaithful
  <2>1. /\ answer \in Answers /\ answer.line = "200" /\ answer.end
        /\ Start(answer) \in 1 .. got
        /\ result = SubSeq(answer.body, 1, got - Start(answer))
    BY DEF FetchInv, Extracted, FetchTypeOK
  <2>2. got \in 0 .. Len(Pieces(answer)) /\ (ending = "eof" => got = sent)
    BY <2>1, CountOfPieces DEF FetchInv, Stream, FetchTypeOK
  <2>3. got - Start(answer) \in 0 .. Len(answer.body)
    BY <2>1, <2>2, BodyIs, Zenon
  <2>4. ASSUME got = Len(Pieces(answer)) PROVE result = answer.body
    <3>1. Len(Pieces(answer)) = Start(answer) + Len(answer.body) /\ Start(answer) \in Nat
      <4>1. Len(Pieces(answer)) = Start(answer) + Len(answer.body) /\ Len(answer.header) \in Nat
        BY <2>1, PiecesAre, Zenon DEF Start
      <4> QED
        BY <4>1 DEF Start
    <3>2. answer.body \in Seq(Text \cup {Blank})
      BY <2>1, AnswersAssumption, Zenon
    <3>3. got - Start(answer) = Len(answer.body)
      <4>1. Len(answer.body) \in Nat
        BY <3>2, LenProperties, Zenon
      <4> QED
        BY <2>4, <3>1, <4>1
    <3>4. SubSeq(answer.body, 1, Len(answer.body)) = answer.body
      BY <3>2
    <3> QED
      BY <2>1, <3>3, <3>4, Zenon
  <2> QED
    BY <2>1, <2>2, <2>3, <2>4, Zenon DEF BodyFaithful
<1> QED
  BY <1>1, FetchInvariant, PTL

(* An answer whose empty line has come is found to have one.               *)
LEMMA BlankArrives ==
  ASSUME NEW a \in Answers, NEW n \in 0 .. Len(Pieces(a)), a.end, n >= Len(a.header) + 2
  PROVE  n # 0 /\ Blanks(SubSeq(Pieces(a), 1, n)) # {}
<1> DEFINE s == Pieces(a)
           h == Len(a.header)
<1>1. h \in Nat /\ s \in Seq(Text \cup {Blank}) /\ s[h + 2] = Blank
  BY PiecesAre, Zenon
<1>2. Len(s) \in Nat
  BY CountOfPieces, Zenon
<1>3. h + 2 \in 1 .. n /\ n # 0
  BY ONLY <1>1, <1>2, n \in 0 .. Len(s), n >= h + 2
<1>4. DOMAIN SubSeq(s, 1, n) = 1 .. n /\ SubSeq(s, 1, n)[h + 2] = s[h + 2]
  <2>1. Len(SubSeq(s, 1, n)) = n /\ SubSeq(s, 1, n) \in Seq(Text \cup {Blank})
        /\ \A i \in 1 .. n : SubSeq(s, 1, n)[i] = s[i]
    BY <1>1, PrefixIs, Zenon
  <2>2. DOMAIN SubSeq(s, 1, n) = 1 .. n
    BY <2>1, LenProperties, Zenon
  <2> QED
    BY <1>3, <2>1, <2>2, Zenon
<1>5. h + 2 \in Blanks(SubSeq(s, 1, n))
  BY <1>1, <1>3, <1>4, Zenon DEF Blanks
<1> QED
  BY <1>3, <1>5, Zenon

(* AcceptedExactly, with the points at which the exchange is over.         *)
Decided ==
  /\ ending # "none" => pc \in {"status", "returned", "threw"}
  /\ AcceptedExactly

(* Every step keeps it; only Extract decides.                              *)
LEMMA DecidedNext == FetchInv /\ FetchInv' /\ Decided /\ [FetchNext]_fetchVars => Decided'
<1> SUFFICES ASSUME FetchInv, FetchInv', Decided, [FetchNext]_fetchVars PROVE Decided'
  OBVIOUS
<1>1. ASSUME CheckUri \/ GetAddrInfo \/ Socket \/ Connect \/ Send PROVE Decided'
  <2>1. pc \notin {"status", "returned", "threw"} /\ ending' = ending
    BY <1>1, ZenonT(40) DEF CheckUri, GetAddrInfo, Socket, Connect, Send
  <2> QED
    BY <2>1, ZenonT(40) DEF Decided, AcceptedExactly
<1>2. ASSUME Recv \/ ServerSends \/ ServerEnds PROVE Decided'
  <2>1. pc = "recv" /\ pc' = "recv" /\ ending' = ending
    BY <1>2, ZenonT(40) DEF Recv, ServerSends, ServerEnds, Connected, client
  <2> QED
    BY <2>1, ZenonT(40) DEF Decided, AcceptedExactly
<1>3. CASE RecvEnds
  BY <1>3, ZenonT(40) DEF RecvEnds, Decided, AcceptedExactly
<1>4. CASE Extract
  <2> DEFINE Complete == /\ answer.line = "200" /\ answer.end
                         /\ got >= Len(answer.header) + 2
  <2>1. pc' \in {"returned", "threw"} /\ UNCHANGED <<answer, got>>
    BY <1>4, ZenonT(40) DEF Extract, Throw, server
  <2>2. answer \in Answers /\ got \in Nat /\ sent \in Nat /\ got \in 0 .. sent
        /\ sent <= Len(Pieces(answer)) /\ Len(Pieces(answer)) \in Nat /\ Len(answer.header) \in Nat
    <3>1. answer \in Answers /\ got \in 0 .. sent /\ sent \in Nat
      BY Zenon DEF FetchInv, FetchTypeOK
    <3>2. sent <= Len(Pieces(answer))
      BY Zenon DEF FetchInv, Stream
    <3>3. Len(Pieces(answer)) \in Nat /\ Len(answer.header) \in Nat
      BY <3>1, CountOfPieces, PiecesAre, Zenon
    <3> QED
      BY ONLY <3>1, <3>2, <3>3
  <2>3. got \in 0 .. Len(Pieces(answer))
    BY ONLY <2>2
  <2>4. ASSUME pc' = "returned" PROVE Complete
    <3>1. answer.line = "200" /\ answer.end /\ Start(answer) \in 1 .. got
      BY <2>1, <2>4, ZenonT(40) DEF FetchInv, Extracted, Start
    <3>2. Len(answer.header) + 2 \in 1 .. got
      BY <3>1, Zenon DEF Start
    <3>3. got >= Len(answer.header) + 2
      BY ONLY <2>2, <3>2
    <3> QED
      BY <3>1, <3>3, Zenon
  <2>5. ASSUME Complete PROVE pc' = "returned"
    <3>1. got # 0 /\ Blanks(Response) # {}
      BY <2>2, <2>3, <2>5, BlankArrives, Zenon DEF Response
    <3>2. "200" # "???"
      OBVIOUS
    <3>3. ~ Rejected
      BY <2>5, <3>1, Zenon DEF Rejected
    <3> QED
      BY <1>4, <2>5, <3>2, <3>3, ZenonT(40) DEF Extract
  <2>6. Complete' <=> Complete
    BY <2>1, Zenon
  <2>7. pc' = "returned" <=> Complete'
    BY <2>4, <2>5, <2>6, Zenon
  <2> QED
    BY <2>1, <2>7, ZenonT(40) DEF Decided, AcceptedExactly
<1>5. CASE Call \/ Leave
  <2>1. pc' \in {"start", "idle"} /\ ending' = "none"
    BY <1>5, ZenonT(40) DEF Call, Leave, FetchInv, Stream
  <2> QED
    BY <2>1, ZenonT(40) DEF Decided, AcceptedExactly
<1>6. CASE UNCHANGED fetchVars
  BY <1>6, ZenonT(40) DEF fetchVars, client, server, Decided, AcceptedExactly
<1> QED
  BY <1>1, <1>2, <1>3, <1>4, <1>5, <1>6, ZenonT(40) DEF FetchNext, Fetch

(* However the exchange ends, jwks_cache.cpp takes what has arrived for    *)
(* the response exactly when it is a 200 and its header is complete: a     *)
(* fetch never fails for want of a body, nor succeeds without a header.    *)
THEOREM AcceptedExactlyAlways == FetchSpec => []AcceptedExactly
<1>1. FetchInit => Decided
  BY Zenon DEF FetchInit, Decided, AcceptedExactly
<1>2. Decided => AcceptedExactly
  BY Zenon DEF Decided
<1> QED
  BY <1>1, <1>2, FetchInvariant, DecidedNext, PTL DEF FetchSpec

(* main() and the fetches it waits for, together, are the fetch of         *)
(* JwksFetch: whatever main() does besides leaves the exchange alone, so   *)
(* every theorem of FetchSpec holds during startup.                        *)
THEOREM StartupFetches == StartupSpec => FetchSpec
<1>1. StartupInit => FetchInit
  BY Zenon DEF StartupInit
<1>2. [StartupNext]_startupVars => [FetchNext]_fetchVars
  BY ZenonT(40) DEF StartupNext, StartupMain, MainCalls, MainWaits, FetchReturns, FetchThrows,
       MainElse, JwksServer, ThreadStarts, Around, FetchNext, startupVars
<1> QED
  BY <1>1, <1>2, PTL DEF StartupSpec, FetchSpec

(* main() that waits for each fetch, system call by system call,           *)
(* implements GatewayProcess, where a fetch succeeds or fails in one step: *)
(* the theorems of GatewayProcess hold during startup.                     *)
THEOREM StartupImplementsProcess == StartupSpec => Spec
<1>1. StartupInit => Init
  BY Zenon DEF StartupInit
<1>2. [StartupNext]_startupVars => [Next]_vars
  BY ZenonT(40) DEF StartupNext, StartupMain, MainCalls, MainWaits, FetchReturns, FetchThrows,
       MainElse, JwksServer, ThreadStarts, Around, Next, MainStep, startupVars
<1> QED
  BY <1>1, <1>2, PTL DEF StartupSpec, Spec
==============================================================================
