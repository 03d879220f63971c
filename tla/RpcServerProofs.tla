-------------------------- MODULE RpcServerProofs --------------------------
(***************************************************************************)
(* RpcServer for every number of connections and requests and every set of *)
(* types: an answer goes to the connection its request came from, and no   *)
(* request is answered twice or handled again.                             *)
(*                                                                         *)
(* Neither is inductive.  The invariant adds that ids are given out in the *)
(* order of the connections, that a parse loop that goes on has a stream,  *)
(* and that the numbers of a connection's requests, unparsed, held or      *)
(* answered, are below the count of what it received.                      *)
(*                                                                         *)
(* Then RpcWire, for all ways messages arrive and writes that fail, up to  *)
(* 255 messages of up to 255 bytes (RpcWire numbers and measures them with *)
(* a byte): what is parsed is what was sent.  The parse loop is a          *)
(* recursive function of the input; that it finds the messages which lie   *)
(* in it one after the other is shown from the last of them backwards, by  *)
(* a last one that it does not find.                                       *)
(***************************************************************************)
EXTENDS MCServer, SequenceTheorems, WellFoundedInduction, TLAPS

Req == Number \X Type
Answer == Session \X Number

\* No two requests of a sequence have one number.
Distinct(u) == \A j, k \in 1..Len(u) : u[j][1] = u[k][1] => j = k
Nums(u) == {u[j][1] : j \in 1..Len(u)}

\* No two answers are alike.
Single(w) == \A j, k \in 1..Len(w) : w[j] = w[k] => j = k
Done(w) == {w[j][2] : j \in 1..Len(w)}

Numbering ==
  /\ accepted = conn_id
  /\ \A d \in dstreams : session[d] = d /\ d < conn_id
  /\ \A q \in held : q[1] = q[2] /\ q[2] < conn_id

Frame == at = "parse" \/ (at = "method" /\ ~closed) => cur \in dstreams

\* Unparsed, held and answered requests of a connection are different ones,
\* and all of them were received.
Once ==
  /\ \A s \in Session :
       /\ Distinct(Unparsed(s)) /\ Single(written[s])
       /\ Nums(Unparsed(s)) \cap Done(written[s]) = {}
       /\ Nums(Unparsed(s)) \cup Done(written[s]) \subseteq 1..received[s]
  /\ \A q \in held :
       q[3] \notin Nums(Unparsed(q[2])) \cup Done(written[q[2]]) /\ q[3] <= received[q[2]]

IInv == TypeOK /\ Numbering /\ Frame /\ AnswersGoHome /\ Once

-----------------------------------------------------------------------------
(* Sequences of requests and answers. *)

\* Taking the first request takes its number, and no other.
LEMMA TailTakes ==
  ASSUME NEW u \in Seq(Req), u # <<>>, Distinct(u)
  PROVE  /\ Distinct(Tail(u)) /\ u[1][1] \in Nums(u)
         /\ Nums(Tail(u)) = Nums(u) \ {u[1][1]}
<1> DEFINE t == Tail(u)
<1>1. /\ Len(u) \in Nat \ {0} /\ Len(t) = Len(u) - 1
      /\ \A i \in 1..Len(t) : t[i] = u[i + 1]
  BY EmptySeq, HeadTailProperties
<1> HIDE DEF t
<1>2. \A i \in 1..Len(t) : i + 1 \in 1..Len(u) /\ i + 1 # 1
  BY <1>1
<1>3. 1 \in 1..Len(u)
  BY <1>1
<1>4. Distinct(t)
  <2> SUFFICES ASSUME NEW j \in 1..Len(t), NEW k \in 1..Len(t), t[j][1] = t[k][1]
               PROVE  j = k
    BY DEF Distinct
  <2>1. j + 1 = k + 1
    BY <1>1, <1>2 DEF Distinct
  <2> QED
    BY <1>1, <2>1
<1>5. ASSUME NEW n \in Nums(t) PROVE n \in Nums(u) \ {u[1][1]}
  <2>1. PICK i \in 1..Len(t) : n = t[i][1]
    BY <1>5 DEF Nums
  <2>2. n = u[i + 1][1] /\ i + 1 \in 1..Len(u) /\ i + 1 # 1
    BY <1>1, <1>2, <2>1
  <2> QED
    BY <1>3, <2>2 DEF Nums, Distinct
<1>6. ASSUME NEW n \in Nums(u), n # u[1][1] PROVE n \in Nums(t)
  <2>1. PICK i \in 1..Len(u) : n = u[i][1]
    BY <1>6 DEF Nums
  <2>2. i - 1 \in 1..Len(t) /\ (i - 1) + 1 = i
    BY <1>1, <1>6, <2>1
  <2>3. t[i - 1] = u[i]
    BY <1>1, <2>2
  <2> QED
    BY <2>1, <2>2, <2>3 DEF Nums
<1>7. u[1][1] \in Nums(u)
  BY <1>3 DEF Nums
<1> QED
  BY <1>4, <1>5, <1>6, <1>7 DEF t

\* A request with a new number behind the others.
LEMMA AppendAdds ==
  ASSUME NEW u \in Seq(Req), NEW x \in Req, Distinct(u), x[1] \notin Nums(u)
  PROVE  Distinct(Append(u, x)) /\ Nums(Append(u, x)) = Nums(u) \cup {x[1]}
<1> DEFINE a == Append(u, x)
<1>1. /\ Len(u) \in Nat /\ Len(a) = Len(u) + 1
      /\ \A i \in 1..Len(u) : a[i] = u[i]
      /\ a[Len(u) + 1] = x
  BY LenProperties
<1> HIDE DEF a
<1>2. \A i \in 1..Len(a) : i \in 1..Len(u) \/ i = Len(u) + 1
  BY <1>1
<1>3. \A i \in 1..Len(u) : i \in 1..Len(a) /\ i # Len(u) + 1
  BY <1>1
<1>4. Len(u) + 1 \in 1..Len(a)
  BY <1>1
<1>5. Distinct(a)
  BY <1>1, <1>2, <1>3 DEF Distinct, Nums
<1>6. Nums(a) = Nums(u) \cup {x[1]}
  BY <1>1, <1>2, <1>3, <1>4 DEF Nums
<1> QED
  BY <1>5, <1>6 DEF a

\* The same for an answer to a request that has none.
LEMMA AppendAnswers ==
  ASSUME NEW w \in Seq(Answer), NEW x \in Answer, Single(w), x[2] \notin Done(w)
  PROVE  Single(Append(w, x)) /\ Done(Append(w, x)) = Done(w) \cup {x[2]}
<1> DEFINE a == Append(w, x)
<1>1. /\ Len(w) \in Nat /\ Len(a) = Len(w) + 1
      /\ \A i \in 1..Len(w) : a[i] = w[i]
      /\ a[Len(w) + 1] = x
  BY LenProperties
<1> HIDE DEF a
<1>2. \A i \in 1..Len(a) : i \in 1..Len(w) \/ i = Len(w) + 1
  BY <1>1
<1>3. \A i \in 1..Len(w) : i \in 1..Len(a) /\ i # Len(w) + 1 /\ a[i] # x
  BY <1>1 DEF Done
<1>4. Len(w) + 1 \in 1..Len(a)
  BY <1>1
<1>5. Single(a)
  BY <1>1, <1>2, <1>3 DEF Single
<1>6. Done(a) = Done(w) \cup {x[2]}
  BY <1>1, <1>2, <1>3, <1>4 DEF Done
<1> QED
  BY <1>5, <1>6 DEF a

LEMMA EmptyNothing ==
  Distinct(<<>>) /\ Nums(<<>>) = {} /\ Single(<<>>) /\ Done(<<>>) = {}
<1>1. Len(<<>>) = 0
  BY EmptySeq
<1> QED
  BY <1>1 DEF Distinct, Nums, Single, Done

LEMMA Joined ==
  ASSUME NEW a \in Seq(Req), NEW p \in Seq(Req), NEW r \in Seq(Req)
  PROVE  (a \o p) \o r = a \o (p \o r)
BY ConcatAssociative

\* Moving k requests from the kernel to the buffer moves nothing else.
LEMMA Moves ==
  ASSUME NEW a \in Seq(Req), NEW b \in Seq(Req), NEW k \in 1..Len(b)
  PROVE  /\ a \o SubSeq(b, 1, k) \in Seq(Req)
         /\ SubSeq(b, k + 1, Len(b)) \in Seq(Req)
         /\ (a \o SubSeq(b, 1, k)) \o SubSeq(b, k + 1, Len(b)) = a \o b
<1> DEFINE p == SubSeq(b, 1, k)
           r == SubSeq(b, k + 1, Len(b))
<1>1. Len(b) \in Nat /\ k \in Nat /\ 1 <= k /\ k <= Len(b)
  BY LenProperties
<1>2. p \in Seq(Req) /\ Len(p) = k /\ \A i \in 1..k : p[i] = b[i]
  <2>1. \A i \in 1..k : b[i] \in Req
    BY <1>1, ElementOfSeq
  <2>2. p \in Seq(Req) /\ Len(p) = (IF 1 <= k THEN k - 1 + 1 ELSE 0)
        /\ \A i \in 1..k - 1 + 1 : p[i] = b[1 + i - 1]
    BY <1>1, <2>1, SubSeqProperties
  <2>3. k - 1 + 1 = k /\ \A i \in 1..k : 1 + i - 1 = i
    BY <1>1
  <2> HIDE DEF p
  <2> QED
    BY <1>1, <2>2, <2>3
<1>3. r \in Seq(Req) /\ Len(r) = Len(b) - k /\ \A i \in 1..Len(b) - k : r[i] = b[k + i]
  <2>1. \A i \in k + 1..Len(b) : b[i] \in Req
    BY <1>1, ElementOfSeq
  <2>2. r \in Seq(Req) /\ Len(r) = (IF k + 1 <= Len(b) THEN Len(b) - (k + 1) + 1 ELSE 0)
        /\ \A i \in 1..Len(b) - (k + 1) + 1 : r[i] = b[k + 1 + i - 1]
    BY <1>1, <2>1, SubSeqProperties
  <2>3. Len(b) - (k + 1) + 1 = Len(b) - k /\ \A i \in 1..Len(b) - k : k + 1 + i - 1 = k + i
    BY <1>1
  <2>4. ~(k + 1 <= Len(b)) => Len(b) - k = 0
    BY <1>1
  <2> HIDE DEF r
  <2>5. Len(r) = Len(b) - k
    BY <2>2, <2>3, <2>4
  <2>6. ASSUME NEW i \in 1..Len(b) - k PROVE r[i] = b[k + i]
    BY <2>2, <2>3
  <2> QED
    BY <2>2, <2>5, <2>6
<1> HIDE DEF p, r
<1>4. p \o r = b
  <2>1. p \o r \in Seq(Req) /\ Len(p \o r) = Len(p) + Len(r)
        /\ \A i \in 1..Len(p) + Len(r) :
             (p \o r)[i] = IF i <= Len(p) THEN p[i] ELSE r[i - Len(p)]
    BY <1>2, <1>3, ConcatProperties
  <2>2. Len(p \o r) = Len(b)
    BY <1>1, <1>2, <1>3, <2>1
  <2>3. ASSUME NEW i \in 1..Len(b) PROVE (p \o r)[i] = b[i]
    <3>1. CASE i <= k
      <4>1. i \in 1..k /\ i \in 1..Len(p) + Len(r) /\ i <= Len(p)
        BY <1>1, <1>2, <1>3, <3>1
      <4> QED
        BY <1>2, <2>1, <4>1
    <3>2. CASE i > k
      <4>1. /\ i - k \in 1..Len(b) - k /\ i \in 1..Len(p) + Len(r)
            /\ ~(i <= Len(p)) /\ k + (i - k) = i
        BY <1>1, <1>2, <1>3, <3>2
      <4>2. (p \o r)[i] = r[i - k]
        BY <1>2, <2>1, <4>1
      <4> QED
        BY <1>3, <4>1, <4>2
    <3>3. i <= k \/ i > k
      BY <1>1
    <3> QED
      BY <3>1, <3>2, <3>3
  <2> QED
    BY <2>1, <2>2, <2>3, SeqEqual
<1>5. a \o p \in Seq(Req)
  BY <1>2, ConcatProperties
<1>6. (a \o p) \o r = a \o b
  <2>1. p \in Seq(Req) /\ r \in Seq(Req)
    BY <1>2, <1>3
  <2> QED
    <3>1. (a \o p) \o r = a \o (p \o r)
      BY <2>1, Joined, Zenon
    <3> QED
      BY <1>4, <3>1, Zenon
<1> QED
  BY <1>3, <1>5, <1>6 DEF p, r

-----------------------------------------------------------------------------
(* What the actions do to the requests that wait to be parsed. *)

LEMMA UnparsedType ==
  ASSUME TypeOK, NEW s \in Session
  PROVE  inbuf[s] \in Seq(Req) /\ input[s] \in Seq(Req) /\ Unparsed(s) \in Seq(Req)
<1>1. inbuf[s] \in Seq(Req) /\ input[s] \in Seq(Req)
  BY DEF TypeOK, Req
<1> QED
  BY <1>1, ConcatProperties DEF Unparsed

\* The first request in the buffer is the first of all.
LEMMA FirstUnparsed ==
  ASSUME NEW a \in Seq(Req), NEW b \in Seq(Req), a # <<>>
  PROVE  /\ a \o b # <<>> /\ (a \o b)[1] = Head(a) /\ Head(a) \in Req
         /\ Tail(a) \in Seq(Req)
         /\ Tail(a) \o b = Tail(a \o b)
<1>1. /\ Len(a) \in Nat \ {0} /\ Len(b) \in Nat /\ Head(a) = a[1]
      /\ Head(a) \in Req /\ Tail(a) \in Seq(Req) /\ Len(Tail(a)) = Len(a) - 1
      /\ \A i \in 1..Len(Tail(a)) : Tail(a)[i] = a[i + 1]
  BY EmptySeq, LenProperties, HeadTailProperties
<1> DEFINE c == a \o b
           d == Tail(a) \o b
           n == Len(a) + Len(b)
<1>2. c \in Seq(Req) /\ Len(c) = n
      /\ \A i \in 1..n : c[i] = IF i <= Len(a) THEN a[i] ELSE b[i - Len(a)]
  BY ConcatProperties
<1>3. d \in Seq(Req) /\ Len(d) = Len(Tail(a)) + Len(b)
      /\ \A i \in 1..Len(Tail(a)) + Len(b) :
           d[i] = IF i <= Len(Tail(a)) THEN Tail(a)[i] ELSE b[i - Len(Tail(a))]
  BY <1>1, ConcatProperties
<1> HIDE DEF c, d
<1>4. n \in Nat \ {0} /\ Len(Tail(a)) + Len(b) = n - 1
  BY <1>1
<1>5. c # <<>> /\ c[1] = Head(a)
  <2>1. 1 \in 1..n /\ 1 <= Len(a)
    BY <1>1, <1>4
  <2>2. Len(<<>>) = 0
    BY EmptySeq
  <2> QED
    BY <1>1, <1>2, <1>4, <2>1, <2>2
<1>6. Tail(c) \in Seq(Req) /\ Len(Tail(c)) = n - 1
      /\ \A i \in 1..n - 1 : Tail(c)[i] = c[i + 1]
  BY <1>2, <1>5, HeadTailProperties
<1>7. ASSUME NEW i \in 1..n - 1 PROVE d[i] = Tail(c)[i]
  <2>1. /\ i + 1 \in 1..n /\ i \in 1..Len(Tail(a)) + Len(b)
        /\ i <= Len(Tail(a)) \/ i > Len(Tail(a))
    BY <1>1, <1>4
  <2>2. CASE i <= Len(Tail(a))
    <3>1. i + 1 <= Len(a) /\ i \in 1..Len(Tail(a))
      BY <1>1, <1>4, <2>2
    <3> QED
      BY <1>1, <1>2, <1>3, <1>6, <2>1, <2>2, <3>1
  <2>3. CASE i > Len(Tail(a))
    <3>1. ~(i + 1 <= Len(a)) /\ i + 1 - Len(a) = i - Len(Tail(a)) /\ ~(i <= Len(Tail(a)))
      BY <1>1, <1>4, <2>3
    <3>2. d[i] = b[i - Len(Tail(a))]
      BY <1>3, <2>1, <3>1
    <3>3. c[i + 1] = b[i + 1 - Len(a)]
      BY <1>2, <2>1, <3>1
    <3> QED
      BY <1>6, <3>1, <3>2, <3>3
  <2> QED
    BY <2>1, <2>2, <2>3
<1>8. d = Tail(c)
  BY <1>3, <1>4, <1>6, <1>7, SeqEqual
<1> QED
  BY <1>1, <1>5, <1>8 DEF c, d

\* A request that arrives comes behind all others.
LEMMA LastUnparsed ==
  ASSUME NEW a \in Seq(Req), NEW b \in Seq(Req), NEW x \in Req
  PROVE  Append(b, x) \in Seq(Req) /\ a \o Append(b, x) = Append(a \o b, x)
<1>1. Append(b, x) \in Seq(Req)
  OBVIOUS
<1>2. \A u \in Seq(Req) : Append(u, x) = u \o <<x>>
  OBVIOUS
<1>3. <<x>> \in Seq(Req) /\ a \o b \in Seq(Req)
  BY ConcatProperties
<1>4. a \o (b \o <<x>>) = (a \o b) \o <<x>>
  BY <1>3, ConcatAssociative
<1> QED
  BY <1>1, <1>2, <1>3, <1>4

LEMMA DataMoves ==
  ASSUME TypeOK, Numbering, NEW d \in Session, Data(d)
  PROVE  /\ inbuf' \in [Session -> Seq(Req)] /\ input' \in [Session -> Seq(Req)]
         /\ \A s \in Session : Unparsed(s)' = Unparsed(s)
         /\ cur' = d /\ d \in dstreams /\ closed' = FALSE /\ at' = "parse"
<1>1. session[d] = d /\ inbuf[d] \in Seq(Req) /\ input[d] \in Seq(Req)
  BY UnparsedType DEF Data, Numbering
<1>2. PICK k \in 1..Len(input[d]) :
        /\ inbuf' = [inbuf EXCEPT ![d] = @ \o SubSeq(input[d], 1, k)]
        /\ input' = [input EXCEPT ![d] = SubSeq(@, k + 1, Len(@))]
  BY <1>1 DEF Data
<1> DEFINE b == inbuf[d] \o SubSeq(input[d], 1, k)
           r == SubSeq(input[d], k + 1, Len(input[d]))
<1>3. b \in Seq(Req) /\ r \in Seq(Req) /\ b \o r = inbuf[d] \o input[d]
  BY <1>1, Moves
<1>4. /\ inbuf' = [inbuf EXCEPT ![d] = b] /\ input' = [input EXCEPT ![d] = r]
      /\ inbuf \in [Session -> Seq(Req)] /\ input \in [Session -> Seq(Req)]
  BY <1>2 DEF TypeOK, Req
<1> HIDE DEF b, r
<1>5. \A s \in Session : inbuf'[s] \o input'[s] = inbuf[s] \o input[s]
  BY <1>3, <1>4
<1> QED
  BY <1>3, <1>4, <1>5 DEF Unparsed, Data

LEMMA ParseTakes ==
  ASSUME TypeOK, Numbering, Frame, ParseRequest
  PROVE  /\ cur \in dstreams /\ cur \in Session /\ session[cur] = cur
         /\ inbuf' \in [Session -> Seq(Req)]
         /\ Unparsed(cur) # <<>> /\ Head(inbuf[cur]) = Unparsed(cur)[1]
         /\ Head(inbuf[cur]) \in Req
         /\ Unparsed(cur)' = Tail(Unparsed(cur))
         /\ \A s \in Session \ {cur} : Unparsed(s)' = Unparsed(s)
<1>1. cur \in dstreams /\ cur \in Session /\ session[cur] = cur
  BY DEF ParseRequest, Frame, Numbering, TypeOK
<1>2. inbuf[cur] \in Seq(Req) /\ input[cur] \in Seq(Req) /\ inbuf[cur] # <<>>
  BY <1>1, UnparsedType DEF ParseRequest
<1>3. /\ inbuf' = [inbuf EXCEPT ![cur] = Tail(inbuf[cur])] /\ input' = input
      /\ inbuf \in [Session -> Seq(Req)]
  BY <1>1 DEF ParseRequest, Parsed, TypeOK, Req
<1> DEFINE r == Tail(inbuf[cur])
<1>4. /\ Unparsed(cur) # <<>> /\ Head(inbuf[cur]) = Unparsed(cur)[1]
      /\ Head(inbuf[cur]) \in Req
      /\ r \in Seq(Req) /\ r \o input[cur] = Tail(Unparsed(cur))
  BY <1>2, FirstUnparsed DEF Unparsed
<1> HIDE DEF r
<1>5. inbuf' = [inbuf EXCEPT ![cur] = r]
  BY <1>3 DEF r
<1>6. inbuf'[cur] = r /\ \A s \in Session \ {cur} : inbuf'[s] = inbuf[s]
  BY <1>1, <1>3, <1>5
<1>7. inbuf' \in [Session -> Seq(Req)]
  BY <1>3, <1>4, <1>5
<1>8. Unparsed(cur)' = Tail(Unparsed(cur))
  <2>1. Unparsed(cur)' = inbuf'[cur] \o input'[cur]
    <3>1. cur' = cur
      BY DEF ParseRequest
    <3> QED
      BY <3>1 DEF Unparsed
  <2> QED
    BY <1>3, <1>4, <1>6, <2>1
<1>9. \A s \in Session \ {cur} : Unparsed(s)' = Unparsed(s)
  BY <1>3, <1>6 DEF Unparsed
<1> QED
  BY <1>1, <1>4, <1>7, <1>8, <1>9

LEMMA ReceiveAdds ==
  ASSUME TypeOK, Numbering, NEW d \in Session, NEW t \in Type, Receive(d, t)
  PROVE  /\ received[d] + 1 \in Number /\ <<received[d] + 1, t>> \in Req
         /\ received' = [received EXCEPT ![d] = received[d] + 1]
         /\ input' \in [Session -> Seq(Req)]
         /\ Unparsed(d)' = Append(Unparsed(d), <<received[d] + 1, t>>)
         /\ \A s \in Session \ {d} : Unparsed(s)' = Unparsed(s)
<1>1. session[d] = d /\ inbuf[d] \in Seq(Req) /\ input[d] \in Seq(Req)
  BY UnparsedType DEF Receive, Numbering
<1>2. received[d] + 1 \in Number
  BY <1>1, ServerAssumption DEF Receive, TypeOK, Number
<1> DEFINE x == <<received[d] + 1, t>>
           b == Append(input[d], x)
<1>3. x \in Req
  BY <1>2 DEF Req
<1>4. /\ input' = [input EXCEPT ![d] = b] /\ inbuf' = inbuf
      /\ received' = [received EXCEPT ![d] = received[d] + 1]
      /\ input \in [Session -> Seq(Req)]
  BY <1>1 DEF Receive, TypeOK, Req
<1> HIDE DEF x
<1>5. b \in Seq(Req) /\ inbuf[d] \o b = Append(Unparsed(d), x)
  BY <1>1, <1>3, LastUnparsed DEF Unparsed
<1> HIDE DEF b
<1>6. /\ input' \in [Session -> Seq(Req)]
      /\ input'[d] = b /\ \A s \in Session \ {d} : input'[s] = input[s]
  BY <1>4, <1>5
<1>7. Unparsed(d)' = Append(Unparsed(d), x)
  BY <1>4, <1>5, <1>6 DEF Unparsed
<1>8. \A s \in Session \ {d} : Unparsed(s)' = Unparsed(s)
  BY <1>4, <1>6 DEF Unparsed
<1> QED
  BY <1>2, <1>3, <1>4, <1>6, <1>7, <1>8 DEF x

LEMMA FreeDrops ==
  ASSUME TypeOK, Numbering, NEW d \in dstreams, Free(d)
  PROVE  /\ dstreams' \subseteq Session /\ session' \in [Session -> Session \cup {None}]
         /\ inbuf' \in [Session -> Seq(Req)] /\ input' \in [Session -> Seq(Req)]
         /\ closed' \in BOOLEAN
         /\ \A e \in dstreams' : e \in dstreams /\ e # d /\ session'[e] = session[e]
         /\ \A s \in Session : Unparsed(s)' = Unparsed(s) \/ Unparsed(s)' = <<>>
<1>1. d \in Session /\ session[d] = d
  BY DEF Numbering, TypeOK
<1>2. <<>> \in Seq(Req) /\ <<>> \o <<>> = <<>>
  BY EmptySeq, ConcatEmptySeq
<1>3. /\ input' = [input EXCEPT ![d] = <<>>] /\ inbuf' = [inbuf EXCEPT ![d] = <<>>]
      /\ input \in [Session -> Seq(Req)] /\ inbuf \in [Session -> Seq(Req)]
  BY <1>1 DEF Free, TypeOK, Req
<1>4. inbuf' \in [Session -> Seq(Req)] /\ input' \in [Session -> Seq(Req)]
  BY <1>2, <1>3
<1>5. \A s \in Session : Unparsed(s)' = Unparsed(s) \/ Unparsed(s)' = <<>>
  BY <1>1, <1>2, <1>3 DEF Unparsed
<1>6. dstreams' \subseteq Session /\ session' \in [Session -> Session \cup {None}]
  BY <1>1 DEF Free, TypeOK
<1>7. \A e \in dstreams' : e \in dstreams /\ e # d /\ session'[e] = session[e]
  BY DEF Free, TypeOK
<1>8. closed' \in BOOLEAN
  BY DEF Free, TypeOK
<1> QED
  BY <1>4, <1>5, <1>6, <1>7, <1>8

-----------------------------------------------------------------------------
(* Each conjunct of the invariant is kept. *)

LEMMA TypeNext ==
  ASSUME IInv, Next
  PROVE  TypeOK'
<1> USE DEF IInv
<1>1. ASSUME Accept PROVE TypeOK'
  <2>1. conn_id \in Session /\ conn_id = accepted /\ conn_id + 1 \in 0..MaxSession
    BY <1>1, ServerAssumption DEF Accept, TypeOK, Numbering, Session
  <2> QED
    BY <1>1, <2>1 DEF Accept, NewId, TypeOK, respVars, methodVars, frameVars
<1>2. ASSUME NEW d \in Session, Drop(d) PROVE TypeOK'
  <2>1. d \in dstreams /\ Free(d)
    BY <1>2 DEF Drop
  <2> QED
    BY <1>2, <2>1, FreeDrops DEF Drop, TypeOK, Req, respVars, methodVars
<1>3. ASSUME NEW d \in Session, Data(d) PROVE TypeOK'
  BY <1>3, DataMoves DEF Data, TypeOK, Req, respVars, methodVars
<1>4. ASSUME NEW d \in Session, NEW t \in Type, Receive(d, t) PROVE TypeOK'
  <2>1. /\ received[d] + 1 \in Number
        /\ received' = [received EXCEPT ![d] = received[d] + 1]
        /\ input' \in [Session -> Seq(Req)]
    BY <1>4, ReceiveAdds
  <2>2. received' \in [Session -> 0..MaxRequest]
    BY <2>1, ServerAssumption DEF TypeOK, Number
  <2> QED
    BY <1>4, <2>1, <2>2 DEF Receive, TypeOK, Req, respVars, methodVars, frameVars
<1>5. ASSUME ParseRequest PROVE TypeOK'
  <2>1. /\ cur \in Session /\ session[cur] = cur /\ inbuf' \in [Session -> Seq(Req)]
        /\ Head(inbuf[cur])[1] \in Number
    BY <1>5, ParseTakes DEF Req
  <2>2. at' \in {"parse", "method", "undefined"}
    BY <1>5 DEF ParseRequest
  <2>3. held' = held \/ held' = held \cup {<<cur, cur, Head(inbuf[cur])[1]>>}
    BY <1>5, <2>1 DEF ParseRequest
  <2>4. held' \subseteq Session \X Session \X Number
    BY <2>1, <2>3 DEF TypeOK
  <2> QED
    BY <1>5, <2>1, <2>2, <2>4 DEF ParseRequest, TypeOK, Req, methodVars
<1>6. ASSUME MethodReturn \/ ParseEnd PROVE TypeOK'
  BY <1>6 DEF MethodReturn, ParseEnd, TypeOK, netVars, respVars, methodVars
<1>7. ASSUME ParseMalformed PROVE TypeOK'
  <2>1. cur \in dstreams /\ Free(cur)
    BY <1>7 DEF ParseMalformed, Frame
  <2> QED
    BY <1>7, <2>1, FreeDrops DEF ParseMalformed, TypeOK, Req, respVars, methodVars
<1>8. ASSUME NEW q \in held, Finish(q) PROVE TypeOK'
  <2>1. /\ held' \subseteq held /\ UNCHANGED <<conn_id, accepted, received, methodVars, at, cur>>
        /\ q[1] \in Session /\ q[2] \in Session /\ q[3] \in Number
    BY <1>8 DEF Finish, Release, TypeOK
  <2>2. CASE q[1] \in dstreams /\ Write(q)
    <3>1. session[q[1]] \in Session
      BY <2>2 DEF Numbering, TypeOK
    <3>2. written[session[q[1]]] \in Seq(Session \X Number)
      BY <3>1 DEF TypeOK
    <3>3. Append(written[session[q[1]]], <<q[2], q[3]>>) \in Seq(Session \X Number)
      BY <2>1, <3>2
    <3>4. written' \in [Session -> Seq(Session \X Number)]
      BY <2>2, <3>1, <3>3 DEF Write, TypeOK
    <3> QED
      BY <2>1, <2>2, <3>4 DEF Write, TypeOK, methodVars
  <2>3. CASE UNCHANGED <<dstreams, session, input, inbuf, written, closed>>
    BY <2>1, <2>3 DEF TypeOK, methodVars
  <2>4. CASE q[1] \in dstreams /\ WriteFails(q)
    <3>1. Free(q[1]) /\ written' = written
      BY <2>4 DEF WriteFails
    <3> QED
      BY <2>1, <2>4, <3>1, FreeDrops DEF TypeOK, Req, methodVars
  <2> QED
    BY <1>8, <2>2, <2>3, <2>4 DEF Finish, WriteHalf
<1>9. ASSUME NEW t \in Type, AddMethod(t) \/ RemoveMethod(t) PROVE TypeOK'
  BY <1>9 DEF AddMethod, RemoveMethod, TypeOK, netVars, respVars, frameVars
<1>10. ASSUME ServerFree PROVE TypeOK'
  <2>1. <<>> \in Seq(Number \X Type)
    BY EmptySeq
  <2> QED
    BY <1>10, <2>1 DEF ServerFree, TypeOK, respVars
<1> QED
  BY <1>1, <1>2, <1>3, <1>4, <1>5, <1>6, <1>7, <1>8, <1>9, <1>10 DEF Next

LEMMA NumberingNext ==
  ASSUME IInv, Next
  PROVE  Numbering'
<1> USE DEF IInv
<1>1. ASSUME accepted' = accepted, conn_id' = conn_id, held' \subseteq held,
             \A e \in dstreams' : e \in dstreams /\ session'[e] = session[e]
      PROVE  Numbering'
  BY <1>1 DEF Numbering
<1>2. ASSUME Accept PROVE Numbering'
  <2>1. /\ conn_id \in Session /\ conn_id \in Int /\ conn_id = accepted
        /\ dstreams \subseteq Session
    BY <1>2, ServerAssumption DEF Accept, TypeOK, Numbering, Session
  <2>2. /\ accepted' = accepted + 1 /\ conn_id' = conn_id + 1 /\ held' = held
        /\ dstreams' = dstreams \cup {conn_id}
        /\ session' = [session EXCEPT ![conn_id] = conn_id]
    BY <1>2, <2>1 DEF Accept, NewId, respVars
  <2>3. ASSUME NEW d \in dstreams' PROVE session'[d] = d /\ d < conn_id'
    <3>1. CASE d = conn_id
      BY <2>1, <2>2, <3>1 DEF TypeOK
    <3>2. CASE d \in dstreams /\ d # conn_id
      <4>1. d \in Int /\ d < conn_id
        BY <2>1, <3>2 DEF Numbering, Session
      <4> QED
        BY <2>1, <2>2, <3>2, <4>1 DEF TypeOK, Numbering
    <3> QED
      BY <2>2, <3>1, <3>2
  <2>4. ASSUME NEW q \in held' PROVE q[1] = q[2] /\ q[2] < conn_id'
    <3>1. q[2] \in Int /\ q[1] = q[2] /\ q[2] < conn_id
      BY <2>2 DEF TypeOK, Numbering, Session
    <3> QED
      BY <2>1, <2>2, <3>1
  <2> QED
    BY <2>1, <2>2, <2>3, <2>4 DEF Numbering
<1>3. ASSUME NEW d \in Session, Drop(d) PROVE Numbering'
  BY <1>1, <1>3, FreeDrops DEF Drop, respVars
<1>4. ASSUME NEW d \in Session, Data(d) PROVE Numbering'
  BY <1>1, <1>4 DEF Data, respVars
<1>5. ASSUME NEW d \in Session, NEW t \in Type, Receive(d, t) PROVE Numbering'
  BY <1>1, <1>5 DEF Receive, respVars
<1>6. ASSUME ParseRequest PROVE Numbering'
  <2>1. cur \in dstreams /\ session[cur] = cur
    BY <1>6, ParseTakes
  <2>2. held' = held \/ held' = held \cup {<<cur, cur, Head(inbuf[cur])[1]>>}
    BY <1>6, <2>1 DEF ParseRequest
  <2> QED
    BY <1>6, <2>1, <2>2 DEF ParseRequest, Numbering
<1>7. ASSUME MethodReturn \/ ParseEnd PROVE Numbering'
  BY <1>1, <1>7 DEF MethodReturn, ParseEnd, netVars, respVars
<1>8. ASSUME ParseMalformed PROVE Numbering'
  <2>1. cur \in dstreams /\ Free(cur)
    BY <1>8 DEF ParseMalformed, Frame
  <2> QED
    BY <1>1, <1>8, <2>1, FreeDrops DEF ParseMalformed, respVars
<1>9. ASSUME NEW q \in held, Finish(q) PROVE Numbering'
  <2>1. held' \subseteq held /\ accepted' = accepted /\ conn_id' = conn_id
    BY <1>9 DEF Finish, Release
  <2>2. CASE dstreams' = dstreams /\ session' = session
    BY <1>1, <2>1, <2>2
  <2>3. CASE q[1] \in dstreams /\ WriteFails(q)
    BY <1>1, <2>1, <2>3, FreeDrops DEF WriteFails
  <2> QED
    BY <1>9, <2>2, <2>3 DEF Finish, Write, WriteHalf
<1>10. ASSUME NEW t \in Type, AddMethod(t) \/ RemoveMethod(t) PROVE Numbering'
  BY <1>1, <1>10 DEF AddMethod, RemoveMethod, netVars, respVars
<1>11. ASSUME ServerFree PROVE Numbering'
  BY <1>1, <1>11 DEF ServerFree, respVars
<1> QED
  BY <1>2, <1>3, <1>4, <1>5, <1>6, <1>7, <1>8, <1>9, <1>10, <1>11 DEF Next

\* A parse loop that is running, or whose method has not freed its stream, has
\* its dstream.
LEMMA FrameNext ==
  ASSUME IInv, Next
  PROVE  Frame'
<1> USE DEF IInv
<1>1. ASSUME at' \in {"idle", "freed", "undefined"} PROVE Frame'
  BY <1>1 DEF Frame
<1>2. ASSUME at' = at, cur' = cur, closed' = closed, dstreams \subseteq dstreams'
      PROVE  Frame'
  BY <1>2 DEF Frame
<1>3. ASSUME Accept PROVE Frame'
  BY <1>2, <1>3 DEF Accept, frameVars
<1>4. ASSUME NEW d \in Session, Drop(d) PROVE Frame'
  BY <1>1, <1>4 DEF Drop
<1>5. ASSUME NEW d \in Session, Data(d) PROVE Frame'
  BY <1>5 DEF Data, Frame
<1>6. ASSUME NEW d \in Session, NEW t \in Type, Receive(d, t) PROVE Frame'
  BY <1>2, <1>6 DEF Receive, frameVars
<1>7. ASSUME ParseRequest PROVE Frame'
  BY <1>7 DEF ParseRequest, Frame
<1>8. ASSUME MethodReturn PROVE Frame'
  BY <1>8 DEF MethodReturn, Frame
<1>9. ASSUME ParseEnd \/ ParseMalformed PROVE Frame'
  BY <1>1, <1>9 DEF ParseEnd, ParseMalformed
<1>10. ASSUME NEW q \in held, Finish(q) PROVE Frame'
  <2>1. CASE UNCHANGED <<dstreams, closed>>
    BY <1>2, <1>10, <2>1 DEF Finish
  <2>2. CASE WriteFails(q)
    BY <1>10, <2>2 DEF Finish, UserRuns, WriteFails, Free, Frame
  <2> QED
    BY <1>10, <2>1, <2>2 DEF Finish, Write, WriteHalf
<1>11. ASSUME NEW t \in Type, AddMethod(t) PROVE Frame'
  BY <1>2, <1>11 DEF AddMethod, frameVars
<1>12. ASSUME NEW t \in Type, RemoveMethod(t) PROVE Frame'
  BY <1>1, <1>12 DEF RemoveMethod
<1>13. ASSUME ServerFree PROVE Frame'
  BY <1>1, <1>13 DEF ServerFree
<1> QED
  BY <1>3, <1>4, <1>5, <1>6, <1>7, <1>8, <1>9, <1>10, <1>11, <1>12, <1>13 DEF Next

\* What an answer does that is written: the connection's sequence of answers
\* grows by the one to the request that was held.
LEMMA WriteAnswers ==
  ASSUME IInv, NEW q \in held, q[1] \in dstreams, Write(q)
  PROVE  /\ q[2] \in Session /\ <<q[2], q[3]>> \in Answer
         /\ written[q[2]] \in Seq(Answer)
         /\ written' = [written EXCEPT ![q[2]] = Append(written[q[2]], <<q[2], q[3]>>)]
         /\ written \in [Session -> Seq(Answer)]
<1>1. /\ q[2] \in Session /\ q[3] \in Number /\ session[q[1]] = q[2]
      /\ written \in [Session -> Seq(Answer)]
  BY DEF IInv, TypeOK, Numbering, Answer
<1> QED
  BY <1>1 DEF Write, Answer

LEMMA HomeNext ==
  ASSUME IInv, Next
  PROVE  AnswersGoHome'
<1>1. CASE written' = written
  BY <1>1 DEF IInv, AnswersGoHome
<1>2. ASSUME NEW q \in held, q[1] \in dstreams, Write(q) PROVE AnswersGoHome'
  <2> SUFFICES ASSUME NEW s \in Session, NEW k \in 1..Len(written'[s])
               PROVE  written'[s][k][1] = s
    BY DEF AnswersGoHome
  <2> DEFINE w == written[q[2]]
             x == <<q[2], q[3]>>
  <2>1. /\ q[2] \in Session /\ w \in Seq(Answer) /\ x[1] = q[2]
        /\ written' = [written EXCEPT ![q[2]] = Append(w, x)]
        /\ written \in [Session -> Seq(Answer)]
    BY <1>2, WriteAnswers
  <2> HIDE DEF x
  <2>2. CASE s # q[2]
    <3>1. written'[s] = written[s]
      BY <2>1, <2>2
    <3> QED
      BY <3>1 DEF IInv, AnswersGoHome
  <2>3. CASE s = q[2]
    <3>1. written'[s] = Append(w, x)
      BY <2>1, <2>3
    <3>2. /\ Len(w) \in Nat /\ Len(Append(w, x)) = Len(w) + 1
          /\ \A j \in 1..Len(w) : Append(w, x)[j] = w[j]
          /\ Append(w, x)[Len(w) + 1] = x
      BY <2>1, LenProperties
    <3>3. k \in 1..Len(w) \/ k = Len(w) + 1
      BY <3>1, <3>2
    <3>4. CASE k \in 1..Len(w)
      BY <2>1, <2>3, <3>1, <3>2, <3>4 DEF IInv, AnswersGoHome
    <3>5. CASE k = Len(w) + 1
      BY <2>1, <2>3, <3>1, <3>2, <3>5
    <3> QED
      BY <3>3, <3>4, <3>5
  <2> QED
    BY <2>2, <2>3
<1>3. ASSUME NEW q \in held, Finish(q)
      PROVE  written' = written \/ (q[1] \in dstreams /\ Write(q))
  BY <1>3 DEF Finish, WriteHalf, WriteFails
<1>4. (\A q \in held : ~Finish(q)) => written' = written
  BY DEF Next, Accept, Drop, Data, Receive, ParseRequest, MethodReturn, ParseEnd,
         ParseMalformed, AddMethod, RemoveMethod, ServerFree, respVars
<1> QED
  BY <1>1, <1>2, <1>3, <1>4

\* Requests that are lost, or stay where they are, disturb nothing.
LEMMA OnceLoses ==
  ASSUME Once, written' = written, received' = received, held' \subseteq held,
         \A s \in Session : Unparsed(s)' = Unparsed(s) \/ Unparsed(s)' = <<>>,
         \A q \in held' : q[2] \in Session
  PROVE  Once'
<1>1. ASSUME NEW s \in Session
      PROVE  /\ Distinct(Unparsed(s)') /\ Single(written'[s])
             /\ Nums(Unparsed(s)') \subseteq Nums(Unparsed(s))
  BY EmptyNothing DEF Once
<1>2. ASSUME NEW s \in Session
      PROVE  /\ Nums(Unparsed(s)') \cap Done(written'[s]) = {}
             /\ Nums(Unparsed(s)') \cup Done(written'[s]) \subseteq 1..received'[s]
  BY <1>1 DEF Once
<1>3. ASSUME NEW q \in held'
      PROVE  /\ q[3] \notin Nums(Unparsed(q[2])') \cup Done(written'[q[2]])
             /\ q[3] <= received'[q[2]]
  BY <1>1 DEF Once
<1> QED
  BY <1>1, <1>2, <1>3 DEF Once

LEMMA OnceParse ==
  ASSUME IInv, ParseRequest
  PROVE  Once'
<1> USE DEF IInv
<1> DEFINE x == Head(inbuf[cur])
<1>1. /\ cur \in Session /\ session[cur] = cur /\ Unparsed(cur) # <<>>
      /\ x = Unparsed(cur)[1] /\ x \in Req
      /\ Unparsed(cur)' = Tail(Unparsed(cur))
      /\ \A s \in Session \ {cur} : Unparsed(s)' = Unparsed(s)
      /\ Unparsed(cur) \in Seq(Req) /\ cur' = cur
  BY ParseTakes, UnparsedType DEF ParseRequest
<1>2. /\ written' = written /\ received' = received
      /\ held' = held \/ held' = held \cup {<<cur, cur, x[1]>>}
  BY <1>1 DEF ParseRequest
<1> HIDE DEF x
<1>3. /\ Distinct(Unparsed(cur)') /\ x[1] \in Nums(Unparsed(cur))
      /\ Nums(Unparsed(cur)') = Nums(Unparsed(cur)) \ {x[1]}
  BY <1>1, TailTakes DEF Once
<1>4. ASSUME NEW s \in Session
      PROVE  Distinct(Unparsed(s)') /\ Nums(Unparsed(s)') \subseteq Nums(Unparsed(s))
  <2>1. CASE s = cur
    <3>1. Unparsed(s)' = Unparsed(cur)'
      BY <1>1, <2>1 DEF Unparsed
    <3> QED
      BY <1>3, <2>1, <3>1
  <2>2. CASE s # cur
    BY <1>1, <2>2 DEF Once
  <2> QED
    BY <2>1, <2>2
<1>5. ASSUME NEW s \in Session
      PROVE  /\ Single(written'[s])
             /\ Nums(Unparsed(s)') \cap Done(written'[s]) = {}
             /\ Nums(Unparsed(s)') \cup Done(written'[s]) \subseteq 1..received'[s]
  BY <1>2, <1>4 DEF Once
<1>6. ASSUME NEW q \in held'
      PROVE  /\ q[3] \notin Nums(Unparsed(q[2])') \cup Done(written'[q[2]])
             /\ q[3] <= received'[q[2]]
  <2>1. CASE q \in held
    <3>1. q[2] \in Session
      BY <2>1 DEF TypeOK
    <3> QED
      BY <1>2, <1>4, <2>1, <3>1 DEF Once
  <2>2. CASE q = <<cur, cur, x[1]>>
    <3>1. q[2] = cur /\ q[3] = x[1]
      BY <2>2
    <3>2. x[1] \notin Nums(Unparsed(cur)') /\ x[1] \notin Done(written[cur])
      BY <1>1, <1>3 DEF Once
    <3>3. x[1] \in 1..received[cur]
      BY <1>1, <1>3 DEF Once
    <3>4. x[1] <= received[cur]
      BY <1>1, <3>3 DEF TypeOK
    <3>5. Unparsed(q[2])' = Unparsed(cur)'
      BY <1>1, <3>1 DEF Unparsed
    <3> QED
      BY <1>2, <3>1, <3>2, <3>4, <3>5
  <2> QED
    BY <1>2, <2>1, <2>2
<1> QED
  BY <1>4, <1>5, <1>6 DEF Once

LEMMA OnceReceive ==
  ASSUME IInv, NEW d \in Session, NEW t \in Type, Receive(d, t)
  PROVE  Once'
<1> USE DEF IInv
<1> DEFINE n == received[d] + 1
           x == <<n, t>>
<1>1. /\ n \in Number /\ x \in Req /\ x[1] = n
      /\ received' = [received EXCEPT ![d] = n]
      /\ Unparsed(d)' = Append(Unparsed(d), x)
      /\ \A s \in Session \ {d} : Unparsed(s)' = Unparsed(s)
      /\ Unparsed(d) \in Seq(Req) /\ received[d] \in Nat
      /\ written' = written /\ held' = held
  <2>1. received[d] \in Nat
    BY DEF TypeOK
  <2>2. written' = written /\ held' = held
    BY DEF Receive, respVars
  <2>3. Unparsed(d) \in Seq(Req)
    BY UnparsedType
  <2> QED
    BY <2>1, <2>2, <2>3, ReceiveAdds
<1> HIDE DEF x
<1>2. n \notin 1..received[d] /\ n \in 1..n /\ 1..received[d] \subseteq 1..n
      /\ received'[d] = n
  BY <1>1 DEF TypeOK
<1>3. n \notin Nums(Unparsed(d)) \cup Done(written[d])
  BY <1>2 DEF Once
<1> HIDE DEF n
<1>4. Distinct(Unparsed(d)') /\ Nums(Unparsed(d)') = Nums(Unparsed(d)) \cup {n}
  BY <1>1, <1>3, AppendAdds DEF Once
<1>5. ASSUME NEW s \in Session
      PROVE  /\ Distinct(Unparsed(s)') /\ Single(written'[s])
             /\ Nums(Unparsed(s)') \cap Done(written'[s]) = {}
             /\ Nums(Unparsed(s)') \cup Done(written'[s]) \subseteq 1..received'[s]
  <2>1. CASE s = d
    <3>1. /\ Nums(Unparsed(d)) \cup Done(written[d]) \subseteq 1..n
          /\ Single(written[d]) /\ Nums(Unparsed(d)) \cap Done(written[d]) = {}
      BY <1>2 DEF Once
    <3>2. written'[s] = written[d] /\ received'[s] = n /\ Unparsed(s)' = Unparsed(d)'
      BY <1>1, <1>2, <2>1
    <3>3. Nums(Unparsed(d)') \cap Done(written[d]) = {}
      BY <1>3, <1>4, <3>1
    <3>4. Nums(Unparsed(d)') \cup Done(written[d]) \subseteq 1..n
      BY <1>2, <1>4, <3>1
    <3> QED
      BY <1>4, <3>1, <3>2, <3>3, <3>4
  <2>2. CASE s # d
    <3>1. received'[s] = received[s]
      BY <1>1, <2>2 DEF TypeOK
    <3> QED
      BY <1>1, <2>2, <3>1 DEF Once
  <2> QED
    BY <2>1, <2>2
<1>6. ASSUME NEW q \in held'
      PROVE  /\ q[3] \notin Nums(Unparsed(q[2])') \cup Done(written'[q[2]])
             /\ q[3] <= received'[q[2]]
  <2>1. /\ q \in held /\ q[2] \in Session /\ q[3] \in Nat /\ q[3] <= received[q[2]]
        /\ q[3] \notin Nums(Unparsed(q[2])) \cup Done(written[q[2]])
    BY <1>1 DEF TypeOK, Once, Number
  <2>2. CASE q[2] = d
    <3>1. q[3] < n /\ q[3] # n /\ q[3] <= n
      BY <1>1, <2>1, <2>2 DEF n
    <3>2. Unparsed(q[2])' = Unparsed(d)'
      BY <1>1, <2>2 DEF Unparsed
    <3> QED
      BY <1>1, <1>2, <1>4, <2>1, <2>2, <3>1, <3>2
  <2>3. CASE q[2] # d
    <3>1. received'[q[2]] = received[q[2]]
      BY <1>1, <2>1, <2>3 DEF TypeOK
    <3> QED
      BY <1>1, <2>1, <2>3, <3>1
  <2> QED
    BY <2>2, <2>3
<1> QED
  BY <1>5, <1>6 DEF Once

LEMMA OnceWrite ==
  ASSUME IInv, NEW q \in held, q[1] \in dstreams, Write(q), held' = held \ {q},
         received' = received
  PROVE  Once'
<1> USE DEF IInv
<1> DEFINE c == q[2]
           x == <<c, q[3]>>
           w == written[c]
<1>1. /\ c \in Session /\ x \in Answer /\ w \in Seq(Answer) /\ x[2] = q[3]
      /\ written' = [written EXCEPT ![c] = Append(w, x)]
      /\ written \in [Session -> Seq(Answer)]
  BY WriteAnswers
<1>2. \A s \in Session : Unparsed(s)' = Unparsed(s)
  BY DEF Write, Unparsed
<1>3. /\ q[3] \notin Nums(Unparsed(c)) \cup Done(w) /\ q[3] <= received[c]
      /\ q[3] \in Number /\ received[c] \in Nat
  BY <1>1 DEF Once, TypeOK
<1>4. q[3] \in 1..received[c]
  BY <1>3, ServerAssumption DEF Number
<1> HIDE DEF x
<1>5. Single(w)
  BY <1>1 DEF Once
<1>6. Single(Append(w, x)) /\ Done(Append(w, x)) = Done(w) \cup {q[3]}
  BY <1>1, <1>3, <1>5, AppendAnswers
<1>7. written'[c] = Append(w, x) /\ \A s \in Session \ {c} : written'[s] = written[s]
  BY <1>1
<1>8. ASSUME NEW s \in Session
      PROVE  /\ Distinct(Unparsed(s)') /\ Single(written'[s])
             /\ Nums(Unparsed(s)') \cap Done(written'[s]) = {}
             /\ Nums(Unparsed(s)') \cup Done(written'[s]) \subseteq 1..received'[s]
  <2>1. /\ Distinct(Unparsed(s)) /\ Single(written[s])
        /\ Nums(Unparsed(s)) \cap Done(written[s]) = {}
        /\ Nums(Unparsed(s)) \cup Done(written[s]) \subseteq 1..received[s]
        /\ Unparsed(s)' = Unparsed(s) /\ received'[s] = received[s]
    BY <1>2 DEF Once
  <2>2. CASE s = c
    <3>1. /\ Single(written'[s])
          /\ Done(written'[s]) = Done(written[s]) \cup {q[3]}
      BY <1>6, <1>7, <2>2
    <3>2. q[3] \notin Nums(Unparsed(s)) /\ q[3] \in 1..received[s]
      BY <1>3, <1>4, <2>2
    <3> QED
      BY <2>1, <3>1, <3>2
  <2>3. CASE s # c
    BY <1>7, <2>1, <2>3
  <2> QED
    BY <2>2, <2>3
<1>9. ASSUME NEW p \in held'
      PROVE  /\ p[3] \notin Nums(Unparsed(p[2])') \cup Done(written'[p[2]])
             /\ p[3] <= received'[p[2]]
  <2>1. /\ p \in held /\ p # q /\ p[2] \in Session
        /\ p[3] \notin Nums(Unparsed(p[2])) \cup Done(written[p[2]])
        /\ p[3] <= received'[p[2]] /\ Unparsed(p[2])' = Unparsed(p[2])
    BY <1>2 DEF Once, TypeOK
  <2>2. CASE p[2] = c
    <3>1. p[1] = p[2]
      BY <2>1 DEF Numbering
    <3>2. p[3] # q[3]
      <4>1. p = <<p[1], p[2], p[3]>> /\ q = <<q[1], q[2], q[3]>>
        <5>1. p \in Session \X Session \X Number /\ q \in Session \X Session \X Number
          BY <2>1 DEF TypeOK
        <5> QED
          BY <5>1
      <4>2. p[2] = q[2]
        BY <2>2
      <4>3. q[1] = q[2]
        BY DEF Numbering
      <4> QED
        BY <2>1, <3>1, <4>1, <4>2, <4>3, Zenon
    <3> QED
      BY <1>6, <1>7, <2>1, <2>2, <3>2
  <2>3. CASE p[2] # c
    BY <1>7, <2>1, <2>3
  <2> QED
    BY <2>2, <2>3
<1> QED
  BY <1>8, <1>9 DEF Once

LEMMA OnceNext ==
  ASSUME IInv, Next, TypeOK'
  PROVE  Once'
<1> USE DEF IInv
<1>1. \A q \in held' : q[2] \in Session
  BY DEF TypeOK
\* The actions that neither answer, take nor add a request.
<1>2. ASSUME written' = written, received' = received, held' \subseteq held,
             \A s \in Session : Unparsed(s)' = Unparsed(s) \/ Unparsed(s)' = <<>>
      PROVE  Once'
  BY <1>1, <1>2, OnceLoses
<1>3. ASSUME written' = written, received' = received, held' \subseteq held,
             input' = input, inbuf' = inbuf
      PROVE  Once'
  <2>1. \A s \in Session : Unparsed(s)' = Unparsed(s)
    BY <1>3 DEF Unparsed
  <2> QED
    BY <1>2, <1>3, <2>1
<1>4. ASSUME NEW d \in dstreams, Free(d), written' = written, received' = received,
             held' \subseteq held
      PROVE  Once'
  <2>1. \A s \in Session : Unparsed(s)' = Unparsed(s) \/ Unparsed(s)' = <<>>
    BY <1>4, FreeDrops
  <2> QED
    BY <1>2, <1>4, <2>1
<1>5. ASSUME Accept PROVE Once'
  BY <1>3, <1>5 DEF Accept, respVars
<1>6. ASSUME NEW d \in Session, Drop(d) PROVE Once'
  BY <1>4, <1>6 DEF Drop, respVars
<1>7. ASSUME NEW d \in Session, Data(d) PROVE Once'
  <2>1. \A s \in Session : Unparsed(s)' = Unparsed(s)
    BY <1>7, DataMoves
  <2>2. written' = written /\ received' = received /\ held' = held
    BY <1>7 DEF Data, respVars
  <2> QED
    BY <1>2, <2>1, <2>2
<1>8. ASSUME NEW d \in Session, NEW t \in Type, Receive(d, t) PROVE Once'
  BY <1>8, OnceReceive
<1>9. ASSUME MethodReturn \/ ParseEnd PROVE Once'
  BY <1>3, <1>9 DEF MethodReturn, ParseEnd, netVars, respVars
<1>10. ASSUME ParseMalformed PROVE Once'
  <2>1. cur \in dstreams
    BY <1>10 DEF ParseMalformed, Frame
  <2> QED
    BY <1>4, <1>10, <2>1 DEF ParseMalformed, respVars
<1>11. ASSUME NEW q \in held, Finish(q) PROVE Once'
  <2>1. held' = held \ {q} /\ received' = received
    BY <1>11 DEF Finish, Release
  <2>2. CASE q[1] \in dstreams /\ Write(q)
    BY <2>1, <2>2, OnceWrite
  <2>3. CASE UNCHANGED <<input, inbuf, written>>
    BY <1>3, <2>1, <2>3
  <2>4. CASE q[1] \in dstreams /\ WriteFails(q)
    BY <1>4, <2>1, <2>4 DEF WriteFails
  <2> QED
    BY <1>11, <2>2, <2>3, <2>4 DEF Finish, WriteHalf
<1>12. ASSUME NEW t \in Type, AddMethod(t) \/ RemoveMethod(t) PROVE Once'
  BY <1>3, <1>12 DEF AddMethod, RemoveMethod, netVars, respVars
<1>13. ASSUME ServerFree PROVE Once'
  <2>1. \A s \in Session : Unparsed(s)' = <<>>
    <3>1. \A s \in Session : inbuf'[s] = <<>> /\ input'[s] = <<>>
      BY <1>13 DEF ServerFree
    <3>2. <<>> \o <<>> = <<>>
      OBVIOUS
    <3> QED
      BY <3>1, <3>2 DEF Unparsed
  <2> QED
    BY <1>2, <1>13, <2>1 DEF ServerFree, respVars
<1> QED
  BY <1>5, <1>6, <1>7, <1>8, <1>9, <1>10, <1>11, <1>12, <1>13, OnceParse DEF Next

LEMMA InitIInv == Init => IInv
<1> SUFFICES ASSUME Init PROVE IInv
  OBVIOUS
<1>1. <<>> \in Seq(Number \X Type) /\ <<>> \in Seq(Session \X Number)
      /\ Len(<<>>) = 0 /\ <<>> \o <<>> = <<>>
  BY EmptySeq
<1>2. TypeOK
  <2>1. /\ session \in [Session -> Session \cup {None}] /\ cur \in Session \cup {None}
        /\ dstreams \subseteq Session /\ held \subseteq Session \X Session \X Number
        /\ methods \subseteq Type /\ dangling \subseteq methods
        /\ closed \in BOOLEAN /\ at = "idle"
    BY DEF Init
  <2>2. 0 \in 0..MaxSession /\ 0 \in 0..MaxRequest
    BY ServerAssumption
  <2>3. conn_id \in 0..MaxSession /\ accepted \in 0..MaxSession
        /\ received \in [Session -> 0..MaxRequest]
    BY <2>2 DEF Init
  <2>4. /\ input \in [Session -> Seq(Number \X Type)]
        /\ inbuf \in [Session -> Seq(Number \X Type)]
        /\ written \in [Session -> Seq(Session \X Number)]
    BY <1>1 DEF Init
  <2> QED
    BY <2>1, <2>3, <2>4 DEF TypeOK
<1>3. Numbering /\ Frame
  BY DEF Init, Numbering, Frame
<1>4. AnswersGoHome
  BY <1>1 DEF Init, AnswersGoHome
<1>5. Once
  <2>1. \A s \in Session : Unparsed(s) = <<>> /\ written[s] = <<>>
    BY <1>1 DEF Init, Unparsed
  <2>2. held = {}
    BY DEF Init
  <2> QED
    BY <2>1, <2>2, EmptyNothing DEF Once
<1> QED
  BY <1>2, <1>3, <1>4, <1>5 DEF IInv

LEMMA NextIInv == IInv /\ [Next]_vars => IInv'
<1> SUFFICES ASSUME IInv, [Next]_vars PROVE IInv'
  OBVIOUS
<1>1. CASE Next
  <2>1. TypeOK'
    BY <1>1, TypeNext
  <2> QED
    BY <1>1, <2>1, NumberingNext, FrameNext, HomeNext, OnceNext DEF IInv
<1>2. CASE UNCHANGED vars
  <2> USE <1>2 DEF IInv, vars, netVars, respVars, methodVars, frameVars
  <2>1. TypeOK' /\ Numbering' /\ Frame' /\ AnswersGoHome'
    BY DEF TypeOK, Numbering, Frame, AnswersGoHome
  <2>2. Once'
    <3>1. \A s : Unparsed(s)' = Unparsed(s)
      BY DEF Unparsed
    <3> QED
      BY <3>1 DEF Once
  <2> QED
    BY <2>1, <2>2
<1> QED
  BY <1>1, <1>2

-----------------------------------------------------------------------------
(* Theorems. *)

\* Types, the order of the ids, the parse loop's stream, and where each request
\* is, hold together in every reachable state.
THEOREM ServerInvariance == Spec => []IInv
BY InitIInv, NextIInv, PTL DEF Spec

\* Every variable keeps its type.
THEOREM ServerTypeCorrect == Spec => []TypeOK
<1>1. IInv => TypeOK
  BY DEF IInv
<1> QED
  BY <1>1, ServerInvariance, PTL

\* An answer is written to the connection its request came from.
THEOREM AnswersGoHomeHolds == Spec => []AnswersGoHome
<1>1. IInv => AnswersGoHome
  BY DEF IInv
<1> QED
  BY <1>1, ServerInvariance, PTL

\* A request is unparsed, held or answered once, never two of these.
THEOREM OncePerRequestHolds == Spec => []OncePerRequest
<1>1. IInv => OncePerRequest
  <2> SUFFICES ASSUME IInv PROVE OncePerRequest
    OBVIOUS
  <2> USE DEF IInv
  <2>1. ASSUME NEW s \in Session, NEW n, <<s, n>> \in Ran(written[s])
        PROVE  n \in Done(written[s])
    <3>1. written[s] \in Seq(Answer)
      BY DEF TypeOK, Answer
    <3>2. PICK k \in 1..Len(written[s]) : <<s, n>> = written[s][k]
      BY <2>1, <3>1, LenProperties DEF Ran
    <3> QED
      BY <3>2 DEF Done
  <2>2. ASSUME NEW s \in Session, NEW p \in Ran(Unparsed(s))
        PROVE  p[1] \in Nums(Unparsed(s))
    <3>1. Unparsed(s) \in Seq(Req)
      BY UnparsedType
    <3>2. PICK k \in 1..Len(Unparsed(s)) : p = Unparsed(s)[k]
      BY <3>1, LenProperties DEF Ran
    <3> QED
      BY <3>2 DEF Nums
  <2>3. ASSUME NEW s \in Session
        PROVE  /\ \A j, k \in 1..Len(written[s]) : written[s][j] = written[s][k] => j = k
               /\ \A j, k \in 1..Len(Unparsed(s)) :
                    Unparsed(s)[j][1] = Unparsed(s)[k][1] => j = k
    BY DEF Once, Distinct, Single
  <2>4. ASSUME NEW s \in Session, NEW p \in Ran(Unparsed(s))
        PROVE  <<s, p[1]>> \notin Ran(written[s])
    BY <2>1, <2>2 DEF Once
  <2>5. ASSUME NEW q \in held
        PROVE  /\ \A p \in Ran(Unparsed(q[2])) : p[1] # q[3]
               /\ <<q[2], q[3]>> \notin Ran(written[q[2]])
    <3>1. q[2] \in Session /\ q[3] \notin Nums(Unparsed(q[2])) \cup Done(written[q[2]])
      BY DEF TypeOK, Once
    <3> QED
      BY <2>1, <2>2, <3>1
  <2> QED
    BY <2>3, <2>4, <2>5 DEF OncePerRequest
<1> QED
  BY <1>1, ServerInvariance, PTL

-----------------------------------------------------------------------------
(* RpcWire: headers. *)

\* v is a number of w bytes.
Wide(v, w) == v = [i \in 1..w |-> v[i]]

\* The bytes of b from an offset on are those of v.
Begins(v, w, b, off) == \A i \in 1..w : v[i] = b[off + i]

LEMMA WireIs ==
  ASSUME NEW w \in Nat, NEW v, Wide(v, w), NEW o
  PROVE  W!Wire(v, w, o) = v
<1>1. W!Reversed(W!Reversed(v, w), w) = v
  <2>1. \A i \in 1..w : w + 1 - i \in 1..w /\ w + 1 - (w + 1 - i) = i
    OBVIOUS
  <2>2. W!Reversed(W!Reversed(v, w), w) = [i \in 1..w |-> v[i]]
    BY <2>1 DEF W!Reversed
  <2> QED
    BY <2>2 DEF Wide
<1> QED
  BY <1>1 DEF W!Wire, W!InMemory, W!_shead_check_bigendian

LEMMA ReadIs ==
  ASSUME NEW w \in Nat, NEW b, NEW off \in Nat, NEW o,
         NEW v, Wide(v, w), Begins(v, w, b, off)
  PROVE  W!Read(b, off, w, o) = v
<1>1. v = [i \in 1..w |-> b[off + i]]
  BY DEF Wide, Begins
<1>2. W!Reversed(W!Reversed(v, w), w) = v
  <2>1. \A i \in 1..w : w + 1 - i \in 1..w /\ w + 1 - (w + 1 - i) = i
    OBVIOUS
  <2>2. W!Reversed(W!Reversed(v, w), w) = [i \in 1..w |-> v[i]]
    BY <2>1 DEF W!Reversed
  <2> QED
    BY <2>2 DEF Wide
<1> QED
  BY <1>1, <1>2 DEF W!Read, W!InMemory, W!_shead_check_bigendian

\* The bytes at the place of the magic number are the magic number.
Magic(b) == b[13] = 242 /\ b[14] = 161 /\ b[15] = 194 /\ b[16] = 204

LEMMA ValidIs ==
  ASSUME NEW b, NEW o
  PROVE  W!Valid(b, o) <=> Magic(b)
<1>1. PICK v : v = [i \in 1..4 |-> b[12 + i]]
  OBVIOUS
<1>2. W!Read(b, 12, 4, o) = v
  <2>1. Wide(v, 4) /\ Begins(v, 4, b, 12)
    BY <1>1 DEF Wide, Begins
  <2> QED
    BY <2>1, ReadIs
<1>3. v[1] = b[13] /\ v[2] = b[14] /\ v[3] = b[15] /\ v[4] = b[16]
  BY <1>1
<1>4. v = <<v[1], v[2], v[3], v[4]>>
  BY <1>1
<1>5. v = <<242, 161, 194, 204>> <=> v[1] = 242 /\ v[2] = 161 /\ v[3] = 194 /\ v[4] = 204
  BY <1>4
<1> QED
  BY <1>2, <1>3, <1>5 DEF W!Valid, W!SHEAD_MAGIC_NUM, Magic

\* b begins as a header does, encoded on a host of byte order p.
Encodes(b, h, p) == \A i \in 1..24 : b[i] = W!Encode(h, p)[i]

\* A header is decoded as it was encoded, on hosts of any byte orders.
LEMMA HeaderWhole ==
  ASSUME NEW h \in W!Heads, NEW b, NEW p, NEW q, Encodes(b, h, p)
  PROVE  W!Valid(b, q) /\ W!Decode(b, q) = h
<1>1. /\ h.id \in [1..8 -> W!Byte] /\ h.type \in [1..4 -> W!Byte]
      /\ h.reserved \in [1..4 -> W!Byte] /\ h.body_len \in [1..4 -> W!Byte]
      /\ h = [id |-> h.id, type |-> h.type, reserved |-> h.reserved, body_len |-> h.body_len]
  BY DEF W!Heads
<1>2. Wide(h.id, 8) /\ Wide(h.type, 4) /\ Wide(h.reserved, 4) /\ Wide(h.body_len, 4)
  BY <1>1 DEF Wide
<1>3. /\ W!Wire(h.id, 8, p) = h.id /\ W!Wire(h.type, 4, p) = h.type
      /\ W!Wire(h.reserved, 4, p) = h.reserved /\ W!Wire(h.body_len, 4, p) = h.body_len
  BY <1>2, WireIs
<1>4. W!Wire(W!SHEAD_MAGIC_NUM, 4, p) = <<242, 161, 194, 204>>
  <2>1. PICK v : v = <<242, 161, 194, 204>>
    OBVIOUS
  <2>2. Wide(v, 4)
    BY <2>1 DEF Wide
  <2>3. W!Wire(v, 4, p) = v
    BY <2>2, WireIs
  <2> QED
    BY <2>1, <2>3 DEF W!SHEAD_MAGIC_NUM
<1>5. \A i \in 1..24 : W!Encode(h, p)[i] =
        CASE i <= 8 -> h.id[i]
          [] i \in 9..12 -> h.type[i - 8]
          [] i \in 13..16 -> <<242, 161, 194, 204>>[i - 12]
          [] i \in 17..20 -> h.reserved[i - 16]
          [] i \in 21..24 -> h.body_len[i - 20]
  BY <1>3, <1>4 DEF W!Encode, W!SHEAD_ENCODE_SIZE
<1>6. /\ Begins(h.id, 8, b, 0) /\ Begins(h.type, 4, b, 8)
      /\ Begins(h.reserved, 4, b, 16) /\ Begins(h.body_len, 4, b, 20)
  BY <1>5 DEF Begins, Encodes
<1>7. Magic(b)
  <2>1. b[13] = <<242, 161, 194, 204>>[1] /\ b[14] = <<242, 161, 194, 204>>[2]
    BY <1>5 DEF Encodes
  <2>2. b[15] = <<242, 161, 194, 204>>[3] /\ b[16] = <<242, 161, 194, 204>>[4]
    BY <1>5 DEF Encodes
  <2> QED
    BY <2>1, <2>2 DEF Magic
<1>8. /\ W!Read(b, 0, 8, q) = h.id /\ W!Read(b, 8, 4, q) = h.type
      /\ W!Read(b, 16, 4, q) = h.reserved /\ W!Read(b, 20, 4, q) = h.body_len
  <2>1. W!Read(b, 0, 8, q) = h.id
    BY <1>2, <1>6, ReadIs
  <2>2. W!Read(b, 8, 4, q) = h.type
    BY <1>2, <1>6, ReadIs
  <2>3. W!Read(b, 16, 4, q) = h.reserved
    BY <1>2, <1>6, ReadIs
  <2>4. W!Read(b, 20, 4, q) = h.body_len
    BY <1>2, <1>6, ReadIs
  <2> QED
    BY <2>1, <2>2, <2>3, <2>4
<1> QED
  BY <1>1, <1>7, <1>8, ValidIs DEF W!Decode

-----------------------------------------------------------------------------
(* RpcWire: messages in the bytes. *)

\* What messages can be.
Msg == {W!Message(i, n) : i \in W!Byte, n \in W!Byte}

\* All bytes of m are in b from an offset on.
At(b, o, m) ==
  /\ o + 24 + Len(m.body) <= Len(b)
  /\ \A i \in 1..24 : b[o + i] = W!Encode(m.head, from)[i]
  /\ \A i \in 1..Len(m.body) : b[o + 24 + i] = m.body[i]

LEMMA IsSequence ==
  ASSUME NEW S, NEW n \in Nat, NEW f \in [1..n -> S]
  PROVE  f \in Seq(S) /\ Len(f) = n
<1>1. f \in Seq(S)
  BY SeqDef
<1>2. DOMAIN f = 1..Len(f) /\ Len(f) \in Nat
  BY <1>1, LenProperties
<1>3. 1..Len(f) = 1..n
  BY <1>2
<1>4. Len(f) <= n /\ n <= Len(f)
  <2>1. Len(f) >= 1 => Len(f) \in 1..n
    BY <1>2, <1>3
  <2>2. n >= 1 => n \in 1..Len(f)
    BY <1>3
  <2> QED
    BY <1>2, <2>1, <2>2
<1> QED
  BY <1>1, <1>2, <1>4

\* A part of a sequence.
LEMMA PartIs ==
  ASSUME NEW S, NEW s \in Seq(S), NEW m \in Nat, NEW n \in m..Len(s)
  PROVE  /\ SubSeq(s, m + 1, n) \in Seq(S) /\ Len(SubSeq(s, m + 1, n)) = n - m
         /\ \A i \in 1..n - m : SubSeq(s, m + 1, n)[i] = s[m + i]
<1>1. Len(s) \in Nat
  BY LenProperties
<1>2. \A i \in m + 1..n : s[i] \in S
  BY <1>1, ElementOfSeq
<1> DEFINE q == SubSeq(s, m + 1, n)
<1>3. /\ q \in Seq(S) /\ Len(q) = IF m + 1 <= n THEN n - (m + 1) + 1 ELSE 0
      /\ \A i \in 1..n - (m + 1) + 1 : q[i] = s[m + 1 + i - 1]
  <2>1. m + 1 \in Int /\ n \in Int
    BY <1>1
  <2> QED
    BY <1>2, <2>1, SubSeqProperties
<1> HIDE DEF q
<1>4. ASSUME NEW i \in 1..n - m PROVE q[i] = s[m + i]
  <2>1. i \in 1..n - (m + 1) + 1 /\ m + 1 + i - 1 = m + i
    BY <1>1
  <2> QED
    BY <1>3, <2>1
<1>5. Len(q) = n - m
  BY <1>1, <1>3
<1> QED
  BY <1>3, <1>4, <1>5 DEF q

LEMMA MessageType ==
  ASSUME NEW m \in Msg
  PROVE  /\ m.head \in W!Heads /\ Len(m.body) \in W!Byte /\ m.body \in Seq(W!Byte)
         /\ W!Number(m.head.body_len) = Len(m.body)
         /\ m = [head |-> m.head, body |-> m.body]
<1>1. PICK i \in W!Byte, n \in W!Byte : m = W!Message(i, n)
  BY DEF Msg
<1>2. i \in 0..255 /\ n \in 0..255
  BY <1>1 DEF W!Byte
<1>3. /\ m.head = [id |-> <<0, 0, 0, 0, 0, 0, 0, i>>, type |-> <<0, 0, 0, 1>>,
                   reserved |-> <<0, 0, 0, 0>>, body_len |-> <<0, 0, 0, n>>]
      /\ m.body = [j \in 1..n |-> i]
      /\ m = [head |-> m.head, body |-> m.body]
  BY <1>1 DEF W!Message
<1>4. m.head \in W!Heads
  <2>1. <<0, 0, 0, 0, 0, 0, 0, i>> \in [1..8 -> W!Byte]
    BY <1>2 DEF W!Byte
  <2>2. /\ <<0, 0, 0, 1>> \in [1..4 -> W!Byte] /\ <<0, 0, 0, 0>> \in [1..4 -> W!Byte]
        /\ <<0, 0, 0, n>> \in [1..4 -> W!Byte]
    BY <1>2 DEF W!Byte
  <2> QED
    BY <1>3, <2>1, <2>2 DEF W!Heads
<1>5. m.body \in Seq(W!Byte) /\ Len(m.body) = n
  <2>1. m.body \in [1..n -> W!Byte]
    BY <1>1, <1>3
  <2> QED
    BY <1>2, <2>1, IsSequence
<1>6. W!Number(m.head.body_len) = n
  <2>1. PICK v : v = <<0, 0, 0, n>>
    OBVIOUS
  <2>2. v[1] = 0 /\ v[2] = 0 /\ v[3] = 0 /\ v[4] = n
    BY <2>1
  <2>3. m.head.body_len = v
    BY <1>3, <2>1
  <2> QED
    BY <1>2, <2>2, <2>3 DEF W!Number
<1> QED
  BY <1>2, <1>3, <1>4, <1>5, <1>6 DEF W!Byte

LEMMA BodyLong ==
  ASSUME NEW m \in Msg
  PROVE  Len(m.body) \in Nat
<1>1. PICK s : s = m.body
  OBVIOUS
<1>2. s \in Seq(W!Byte)
  BY <1>1, MessageType
<1>3. Len(s) \in Nat
  BY <1>2, LenProperties
<1> QED
  BY <1>1, <1>3

LEMMA EncodedType ==
  ASSUME NEW h \in W!Heads, NEW p
  PROVE  W!Encode(h, p) \in Seq(W!Byte) /\ Len(W!Encode(h, p)) = 24
<1>1. /\ h.id \in [1..8 -> W!Byte] /\ h.type \in [1..4 -> W!Byte]
      /\ h.reserved \in [1..4 -> W!Byte] /\ h.body_len \in [1..4 -> W!Byte]
  BY DEF W!Heads
<1>2. Wide(h.id, 8) /\ Wide(h.type, 4) /\ Wide(h.reserved, 4) /\ Wide(h.body_len, 4)
  BY <1>1 DEF Wide
<1>3. PICK v : v = <<242, 161, 194, 204>>
  OBVIOUS
<1>4. Wide(v, 4) /\ v \in [1..4 -> W!Byte]
  BY <1>3 DEF Wide, W!Byte
<1>5. /\ W!Wire(h.id, 8, p) = h.id /\ W!Wire(h.type, 4, p) = h.type
      /\ W!Wire(h.reserved, 4, p) = h.reserved /\ W!Wire(h.body_len, 4, p) = h.body_len
      /\ W!Wire(v, 4, p) = v
  BY <1>2, <1>4, WireIs
<1>6. W!Encode(h, p) = [i \in 1..24 |->
        CASE i <= 8 -> h.id[i]
          [] i \in 9..12 -> h.type[i - 8]
          [] i \in 13..16 -> v[i - 12]
          [] i \in 17..20 -> h.reserved[i - 16]
          [] i \in 21..24 -> h.body_len[i - 20]]
  BY <1>3, <1>5 DEF W!Encode, W!SHEAD_ENCODE_SIZE, W!SHEAD_MAGIC_NUM
<1>7. \A i \in 1..24 : W!Encode(h, p)[i] \in W!Byte
  BY <1>1, <1>4, <1>6
<1>8. W!Encode(h, p) \in [1..24 -> W!Byte]
  BY <1>6, <1>7
<1> QED
  BY <1>8, IsSequence

\* Where a message is, the loop finds it.
LEMMA Found ==
  ASSUME NEW b \in Seq(W!Byte), NEW o \in 0..Len(b), NEW m \in Msg, At(b, o, m)
  PROVE  LET head == SubSeq(b, o + 1, o + 24) IN
         /\ W!Complete(b, o) /\ W!Valid(head, to) /\ W!Decode(head, to) = m.head
         /\ SubSeq(b, o + 24 + 1, o + 24 + Len(m.body)) = m.body
<1>1. /\ m.head \in W!Heads /\ Len(m.body) \in 0..255 /\ m.body \in Seq(W!Byte)
      /\ W!Number(m.head.body_len) = Len(m.body)
  BY MessageType DEF W!Byte
<1>2. PICK l, n : l = Len(b) /\ n = Len(m.body)
  OBVIOUS
<1>3. l \in Nat /\ n \in 0..255 /\ o \in 0..l /\ o + 24 + n <= l
  BY <1>1, <1>2, LenProperties DEF At
<1>4. /\ \A i \in 1..24 : b[o + i] = W!Encode(m.head, from)[i]
      /\ \A i \in 1..n : b[o + 24 + i] = m.body[i]
  BY <1>2 DEF At
<1>5. PICK head : head = SubSeq(b, o + 1, o + 24)
  OBVIOUS
<1>6. W!Valid(head, to) /\ W!Decode(head, to) = m.head
  <2>1. PICK e : e = o + 24
    OBVIOUS
  <2>2. e \in o..Len(b) /\ e - o = 24 /\ o \in Nat
    <3>1. o \in Nat /\ l \in Nat /\ o + 24 <= l
      BY <1>3
    <3>2. e \in o..l /\ e - o = 24
      BY <2>1, <3>1
    <3> QED
      BY <1>2, <3>1, <3>2
  <2>3. \A i \in 1..e - o : SubSeq(b, o + 1, e)[i] = b[o + i]
    BY <2>2, PartIs
  <2>4. Encodes(head, m.head, from)
    BY <1>4, <1>5, <2>1, <2>2, <2>3 DEF Encodes
  <2> QED
    BY <1>1, <2>4, HeaderWhole
<1>7. W!Complete(b, o)
  <2>1. l - o >= 24 /\ l - o - 24 >= n
    BY <1>3
  <2> QED
    BY <1>1, <1>2, <1>5, <1>6, <2>1 DEF W!Complete, W!SHEAD_ENCODE_SIZE
<1>8. SubSeq(b, o + 24 + 1, o + 24 + n) = m.body
  <2>1. PICK d, e : d = o + 24 /\ e = o + 24 + n
    OBVIOUS
  <2>2. d \in Nat /\ e \in d..Len(b) /\ e - d = n
    <3>1. o \in Nat /\ l \in Nat /\ n \in Nat /\ o + 24 + n <= l
      BY <1>3
    <3>2. d \in Nat /\ e \in d..l /\ e - d = n
      BY <2>1, <3>1
    <3> QED
      BY <1>2, <3>2
  <2>3. PICK s : s = SubSeq(b, d + 1, e)
    OBVIOUS
  <2>4. s \in Seq(W!Byte) /\ Len(s) = e - d /\ \A i \in 1..e - d : s[i] = b[d + i]
    BY <2>2, <2>3, PartIs
  <2>5. Len(s) = Len(m.body) /\ \A i \in 1..Len(s) : s[i] = m.body[i]
    BY <1>2, <1>4, <2>1, <2>2, <2>4
  <2>6. s = m.body
    BY <1>1, <2>4, <2>5, SeqEqual
  <2> QED
    BY <2>1, <2>3, <2>6
<1> QED
  BY <1>2, <1>5, <1>6, <1>7, <1>8

\* Not all of m is in b from an offset on, but what is there is of m.
Cut(b, o, m) ==
  /\ Len(b) < o + 24 + Len(m.body)
  /\ \A i \in 1..24 : o + i <= Len(b) => b[o + i] = W!Encode(m.head, from)[i]

\* A message that is not all there yet is left for later.
LEMMA Partial ==
  ASSUME NEW b \in Seq(W!Byte), NEW o \in 0..Len(b), NEW m \in Msg, Cut(b, o, m)
  PROVE  ~W!Complete(b, o)
<1> SUFFICES ASSUME W!Complete(b, o) PROVE FALSE
  OBVIOUS
<1>1. /\ m.head \in W!Heads /\ Len(m.body) \in 0..255
      /\ W!Number(m.head.body_len) = Len(m.body)
  BY MessageType DEF W!Byte
<1>2. PICK l, n : l = Len(b) /\ n = Len(m.body)
  OBVIOUS
<1>3. l \in Nat /\ n \in 0..255 /\ o \in 0..l /\ l < o + 24 + n
  BY <1>1, <1>2, LenProperties DEF Cut
<1>4. PICK head : head = SubSeq(b, o + 1, o + 24)
  OBVIOUS
<1>5. /\ l - o >= 24
      /\ W!Valid(head, to) => l - o - 24 >= W!Number(W!Decode(head, to).body_len)
  BY <1>2, <1>4 DEF W!Complete, W!SHEAD_ENCODE_SIZE
<1>6. PICK e : e = o + 24
  OBVIOUS
<1>7. e \in o..Len(b) /\ e - o = 24 /\ o \in Nat
  <2>1. e \in o..l /\ e - o = 24 /\ o \in Nat
    BY <1>3, <1>5, <1>6
  <2> QED
    BY <1>2, <2>1
<1>8. \A i \in 1..e - o : SubSeq(b, o + 1, e)[i] = b[o + i]
  BY <1>7, PartIs
<1>9. \A i \in 1..24 : o + i <= Len(b)
  <2>1. \A i \in 1..24 : o + i <= l
    BY <1>3, <1>5
  <2> QED
    BY <1>2, <2>1
<1>10. Encodes(head, m.head, from)
  BY <1>4, <1>6, <1>7, <1>8, <1>9 DEF Cut, Encodes
<1>11. W!Valid(head, to) /\ W!Decode(head, to) = m.head
  <2>1. m.head \in W!Heads
    BY <1>1
  <2> QED
    BY <1>10, <2>1, HeaderWhole
<1>12. l - o - 24 >= n
  BY <1>1, <1>2, <1>5, <1>11
<1> QED
  BY <1>3, <1>12

\* A body without its header is never taken for a message.
LEMMA Headless ==
  ASSUME NEW b \in Seq(W!Byte), NEW o \in 0..Len(b), NEW c,
         \A j \in o + 1..Len(b) : b[j] = c, W!Complete(b, o)
  PROVE  ~W!Valid(SubSeq(b, o + 1, o + 24), to)
<1>1. PICK l : l = Len(b)
  OBVIOUS
<1>2. l \in Nat /\ o \in 0..l /\ l - o >= 24
  BY <1>1, LenProperties DEF W!Complete, W!SHEAD_ENCODE_SIZE
<1>3. PICK e : e = o + 24
  OBVIOUS
<1>4. e \in o..Len(b) /\ e - o = 24 /\ o \in Nat
  <2>1. e \in o..l /\ e - o = 24 /\ o \in Nat
    BY <1>2, <1>3
  <2> QED
    BY <1>1, <2>1
<1>5. \A i \in 1..e - o : SubSeq(b, o + 1, e)[i] = b[o + i]
  BY <1>4, PartIs
<1>6. \A i \in 1..24 : o + i \in o + 1..Len(b)
  <2>1. \A i \in 1..24 : o + i \in o + 1..l
    BY <1>2
  <2> QED
    BY <1>1, <2>1
<1>7. PICK head : head = SubSeq(b, o + 1, o + 24)
  OBVIOUS
<1>8. \A i \in 1..24 : head[i] = c
  BY <1>3, <1>4, <1>5, <1>6, <1>7
<1>9. head[13] = head[14]
  BY <1>8
<1>10. ~Magic(head)
  BY <1>9 DEF Magic
<1> QED
  BY <1>7, <1>10, ValidIs

-----------------------------------------------------------------------------
(* RpcWire: what the parse loop computes. *)

\* The loop at u, with f for the rest of it.
ParseStep(b, f, u) ==
  IF ~W!Complete(b, u) THEN [msgs |-> <<>>, used |-> u, ok |-> TRUE]
  ELSE LET head == SubSeq(b, u + 1, u + W!SHEAD_ENCODE_SIZE)
           h == W!Decode(head, to)
           end == u + W!SHEAD_ENCODE_SIZE + W!Number(h.body_len)
       IN IF ~W!Valid(head, to) THEN [msgs |-> <<>>, used |-> u, ok |-> FALSE]
          ELSE [f[end] EXCEPT !.msgs =
                  <<[head |-> h,
                     body |-> SubSeq(b, u + W!SHEAD_ENCODE_SIZE + 1, end)]>> \o @]

\* f is the loop from n on.
Solves(f, b, n) == f = [u \in n..Len(b) |-> ParseStep(b, f, u)]

LEMMA ParseDef ==
  ASSUME NEW b
  PROVE  W!ParseFrom(b) = CHOOSE f : Solves(f, b, 0)
BY DEF W!ParseFrom, Solves, ParseStep

LEMMA NumberType ==
  ASSUME NEW v, NEW c1 \in W!Byte, NEW c2 \in W!Byte, NEW c3 \in W!Byte,
         NEW c4 \in W!Byte, v[1] = c1, v[2] = c2, v[3] = c3, v[4] = c4
  PROVE  W!Number(v) \in Nat
<1>1. c1 \in Nat /\ c2 \in Nat /\ c3 \in Nat /\ c4 \in Nat
  BY DEF W!Byte
<1>2. 16777216 * c1 + 65536 * c2 + 256 * c3 + c4 \in Nat
  BY <1>1, SMT
<1>3. W!Number(v) = 16777216 * c1 + 65536 * c2 + 256 * c3 + c4
  BY SMT DEF W!Number
<1> QED
  BY <1>2, <1>3, SMT

LEMMA BodyLength ==
  ASSUME NEW b \in Seq(W!Byte), NEW u \in 0..Len(b), u + 24 <= Len(b), NEW q
  PROVE  W!Number(W!Decode(SubSeq(b, u + 1, u + 24), q).body_len) \in Nat
<1>1. PICK head, e, l : head = SubSeq(b, u + 1, e) /\ e = u + 24 /\ l = Len(b)
  OBVIOUS
<1>2. l \in Nat /\ u \in 0..l /\ u + 24 <= l
  BY <1>1, LenProperties
<1>3. e \in u..Len(b) /\ e - u = 24 /\ u \in Nat
  <2>1. e \in u..l /\ e - u = 24 /\ u \in Nat
    BY <1>1, <1>2
  <2> QED
    BY <1>1, <2>1
<1>4. head \in Seq(W!Byte) /\ Len(head) = e - u
  <2>1. SubSeq(b, u + 1, e) \in Seq(W!Byte) /\ Len(SubSeq(b, u + 1, e)) = e - u
    BY <1>3, PartIs
  <2> QED
    BY <1>1, <2>1
<1>5. \A i \in 1..24 : head[i] \in W!Byte
  BY <1>3, <1>4, ElementOfSeq
<1>6. PICK v : v = [i \in 1..4 |-> head[20 + i]]
  OBVIOUS
<1>7. Wide(v, 4) /\ Begins(v, 4, head, 20)
  BY <1>6 DEF Wide, Begins
<1>8. W!Read(head, 20, 4, q) = v
  BY <1>7, ReadIs
<1>9. \A i \in 1..4 : v[i] \in W!Byte
  <2>1. \A i \in 1..4 : 20 + i \in 1..24 /\ v[i] = head[20 + i]
    BY <1>6
  <2> QED
    BY <1>5, <2>1
<1>10. W!Decode(head, q).body_len = v
  BY <1>8 DEF W!Decode
<1>11. W!Number(v) \in Nat
  <2>1. v[1] \in W!Byte /\ v[2] \in W!Byte /\ v[3] \in W!Byte /\ v[4] \in W!Byte
    BY <1>9
  <2> QED
    BY <2>1, NumberType
<1> QED
  BY <1>1, <1>10, <1>11

\* f and g agree after u.
Agree(f, g, u, l) == \A v \in u + 1..l : f[v] = g[v]

\* What the loop does at u rests on what it does behind it.
LEMMA StepLooksAhead ==
  ASSUME NEW b \in Seq(W!Byte), NEW u \in 0..Len(b), NEW f, NEW g, Agree(f, g, u, Len(b))
  PROVE  ParseStep(b, f, u) = ParseStep(b, g, u)
<1>1. PICK head, l : head = SubSeq(b, u + 1, u + 24) /\ l = Len(b)
  OBVIOUS
<1>2. l \in Nat /\ u \in 0..l
  BY <1>1, LenProperties
<1>3. PICK n : n = W!Number(W!Decode(head, to).body_len)
  OBVIOUS
<1>4. CASE W!Complete(b, u) /\ W!Valid(head, to)
  <2>1. l - u >= 24 /\ l - u - 24 >= n
    BY <1>1, <1>3, <1>4 DEF W!Complete, W!SHEAD_ENCODE_SIZE
  <2>2. n \in Nat
    <3>1. u + 24 <= Len(b)
      BY <1>1, <1>2, <2>1
    <3> QED
      BY <1>1, <1>3, <3>1, BodyLength
  <2>3. u + 24 + n \in u + 1..l
    BY <1>2, <2>1, <2>2
  <2>4. f[u + 24 + n] = g[u + 24 + n]
    BY <1>1, <2>3 DEF Agree
  <2> QED
    BY <1>1, <1>3, <2>4, SMT DEF ParseStep, W!SHEAD_ENCODE_SIZE
<1>5. CASE ~(W!Complete(b, u) /\ W!Valid(head, to))
  <2>1. CASE ~W!Complete(b, u)
    BY <2>1, Zenon DEF ParseStep
  <2>2. CASE W!Complete(b, u)
    <3>1. ~W!Valid(SubSeq(b, u + 1, u + W!SHEAD_ENCODE_SIZE), to)
      BY <1>1, <1>5, <2>2 DEF W!SHEAD_ENCODE_SIZE
    <3> QED
      BY <2>2, <3>1, Zenon DEF ParseStep
  <2> QED
    BY <2>1, <2>2
<1> QED
  BY <1>4, <1>5

LEMMA LowestIn ==
  ASSUME NEW A \in SUBSET Nat, A # {}
  PROVE  \E x \in A : \A y \in A : x <= y
<1>1. PICK x \in A : \A y \in A : ~(<<y, x>> \in OpToRel(<, Nat))
  BY NatLessThanWellFounded, WFMin
<1>2. \A y \in A : ~(y < x)
  BY <1>1 DEF OpToRel
<1> QED
  BY <1>2

LEMMA SolutionExists ==
  ASSUME NEW b \in Seq(W!Byte)
  PROVE  \E f : Solves(f, b, 0)
<1>1. PICK l : l = Len(b)
  OBVIOUS
<1>2. l \in Nat
  BY <1>1, LenProperties
<1> DEFINE A == {n \in 0..l + 1 : \E f : Solves(f, b, n)}
<1>3. l + 1 \in A
  <2>1. PICK f : f = [u \in {} |-> 0]
    OBVIOUS
  <2>2. l + 1..l = {}
    BY <1>2
  <2>3. f = [u \in l + 1..l |-> ParseStep(b, f, u)]
    BY <2>1, <2>2
  <2>4. Solves(f, b, l + 1)
    BY <1>1, <2>3 DEF Solves
  <2> QED
    BY <1>2, <2>4
<1>4. A \in SUBSET Nat
  BY <1>2
<1>5. PICK n \in A : \A y \in A : n <= y
  <2> HIDE DEF A
  <2> QED
    BY <1>3, <1>4, LowestIn
<1>6. n \in 0..l + 1 /\ \E f : Solves(f, b, n)
  OBVIOUS
<1>7. PICK f : Solves(f, b, n)
  BY <1>6
<1>8. \A u \in n..l : f[u] = ParseStep(b, f, u)
  BY <1>1, <1>7 DEF Solves
<1>9. CASE n # 0
  <2>1. PICK m : m = n - 1
    OBVIOUS
  <2>2. m \in 0..l /\ m < n /\ m + 1 = n
    BY <1>2, <1>6, <1>9, <2>1
  <2>3. PICK g : g = [u \in m..l |-> IF u = m THEN ParseStep(b, f, m) ELSE f[u]]
    OBVIOUS
  <2>4. \A u \in m..l : Agree(f, g, u, l)
    BY <1>2, <2>2, <2>3 DEF Agree
  <2>5. \A u \in m..l : ParseStep(b, f, u) = ParseStep(b, g, u)
    <3>1. \A u \in m..l : u \in 0..Len(b)
      BY <1>1, <1>2, <2>2
    <3> QED
      BY <1>1, <2>4, <3>1, StepLooksAhead
  <2>6. \A u \in m..l : g[u] = ParseStep(b, g, u)
    <3>1. g[m] = ParseStep(b, f, m)
      BY <2>2, <2>3
    <3>2. ASSUME NEW u \in m..l, u # m PROVE g[u] = ParseStep(b, f, u)
      <4>1. u \in n..l
        BY <1>2, <2>2, <3>2
      <4>2. g[u] = f[u]
        BY <2>3, <3>2
      <4> QED
        BY <1>8, <4>1, <4>2
    <3> QED
      BY <2>5, <3>1, <3>2
  <2>7. Solves(g, b, m)
    <3>1. g = [u \in m..l |-> g[u]]
      BY <2>3
    <3> QED
      BY <1>1, <2>6, <3>1 DEF Solves
  <2>8. m \in A
    BY <1>2, <2>2, <2>7
  <2> HIDE DEF A
  <2>9. n <= m
    BY <1>5, <2>8
  <2> QED
    BY <1>2, <1>6, <2>2, <2>9
<1> QED
  BY <1>7, <1>9

\* The loop is what the model says, step by step.
LEMMA ParseIs ==
  ASSUME NEW b \in Seq(W!Byte), NEW u \in 0..Len(b)
  PROVE  W!ParseFrom(b)[u] = ParseStep(b, W!ParseFrom(b), u)
<1>1. PICK p : p = W!ParseFrom(b)
  OBVIOUS
<1>2. p = CHOOSE f : Solves(f, b, 0)
  BY <1>1, ParseDef
<1>3. Solves(p, b, 0)
  BY <1>2, SolutionExists
<1>4. p[u] = ParseStep(b, p, u)
  BY <1>3 DEF Solves
<1> QED
  BY <1>1, <1>4

\* What the loop makes of the input from some offset on.
Result(q, u, c) == [msgs |-> q, used |-> u, ok |-> c]

LEMMA ParseEnds ==
  ASSUME NEW b \in Seq(W!Byte), NEW o \in 0..Len(b)
  PROVE  /\ ~W!Complete(b, o) =>
              W!ParseFrom(b)[o] = Result(<<>>, o, TRUE)
         /\ W!Complete(b, o) /\ ~W!Valid(SubSeq(b, o + 1, o + 24), to) =>
              W!ParseFrom(b)[o] = Result(<<>>, o, FALSE)
<1>1. PICK f : f = W!ParseFrom(b)
  OBVIOUS
<1>2. f[o] = ParseStep(b, f, o)
  BY <1>1, ParseIs
<1> QED
  BY <1>1, <1>2, SMT DEF ParseStep, W!SHEAD_ENCODE_SIZE, Result

\* A message from o on ends at e.
EndsAt(o, m, e) == e = o + 24 + Len(m.body)

LEMMA ParseMessage ==
  ASSUME NEW b \in Seq(W!Byte), NEW o \in 0..Len(b), NEW m \in Msg, At(b, o, m),
         NEW e, EndsAt(o, m, e), NEW q, NEW u, NEW c,
         W!ParseFrom(b)[e] = Result(q, u, c)
  PROVE  W!ParseFrom(b)[o] = Result(<<m>> \o q, u, c)
<1>1. PICK f, head, n, end :
        /\ f = W!ParseFrom(b) /\ head = SubSeq(b, o + 1, o + 24)
        /\ n = Len(m.body) /\ end = o + 24 + n /\ end = e
  BY DEF EndsAt
<1>2. f[o] = ParseStep(b, f, o)
  BY <1>1, ParseIs
<1>3. /\ W!Complete(b, o) /\ W!Valid(head, to) /\ W!Decode(head, to) = m.head
      /\ SubSeq(b, o + 24 + 1, end) = m.body
  BY <1>1, Found
<1>4. W!Number(m.head.body_len) = n /\ m = [head |-> m.head, body |-> m.body]
  BY <1>1, MessageType
<1>5. PICK r, h, d : r = f[end] /\ h = W!Decode(head, to) /\ d = SubSeq(b, o + 24 + 1, end)
  OBVIOUS
<1>6. o + 24 + W!Number(h.body_len) = end
  BY <1>1, <1>3, <1>4, <1>5
<1>7. f[o] = [r EXCEPT !.msgs = <<[head |-> h, body |-> d]>> \o @]
  BY <1>1, <1>2, <1>3, <1>5, <1>6 DEF ParseStep, W!SHEAD_ENCODE_SIZE
<1>8. r = Result(q, u, c) /\ m = [head |-> h, body |-> d]
  BY <1>1, <1>3, <1>4, <1>5
<1>9. f[o] = Result(<<m>> \o q, u, c)
  <2>1. f[o] = [r EXCEPT !.msgs = <<m>> \o @]
    BY <1>7, <1>8
  <2>2. PICK x : x = <<m>> \o q
    OBVIOUS
  <2>3. r.msgs = q
    BY <1>8 DEF Result
  <2>4. f[o] = [r EXCEPT !.msgs = x]
    BY <2>1, <2>2, <2>3
  <2>5. [r EXCEPT !.msgs = x] = Result(x, u, c)
    BY <1>8 DEF Result
  <2> QED
    BY <2>2, <2>4, <2>5
<1> QED
  BY <1>1, <1>9

-----------------------------------------------------------------------------
(* RpcWire: the invariant. *)

\* off[j] is where message j of q ends, counted from the end of message k.
Offsets(off, q, k) ==
  /\ off \in [Nat -> Nat] /\ off[k] = 0
  /\ \A j \in k + 1..Len(q) : off[j] = off[j - 1] + 24 + Len(q[j].body)

\* Messages k + 1 to n of q are in b.
Row(b, off, q, k, n) == \A j \in k + 1..n : At(b, off[j - 1], q[j])

LEMMA OffsetsGrow ==
  ASSUME NEW q \in Seq(Msg), NEW k \in 0..Len(q), NEW off, Offsets(off, q, k),
         NEW i \in k..Len(q), NEW j \in i..Len(q)
  PROVE  off[i] \in Nat /\ off[j] \in Nat /\ off[i] <= off[j]
<1>1. PICK l : l = Len(q)
  OBVIOUS
<1>2. l \in Nat /\ k \in 0..l /\ i \in k..l /\ j \in i..l /\ off \in [Nat -> Nat]
  BY <1>1, LenProperties DEF Offsets
<1>3. \A x \in Nat : off[x] \in Nat
  BY <1>2
<1>4. ASSUME NEW x \in k + 1..l PROVE off[x - 1] <= off[x]
  <2>1. x \in 1..l
    BY <1>2
  <2>2. q[x] \in Msg
    BY <1>1, <2>1, ElementOfSeq
  <2>3. Len(q[x].body) \in Nat
    BY <2>2, BodyLong
  <2>4. off[x] = off[x - 1] + 24 + Len(q[x].body)
    BY <1>1 DEF Offsets
  <2>5. PICK o, t, n : o = off[x - 1] /\ t = off[x] /\ n = Len(q[x].body)
    OBVIOUS
  <2>6. o \in Nat /\ t \in Nat /\ n \in Nat /\ t = o + 24 + n
    <3>1. x \in Nat /\ x - 1 \in Nat
      BY <2>1
    <3> QED
      BY <1>3, <2>3, <2>4, <2>5, <3>1
  <2>7. o <= t
    BY <2>6
  <2> QED
    BY <2>5, <2>7
<1> DEFINE Bad == {x \in i..l : ~(off[i] <= off[x])}
<1>5. CASE Bad = {}
  <2>1. off[i] <= off[j]
    BY <1>2, <1>5
  <2> QED
    BY <1>2, <1>3, <2>1
<1>6. CASE Bad # {}
  <2>1. Bad \in SUBSET Nat
    BY <1>2
  <2>2. PICK x \in Bad : \A y \in Bad : x <= y
    <3> HIDE DEF Bad
    <3> QED
      BY <1>6, <2>1, LowestIn
  <2>3. x \in i..l /\ ~(off[i] <= off[x])
    OBVIOUS
  <2>4. \A y \in i..l : ~(off[i] <= off[y]) => x <= y
    BY <2>2
  <2> HIDE DEF Bad
  <2>5. x # i
    BY <1>2, <1>3, <2>3
  <2>6. x - 1 \in i..l /\ x \in k + 1..l /\ ~(x <= x - 1)
    BY <1>2, <2>3, <2>5
  <2>7. off[i] <= off[x - 1]
    BY <2>4, <2>6
  <2>8. off[x - 1] <= off[x]
    BY <1>4, <2>6
  <2>9. off[i] \in Nat /\ off[x] \in Nat /\ off[x - 1] \in Nat
    <3>1. i \in Nat /\ x \in Nat /\ x - 1 \in Nat
      BY <1>2, <2>6
    <3> QED
      BY <1>3, <3>1
  <2> QED
    BY <2>3, <2>7, <2>8, <2>9
<1> QED
  BY <1>5, <1>6

\* Messages that are there one after the other are parsed one after the other.
LEMMA ParsesAll ==
  ASSUME NEW b \in Seq(W!Byte), NEW q \in Seq(Msg), NEW k \in 0..Len(q),
         NEW off, Offsets(off, q, k), NEW n \in k..Len(q), NEW c,
         Row(b, off, q, k, n), NEW u, u = off[n], NEW v, v = off[k],
         W!ParseFrom(b)[u] = Result(<<>>, u, c)
  PROVE  W!ParseFrom(b)[v] = Result(SubSeq(q, k + 1, n), u, c)
<1>1. PICK l, f : l = Len(q) /\ f = W!ParseFrom(b)
  OBVIOUS
<1>2. l \in Nat /\ k \in 0..l /\ n \in k..l
  BY <1>1, LenProperties
<1> DEFINE Good(j) == f[off[j]] = Result(SubSeq(q, j + 1, n), off[n], c)
           Bad == {x \in 0..n - k : ~Good(n - x)}
<1>3. Good(n)
  <2>1. SubSeq(q, n + 1, n) = <<>>
    BY <1>2, SubSeqEmpty
  <2> QED
    BY <1>1, <2>1
<1>4. ASSUME NEW j \in k + 1..n, Good(j) PROVE Good(j - 1)
  <2>1. j \in 1..l /\ j - 1 \in k..l /\ j \in k + 1..l /\ j \in j - 1..l /\ n \in j..l
    BY <1>2
  <2>2. q[j] \in Msg
    BY <1>1, <2>1, ElementOfSeq
  <2>3. off[j] = off[j - 1] + 24 + Len(q[j].body)
    BY <1>1, <2>1 DEF Offsets
  <2>4. At(b, off[j - 1], q[j])
    BY DEF Row
  <2>5. off[j - 1] \in 0..Len(b)
    <3>1. off[j - 1] \in Nat
      <4>1. j - 1 \in Nat
        BY <1>2, <2>1
      <4>2. off \in [Nat -> Nat]
        BY DEF Offsets
      <4> QED
        BY <4>1, <4>2
    <3>2. Len(b) \in Nat /\ Len(q[j].body) \in Nat
      BY <2>2, LenProperties, MessageType
    <3>3. off[j - 1] + 24 + Len(q[j].body) <= Len(b)
      BY <2>4 DEF At
    <3> QED
      BY <3>1, <3>2, <3>3
  <2>6. PICK s, o, e : s = SubSeq(q, j + 1, n) /\ o = off[j - 1] /\ e = off[j]
    OBVIOUS
  <2>7. f[e] = Result(s, off[n], c) /\ e = o + 24 + Len(q[j].body)
    BY <1>4, <2>3, <2>6
  <2>8. f[o] = Result(<<q[j]>> \o s, off[n], c)
    <3>1. PICK m, t : m = q[j] /\ t = off[n]
      OBVIOUS
    <3>2. m \in Msg /\ o \in 0..Len(b) /\ At(b, o, m)
      BY <2>2, <2>4, <2>5, <2>6, <3>1
    <3>3. EndsAt(o, m, e)
      BY <2>7, <3>1 DEF EndsAt
    <3>4. W!ParseFrom(b)[e] = Result(s, t, c)
      BY <1>1, <2>7, <3>1
    <3>5. W!ParseFrom(b)[o] = Result(<<m>> \o s, t, c)
      BY <3>2, <3>3, <3>4, ParseMessage
    <3> QED
      BY <1>1, <3>1, <3>5
  <2>9. <<q[j]>> \o s = SubSeq(q, j, n)
    <3>1. j \in 1..Len(q) /\ n \in j..Len(q)
      BY <1>1, <2>1
    <3>2. SubSeq(q, j, n) = <<q[j]>> \o SubSeq(q, j + 1, n)
      BY <3>1, SubSeqRecursiveFirst
    <3> QED
      BY <2>6, <3>2
  <2>10. j - 1 + 1 = j
    BY <2>1
  <2> QED
    BY <2>6, <2>8, <2>9, <2>10
<1>5. CASE Bad = {}
  <2>1. n - k \in 0..n - k /\ n - (n - k) = k
    BY <1>2
  <2>2. Good(n - (n - k))
    BY <1>5, <2>1
  <2> QED
    BY <1>1, <2>1, <2>2
<1>6. CASE Bad # {}
  <2> HIDE DEF Good
  <2>1. Bad \in SUBSET Nat
    BY <1>2
  <2>2. PICK x \in Bad : \A y \in Bad : x <= y
    <3> HIDE DEF Bad
    <3> QED
      BY <1>6, <2>1, LowestIn
  <2>3. x \in 0..n - k /\ ~Good(n - x)
    BY <2>2
  <2>4. x # 0
    <3>1. n - 0 = n
      BY <1>2
    <3> QED
      BY <1>3, <2>3, <3>1
  <2>5. PICK j : j = n - x + 1
    OBVIOUS
  <2>6. x - 1 \in 0..n - k /\ ~(x <= x - 1) /\ j \in k + 1..n /\ j = n - (x - 1) /\ j - 1 = n - x
    BY <1>2, <2>3, <2>4, <2>5
  <2>7. Good(n - (x - 1))
    BY <2>2, <2>6
  <2>8. Good(j - 1)
    BY <1>4, <2>6, <2>7
  <2> QED
    BY <2>3, <2>6, <2>8
<1> QED
  BY <1>5, <1>6

\* The header of m, and nothing after it; the bytes of a body, and nothing else.
LoneHead(b, o, m) ==
  Len(b) = o + 24 /\ \A i \in 1..24 : b[o + i] = W!Encode(m.head, from)[i]
LoneBody(b, o) == o <= Len(b) /\ \E c : \A j \in o + 1..Len(b) : b[j] = c

\* What follows the messages that were sent whole.
Rest(b, o, h) ==
  IF h THEN \/ \E m \in Msg : Len(m.body) > 0 /\ LoneHead(b, o, m)
            \/ LoneBody(b, o)
  ELSE Len(b) = o

\* The bytes b are the messages of q after the k-th and what follows them.
Laid(b, off, q, k, h) ==
  /\ Offsets(off, q, k) /\ Row(b, off, q, k, Len(q))
  /\ Rest(b, off[Len(q)], h)

\* d is what b begins with.
Start(d, b) == Len(d) <= Len(b) /\ \A i \in 1..Len(d) : d[i] = b[i]

\* What is there of a message in the first bytes of the connection.
LEMMA AtStart ==
  ASSUME NEW b \in Seq(W!Byte), NEW d \in Seq(W!Byte), Start(d, b), NEW o \in Nat,
         NEW m \in Msg, At(b, o, m)
  PROVE  IF o + 24 + Len(m.body) <= Len(d) THEN At(d, o, m) ELSE Cut(d, o, m)
<1>1. PICK l, n : l = Len(d) /\ n = Len(m.body)
  OBVIOUS
<1>2. l \in Nat /\ n \in Nat
  <2>1. Len(m.body) \in Nat
    BY BodyLong
  <2> QED
    BY <1>1, <2>1, LenProperties
<1>3. /\ \A i \in 1..24 : b[o + i] = W!Encode(m.head, from)[i]
      /\ \A i \in 1..n : b[o + 24 + i] = m.body[i]
      /\ \A i \in 1..l : d[i] = b[i]
  BY <1>1 DEF At, Start
<1>4. CASE o + 24 + n <= l
  <2>1. \A i \in 1..24 : o + i \in 1..l
    BY <1>2, <1>4
  <2>2. \A i \in 1..n : o + 24 + i \in 1..l
    BY <1>2, <1>4
  <2>3. \A i \in 1..24 : d[o + i] = W!Encode(m.head, from)[i]
    BY <1>3, <2>1
  <2>4. \A i \in 1..n : d[o + 24 + i] = m.body[i]
    BY <1>3, <2>2
  <2>5. At(d, o, m)
    BY <1>1, <1>4, <2>3, <2>4 DEF At
  <2> QED
    BY <1>1, <1>4, <2>5
<1>5. CASE ~(o + 24 + n <= l)
  <2>1. l < o + 24 + n
    BY <1>2, <1>5
  <2>2. \A i \in 1..24 : o + i <= l => o + i \in 1..l
    BY <1>2
  <2>3. \A i \in 1..24 : o + i <= l => d[o + i] = W!Encode(m.head, from)[i]
    BY <1>3, <2>2
  <2>4. Cut(d, o, m)
    BY <1>1, <2>1, <2>3 DEF Cut
  <2> QED
    BY <1>1, <1>5, <2>4
<1> QED
  BY <1>4, <1>5

\* Behind the messages the loop takes nothing for a message.
LEMMA StopsAtRest ==
  ASSUME NEW b \in Seq(W!Byte), NEW d \in Seq(W!Byte), Start(d, b), NEW o \in 0..Len(d),
         NEW h \in BOOLEAN, Rest(b, o, h), W!Complete(d, o)
  PROVE  ~W!Valid(SubSeq(d, o + 1, o + 24), to)
<1>1. PICK l, z : l = Len(d) /\ z = Len(b)
  OBVIOUS
<1>2. l \in Nat /\ z \in Nat /\ l <= z /\ o \in 0..l
  BY <1>1, LenProperties DEF Start
<1>3. l - o >= 24
  BY <1>1 DEF W!Complete, W!SHEAD_ENCODE_SIZE
<1>4. CASE ~h
  <2>1. z = o
    BY <1>1, <1>4 DEF Rest
  <2> QED
    BY <1>2, <1>3, <2>1
<1>5. ASSUME NEW m \in Msg, Len(m.body) > 0, LoneHead(b, o, m) PROVE FALSE
  <2>1. z = o + 24 /\ \A i \in 1..24 : b[o + i] = W!Encode(m.head, from)[i]
    BY <1>1, <1>5 DEF LoneHead
  <2>2. PICK n : n = Len(m.body)
    OBVIOUS
  <2>3. n \in Nat /\ n > 0
    <3>1. Len(m.body) \in Nat
      BY BodyLong
    <3> QED
      BY <1>5, <2>2, <3>1
  <2>4. l < o + 24 + n
    <3>1. l <= z /\ z = o + 24 /\ l \in Nat /\ o \in Nat
      BY <1>2, <2>1
    <3> QED
      BY <2>3, <3>1
  <2>5. \A i \in 1..l : d[i] = b[i]
    BY <1>1 DEF Start
  <2>6. \A i \in 1..24 : o + i <= l => o + i \in 1..l
    BY <1>2
  <2>7. \A i \in 1..24 : o + i <= l => d[o + i] = W!Encode(m.head, from)[i]
    BY <2>1, <2>5, <2>6
  <2>8. Cut(d, o, m)
    BY <1>1, <2>2, <2>4, <2>7 DEF Cut
  <2> QED
    BY <2>8, Partial
<1>6. CASE LoneBody(b, o)
  <2>1. PICK c : \A j \in o + 1..z : b[j] = c
    BY <1>1, <1>6 DEF LoneBody
  <2>2. \A j \in o + 1..l : j \in 1..l /\ j \in o + 1..z
    BY <1>2
  <2>3. \A j \in o + 1..l : d[j] = b[j]
    <3>1. \A i \in 1..l : d[i] = b[i]
      BY <1>1 DEF Start
    <3> QED
      BY <2>2, <3>1
  <2>4. \A j \in o + 1..Len(d) : d[j] = c
    BY <1>1, <2>1, <2>2, <2>3
  <2> QED
    BY <2>4, Headless
<1>7. CASE h
  BY <1>5, <1>6, <1>7 DEF Rest
<1> QED
  BY <1>4, <1>7

\* p are messages of q after the k-th, and the loop is behind them.
ParsesTo(p, d, q, k, off) ==
  \E n \in k..Len(q) :
    /\ off[n] \in 0..Len(d)
    /\ \/ /\ p = Result(SubSeq(q, k + 1, n), off[n], TRUE)
          /\ ~W!Complete(d, off[n])
       \/ p = Result(SubSeq(q, k + 1, n), off[n], FALSE)

\* What the reader makes of the first bytes: the messages that are whole in them.
LEMMA ParsesStart ==
  ASSUME NEW b \in Seq(W!Byte), NEW d \in Seq(W!Byte), Start(d, b),
         NEW q \in Seq(Msg), NEW k \in 0..Len(q), NEW off, NEW h \in BOOLEAN,
         Laid(b, off, q, k, h)
  PROVE  ParsesTo(W!Parse(d), d, q, k, off)
<1>1. PICK l, z : l = Len(d) /\ z = Len(q)
  OBVIOUS
<1>2. l \in Nat /\ z \in Nat /\ k \in 0..z
  BY <1>1, LenProperties
<1>3. /\ Offsets(off, q, k) /\ Row(b, off, q, k, z) /\ Rest(b, off[z], h)
      /\ off \in [Nat -> Nat] /\ off[k] = 0
  BY <1>1 DEF Laid, Offsets
<1>4. \A x \in Nat : off[x] \in Nat
  BY <1>3
<1> DEFINE A == {x \in k..z : x = z \/ ~(off[x + 1] <= l)}
<1>5. A \in SUBSET Nat /\ z \in A
  BY <1>2
<1>6. PICK n \in A : \A y \in A : n <= y
  <2> HIDE DEF A
  <2> QED
    BY <1>5, LowestIn
<1>7. n \in k..z /\ (n = z \/ ~(off[n + 1] <= l))
  OBVIOUS
<1>8. \A y \in k..z : ~(n <= y) => off[y + 1] <= l
  BY <1>6
<1> HIDE DEF A
<1>9. ASSUME NEW j \in k..n PROVE off[j] <= l
  <2>1. CASE j = k
    BY <1>2, <1>3, <2>1
  <2>2. CASE j # k
    <3>1. j - 1 \in k..z /\ ~(n <= j - 1) /\ j - 1 + 1 = j
      BY <1>2, <1>7, <2>2
    <3> QED
      BY <1>8, <3>1
  <2> QED
    BY <2>1, <2>2
<1>10. off[n] \in 0..Len(d)
  <2>1. n \in Nat /\ n \in k..n
    BY <1>2, <1>7
  <2>2. off[n] \in Nat /\ off[n] <= l
    BY <1>4, <1>9, <2>1
  <2> QED
    BY <1>1, <1>2, <2>2
<1>11. ASSUME NEW j \in k + 1..z
       PROVE  /\ q[j] \in Msg /\ At(b, off[j - 1], q[j]) /\ off[j - 1] \in Nat
              /\ off[j] = off[j - 1] + 24 + Len(q[j].body)
  <2>1. j \in 1..Len(q) /\ j - 1 \in Nat /\ j \in k + 1..Len(q)
    BY <1>1, <1>2
  <2>2. q[j] \in Msg
    BY <2>1, ElementOfSeq
  <2>3. off[j] = off[j - 1] + 24 + Len(q[j].body)
    BY <1>3, <2>1 DEF Offsets
  <2>4. At(b, off[j - 1], q[j])
    BY <1>3 DEF Row
  <2> QED
    BY <1>4, <2>1, <2>2, <2>3, <2>4
<1>12. Row(d, off, q, k, n)
  <2>1. ASSUME NEW j \in k + 1..n PROVE At(d, off[j - 1], q[j])
    <3>1. j \in k + 1..z /\ j \in k..n
      BY <1>2, <1>7
    <3>2. PICK o, m : o = off[j - 1] /\ m = q[j]
      OBVIOUS
    <3>3. o \in Nat /\ m \in Msg /\ At(b, o, m)
      BY <1>11, <3>1, <3>2
    <3>4. o + 24 + Len(m.body) <= Len(d)
      BY <1>1, <1>9, <1>11, <3>1, <3>2
    <3>5. At(d, o, m)
      BY <3>3, <3>4, AtStart
    <3> QED
      BY <3>2, <3>5
  <2> QED
    BY <2>1 DEF Row
<1>13. PICK o : o = off[n]
  OBVIOUS
<1>14. W!Complete(d, o) => ~W!Valid(SubSeq(d, o + 1, o + 24), to)
  <2>1. CASE n = z
    <3>1. o \in 0..Len(d) /\ Rest(b, o, h)
      BY <1>3, <1>10, <1>13, <2>1
    <3> QED
      BY <3>1, StopsAtRest
  <2>2. CASE n # z
    <3>1. n + 1 \in k + 1..z /\ n + 1 - 1 = n
      BY <1>2, <1>7, <2>2
    <3>2. PICK m, j : j = n + 1 /\ m = q[j]
      OBVIOUS
    <3>3. m \in Msg /\ At(b, o, m) /\ o \in Nat /\ off[j] = o + 24 + Len(m.body)
      <4>1. j \in k + 1..z /\ j - 1 = n
        BY <1>2, <1>7, <2>2, <3>2
      <4>2. /\ q[j] \in Msg /\ At(b, off[j - 1], q[j]) /\ off[j - 1] \in Nat
            /\ off[j] = off[j - 1] + 24 + Len(q[j].body)
        BY <1>11, <4>1
      <4> QED
        BY <1>13, <3>2, <4>1, <4>2
    <3>4. ~(o + 24 + Len(m.body) <= Len(d))
      BY <1>1, <1>7, <2>2, <3>2, <3>3
    <3>5. Cut(d, o, m)
      BY <3>3, <3>4, AtStart
    <3>6. o \in 0..Len(d)
      BY <1>10, <1>13
    <3>7. ~W!Complete(d, o)
      BY <3>3, <3>5, <3>6, Partial
    <3> QED
      BY <3>7
  <2> QED
    BY <2>1, <2>2
<1>15. n \in k..Len(q) /\ o \in 0..Len(d) /\ 0 = off[k]
  BY <1>1, <1>3, <1>7, <1>10, <1>13
<1>16. ASSUME NEW c, W!ParseFrom(d)[o] = Result(<<>>, o, c)
       PROVE  W!Parse(d) = Result(SubSeq(q, k + 1, n), o, c)
  <2>1. Offsets(off, q, k) /\ Row(d, off, q, k, n)
    BY <1>3, <1>12
  <2>2. W!ParseFrom(d)[0] = Result(SubSeq(q, k + 1, n), o, c)
    <3>1. o = off[n] /\ W!ParseFrom(d)[o] = Result(<<>>, o, c)
      BY <1>13, <1>16
    <3>2. /\ d \in Seq(W!Byte) /\ q \in Seq(Msg) /\ k \in 0..Len(q)
          /\ n \in k..Len(q) /\ 0 = off[k]
      BY <1>1, <1>10, <1>15
    <3> QED
      BY <2>1, <3>1, <3>2, ParsesAll, SMTT(30)
  <2> QED
    BY <2>2 DEF W!Parse
<1>17. CASE W!Complete(d, o)
  <2>1. W!ParseFrom(d)[o] = Result(<<>>, o, FALSE)
    BY <1>14, <1>15, <1>17, ParseEnds
  <2>2. W!Parse(d) = Result(SubSeq(q, k + 1, n), o, FALSE)
    BY <1>16, <2>1
  <2> QED
    BY <1>13, <1>15, <2>2 DEF ParsesTo
<1>18. CASE ~W!Complete(d, o)
  <2>1. W!ParseFrom(d)[o] = Result(<<>>, o, TRUE)
    BY <1>15, <1>18, ParseEnds
  <2>2. W!Parse(d) = Result(SubSeq(q, k + 1, n), o, TRUE)
    BY <1>16, <2>1
  <2> QED
    BY <1>13, <1>15, <1>18, <2>2 DEF ParsesTo
<1> QED
  BY <1>17, <1>18

\* What is left when the first bytes are used, message by message.
LEMMA Shifted ==
  ASSUME NEW o \in Nat, NEW w \in Nat, NEW u \in Nat
  PROVE  (o + 24 + w) - u = (o - u) + 24 + w
OBVIOUS

LEMMA AtShift ==
  ASSUME NEW b \in Seq(W!Byte), NEW u \in 0..Len(b), NEW o \in Nat, u <= o,
         NEW m \in Msg, At(b, o, m), NEW p, p = o - u
  PROVE  At(SubSeq(b, u + 1, Len(b)), p, m)
<1>1. PICK l, n, s : l = Len(b) /\ n = Len(m.body) /\ s = SubSeq(b, u + 1, l)
  OBVIOUS
<1>2. l \in Nat /\ n \in Nat
  <2>1. Len(m.body) \in Nat
    BY BodyLong
  <2> QED
    BY <1>1, <2>1, LenProperties
<1>3. u \in Nat /\ l \in u..Len(b)
  <2>1. u \in 0..l
    BY <1>1
  <2> QED
    BY <1>1, <1>2, <2>1
<1>4. Len(s) = l - u /\ \A i \in 1..l - u : s[i] = b[u + i]
  BY <1>1, <1>3, PartIs
<1>5. /\ o + 24 + n <= l
      /\ \A i \in 1..24 : b[o + i] = W!Encode(m.head, from)[i]
      /\ \A i \in 1..n : b[o + 24 + i] = m.body[i]
  BY <1>1 DEF At
<1>6. o + 24 + n <= l
  BY <1>5
<1>7. p + 24 + n <= l - u /\ p \in Nat
  BY <1>2, <1>3, <1>6
<1>8. ASSUME NEW i \in 1..24 PROVE s[p + i] = W!Encode(m.head, from)[i]
  <2>1. p + i \in 1..l - u /\ u + (p + i) = o + i
    BY <1>2, <1>3, <1>7
  <2> QED
    BY <1>4, <1>5, <2>1
<1>9. ASSUME NEW i \in 1..n PROVE s[p + 24 + i] = m.body[i]
  <2>1. p + 24 + i \in 1..l - u /\ u + (p + 24 + i) = o + 24 + i
    BY <1>2, <1>3, <1>7
  <2> QED
    BY <1>4, <1>5, <2>1
<1>10. At(s, p, m)
  BY <1>1, <1>4, <1>7, <1>8, <1>9 DEF At
<1> QED
  BY <1>1, <1>10

LEMMA RestShift ==
  ASSUME NEW b \in Seq(W!Byte), NEW u \in 0..Len(b), NEW o \in Nat, u <= o,
         NEW h \in BOOLEAN, Rest(b, o, h), NEW p, p = o - u
  PROVE  Rest(SubSeq(b, u + 1, Len(b)), p, h)
<1>1. PICK l, s : l = Len(b) /\ s = SubSeq(b, u + 1, l)
  OBVIOUS
<1>2. l \in Nat
  BY <1>1, LenProperties
<1>3. u \in Nat /\ l \in u..Len(b)
  <2>1. u \in 0..l
    BY <1>1
  <2> QED
    BY <1>1, <1>2, <2>1
<1>4. Len(s) = l - u /\ \A i \in 1..l - u : s[i] = b[u + i]
  BY <1>1, <1>3, PartIs
<1>5. CASE ~h
  <2>1. l = o
    BY <1>1, <1>5 DEF Rest
  <2>2. l - u = p
    BY <2>1
  <2> QED
    BY <1>1, <1>4, <1>5, <2>2 DEF Rest
<1>6. ASSUME NEW m \in Msg, LoneHead(b, o, m) PROVE LoneHead(s, p, m)
  <2>1. l = o + 24
    BY <1>1, <1>6 DEF LoneHead
  <2>2. \A i \in 1..24 : b[o + i] = W!Encode(m.head, from)[i]
    BY <1>6 DEF LoneHead
  <2>3. l - u = p + 24 /\ p \in Nat
    BY <1>3, <2>1
  <2>4. ASSUME NEW i \in 1..24 PROVE s[p + i] = W!Encode(m.head, from)[i]
    <3>1. p + i \in 1..l - u /\ u + (p + i) = o + i
      BY <1>2, <1>3, <2>3
    <3> QED
      BY <1>4, <2>2, <3>1
  <2> QED
    BY <1>4, <2>3, <2>4 DEF LoneHead
<1>7. ASSUME LoneBody(b, o) PROVE LoneBody(s, p)
  <2>1. PICK c : o <= l /\ \A j \in o + 1..l : b[j] = c
    BY <1>1, <1>7 DEF LoneBody
  <2>2. p <= l - u /\ p \in Nat
    BY <1>2, <1>3, <2>1
  <2>3. ASSUME NEW j \in p + 1..l - u PROVE s[j] = c
    <3>1. j \in 1..l - u /\ u + j \in o + 1..l
      BY <1>2, <1>3, <2>2
    <3> QED
      BY <1>4, <2>1, <3>1
  <2> QED
    BY <1>4, <2>2, <2>3 DEF LoneBody
<1>8. CASE h
  <2>1. \/ \E m \in Msg : Len(m.body) > 0 /\ LoneHead(b, o, m)
        \/ LoneBody(b, o)
    BY <1>8 DEF Rest
  <2>2. \/ \E m \in Msg : Len(m.body) > 0 /\ LoneHead(s, p, m)
        \/ LoneBody(s, p)
    BY <1>6, <1>7, <2>1
  <2> QED
    BY <1>1, <1>8, <2>2 DEF Rest
<1> QED
  BY <1>5, <1>8

LEMMA LaidShift ==
  ASSUME NEW b \in Seq(W!Byte), NEW q \in Seq(Msg), NEW k \in 0..Len(q), NEW off,
         NEW h \in BOOLEAN, Laid(b, off, q, k, h), NEW n \in k..Len(q),
         NEW u \in 0..Len(b), u = off[n]
  PROVE  \E f : Laid(SubSeq(b, u + 1, Len(b)), f, q, n, h)
<1>1. PICK z : z = Len(q)
  OBVIOUS
<1>2. z \in Nat /\ k \in 0..z /\ n \in k..z
  BY <1>1, LenProperties
<1>3. /\ Offsets(off, q, k) /\ Row(b, off, q, k, z) /\ Rest(b, off[z], h)
      /\ off \in [Nat -> Nat]
  BY <1>1 DEF Laid, Offsets
<1>4. ASSUME NEW x \in n..z PROVE off[x] \in Nat /\ off[x] - u \in Nat /\ u <= off[x]
  <2>1. n \in k..Len(q) /\ x \in n..Len(q)
    BY <1>1, <1>2
  <2>2. off[n] \in Nat /\ off[x] \in Nat /\ off[n] <= off[x]
    BY <1>3, <2>1, OffsetsGrow
  <2> QED
    BY <2>2
<1>5. PICK f : f = [x \in Nat |-> IF x \in n..z THEN off[x] - u ELSE 0]
  OBVIOUS
<1>6. PICK s : s = SubSeq(b, u + 1, Len(b))
  OBVIOUS
<1>7. \A x \in n..z : f[x] = off[x] - u
  BY <1>2, <1>5
<1>8. ASSUME NEW j \in n + 1..z
      PROVE  f[j] = f[j - 1] + 24 + Len(q[j].body) /\ At(s, f[j - 1], q[j])
  <2>1. j \in n..z /\ j - 1 \in n..z /\ j \in k + 1..z /\ j \in 1..z
    BY <1>2
  <2>2. PICK o, t, m : o = off[j - 1] /\ t = off[j] /\ m = q[j]
    OBVIOUS
  <2>3. m \in Msg
    BY <1>1, <2>1, <2>2, ElementOfSeq
  <2>4. Len(m.body) \in Nat
    BY <2>3, BodyLong
  <2>5. o \in Nat /\ t \in Nat /\ u <= o
    BY <1>4, <2>1, <2>2
  <2>6. t = o + 24 + Len(m.body)
    BY <1>1, <1>3, <2>1, <2>2 DEF Offsets
  <2>7. At(b, o, m)
    BY <1>3, <2>1, <2>2 DEF Row
  <2>8. PICK p : p = o - u
    OBVIOUS
  <2>9. f[j] = t - u /\ f[j - 1] = p
    BY <1>7, <2>1, <2>2, <2>8
  <2>10. At(s, p, m)
    BY <1>6, <2>3, <2>5, <2>7, <2>8, AtShift
  <2>11. t - u = p + 24 + Len(m.body)
    <3>1. PICK w : w = Len(m.body)
      OBVIOUS
    <3>2. w \in Nat /\ t = o + 24 + w
      BY <2>4, <2>6, <3>1
    <3>3. t - u = p + 24 + w
      <4>1. u \in Nat
        BY <2>5, LenProperties
      <4>2. o \in Nat /\ p = o - u
        BY <2>5, <2>8
      <4> QED
        <5>1. (o + 24 + w) - u = (o - u) + 24 + w
          BY <3>2, <4>1, <4>2, Shifted
        <5> QED
          BY <3>2, <4>2, <5>1, Zenon
    <3> QED
      BY <3>1, <3>3
  <2> QED
    BY <2>2, <2>9, <2>10, <2>11
<1>9. Offsets(f, q, n)
  <2>1. \A x \in Nat : (IF x \in n..z THEN off[x] - u ELSE 0) \in Nat
    BY <1>4
  <2>2. f \in [Nat -> Nat]
    BY <1>5, <2>1
  <2>3. f[n] = 0
    <3>1. n \in n..z /\ u - u = 0
      BY <1>2
    <3> QED
      BY <1>7, <3>1
  <2> QED
    BY <1>1, <1>8, <2>2, <2>3 DEF Offsets
<1>10. Row(s, f, q, n, z)
  BY <1>8 DEF Row
<1>11. Rest(s, f[z], h)
  <2>1. z \in n..z
    BY <1>2
  <2>2. PICK o, p : o = off[z] /\ p = o - u
    OBVIOUS
  <2>3. o \in Nat /\ u <= o /\ Rest(b, o, h)
    BY <1>3, <1>4, <2>1, <2>2
  <2>4. Rest(s, p, h)
    BY <1>6, <2>2, <2>3, RestShift
  <2> QED
    BY <1>7, <2>1, <2>2, <2>4
<1>12. Laid(s, f, q, n, h)
  BY <1>1, <1>9, <1>10, <1>11 DEF Laid
<1> QED
  BY <1>6, <1>12

LEMMA ConcatIs ==
  ASSUME NEW S, NEW s \in Seq(S), NEW t \in Seq(S), NEW l, l = Len(s), NEW n, n = Len(t)
  PROVE  /\ s \o t \in Seq(S) /\ Len(s \o t) = l + n
         /\ \A i \in 1..l : (s \o t)[i] = s[i]
         /\ \A i \in 1..n : (s \o t)[l + i] = t[i]
<1>1. l \in Nat /\ n \in Nat
  BY LenProperties
<1>2. PICK u : u = s \o t
  OBVIOUS
<1>3. /\ u \in Seq(S) /\ Len(u) = Len(s) + Len(t)
      /\ \A i \in 1..Len(s) + Len(t) : u[i] = IF i <= Len(s) THEN s[i] ELSE t[i - Len(s)]
  BY <1>2, ConcatProperties
<1>4. Len(u) = l + n /\ \A i \in 1..l + n : u[i] = IF i <= l THEN s[i] ELSE t[i - l]
  BY <1>3
<1>5. \A i \in 1..l : u[i] = s[i]
  <2>1. \A i \in 1..l : i \in 1..l + n /\ i <= l
    BY <1>1
  <2> QED
    BY <1>4, <2>1
<1>6. \A i \in 1..n : u[l + i] = t[i]
  <2>1. \A i \in 1..n : l + i \in 1..l + n /\ ~(l + i <= l) /\ l + i - l = i
    BY <1>1
  <2> QED
    BY <1>4, <2>1
<1> QED
  BY <1>2, <1>3, <1>4, <1>5, <1>6

\* What is written goes to the end.
LEMMA AtConcat ==
  ASSUME NEW b \in Seq(W!Byte), NEW d \in Seq(W!Byte), NEW o \in Nat, NEW m \in Msg,
         At(b, o, m)
  PROVE  At(b \o d, o, m)
<1>1. PICK l, e, n, s : l = Len(b) /\ e = Len(d) /\ n = Len(m.body) /\ s = b \o d
  OBVIOUS
<1>2. l \in Nat /\ e \in Nat /\ n \in Nat
  <2>1. Len(m.body) \in Nat
    BY BodyLong
  <2> QED
    BY <1>1, <2>1, LenProperties
<1>3. Len(s) = l + e /\ \A i \in 1..l : s[i] = b[i]
  BY <1>1, ConcatIs
<1>4. /\ \A i \in 1..24 : b[o + i] = W!Encode(m.head, from)[i]
      /\ \A i \in 1..n : b[o + 24 + i] = m.body[i]
  BY <1>1 DEF At
<1>5. o + 24 + n <= l
  BY <1>1 DEF At
<1>6. \A i \in 1..24 : s[o + i] = W!Encode(m.head, from)[i]
  <2>1. \A i \in 1..24 : o + i \in 1..l
    BY <1>2, <1>5
  <2> QED
    BY <1>3, <1>4, <2>1
<1>7. \A i \in 1..n : s[o + 24 + i] = m.body[i]
  <2>1. \A i \in 1..n : o + 24 + i \in 1..l
    BY <1>2, <1>5
  <2> QED
    BY <1>3, <1>4, <2>1
<1>8. o + 24 + n <= l + e
  BY <1>2, <1>5
<1>9. At(s, o, m)
  BY <1>1, <1>3, <1>6, <1>7, <1>8 DEF At
<1> QED
  BY <1>1, <1>9

\* The bytes of m.
Bytes(m) == W!Encode(m.head, from) \o m.body

LEMMA BytesAre ==
  ASSUME NEW m \in Msg
  PROVE  /\ W!Encode(m.head, from) \in Seq(W!Byte) /\ Len(W!Encode(m.head, from)) = 24
         /\ m.body \in Seq(W!Byte) /\ Bytes(m) \in Seq(W!Byte)
         /\ Len(Bytes(m)) = 24 + Len(m.body)
         /\ \A i \in 1..24 : Bytes(m)[i] = W!Encode(m.head, from)[i]
         /\ \A i \in 1..Len(m.body) : Bytes(m)[24 + i] = m.body[i]
<1>1. m.head \in W!Heads /\ m.body \in Seq(W!Byte)
  BY MessageType
<1>2. PICK e, t, n : e = W!Encode(m.head, from) /\ t = m.body /\ n = Len(t)
  OBVIOUS
<1>3. e \in Seq(W!Byte) /\ Len(e) = 24
  BY <1>1, <1>2, EncodedType
<1>4. n \in Nat
  BY <1>1, <1>2, LenProperties
<1>5. PICK s, c : s = e \o t /\ c = Len(e)
  OBVIOUS
<1>6. /\ e \in Seq(W!Byte) /\ t \in Seq(W!Byte) /\ n = Len(t) /\ c = Len(e)
      /\ c = 24
  BY <1>1, <1>2, <1>3, <1>5
<1>7. /\ s \in Seq(W!Byte) /\ Len(s) = c + n
      /\ \A i \in 1..c : s[i] = e[i]
      /\ \A i \in 1..n : s[c + i] = t[i]
  <2>1. e \in Seq(W!Byte) /\ t \in Seq(W!Byte) /\ n = Len(t) /\ c = Len(e)
    BY <1>6
  <2> QED
    BY <1>5, <2>1, ConcatIs
<1>8. /\ Len(s) = 24 + n /\ \A i \in 1..24 : s[i] = e[i]
      /\ \A i \in 1..n : s[24 + i] = t[i]
  BY <1>6, <1>7
<1>9. s = Bytes(m)
  BY <1>2, <1>5 DEF Bytes
<1> QED
  BY <1>1, <1>2, <1>3, <1>7, <1>8, <1>9

LEMMA LaidAppend ==
  ASSUME NEW b \in Seq(W!Byte), NEW q \in Seq(Msg), NEW k \in 0..Len(q), NEW off,
         Laid(b, off, q, k, FALSE), NEW m \in Msg
  PROVE  \E f : Laid(b \o Bytes(m), f, Append(q, m), k, FALSE)
<1>1. PICK z, l, n, d, s, t :
        /\ z = Len(q) /\ l = Len(b) /\ n = Len(m.body) /\ d = Bytes(m)
        /\ s = b \o d /\ t = Append(q, m)
  OBVIOUS
<1>2. z \in Nat /\ l \in Nat /\ n \in Nat /\ k \in 0..z
  <2>1. Len(m.body) \in Nat
    BY BodyLong
  <2> QED
    BY <1>1, <2>1, LenProperties
<1>3. /\ Offsets(off, q, k) /\ Row(b, off, q, k, z)
      /\ off \in [Nat -> Nat] /\ off[k] = 0 /\ off[z] = l
  BY <1>1 DEF Laid, Offsets, Rest
<1>4. /\ d \in Seq(W!Byte) /\ Len(d) = 24 + n
      /\ \A i \in 1..24 : d[i] = W!Encode(m.head, from)[i]
      /\ \A i \in 1..n : d[24 + i] = m.body[i]
  BY <1>1, BytesAre
<1>5. PICK e : e = 24 + n
  OBVIOUS
<1>6. Len(s) = l + e /\ \A i \in 1..e : s[l + i] = d[i]
  <2>1. d \in Seq(W!Byte) /\ e = Len(d) /\ l = Len(b) /\ s = b \o d
    BY <1>1, <1>4, <1>5
  <2> QED
    BY <2>1, ConcatIs
<1>7. /\ Len(t) = z + 1 /\ t[z + 1] = m /\ \A j \in 1..z : t[j] = q[j]
      /\ t \in Seq(Msg)
  BY <1>1, AppendProperties
<1>8. PICK f : f = [x \in Nat |-> IF x = z + 1 THEN l + 24 + n ELSE off[x]]
  OBVIOUS
<1>9. f[z + 1] = l + 24 + n /\ \A x \in k..z : f[x] = off[x]
  <2>1. z + 1 \in Nat /\ \A x \in k..z : x \in Nat /\ x # z + 1
    BY <1>2
  <2> QED
    BY <1>8, <2>1
<1>10. At(s, l, m)
  <2>1. \A i \in 1..24 : s[l + i] = W!Encode(m.head, from)[i]
    <3>1. \A i \in 1..24 : i \in 1..e
      BY <1>2, <1>5
    <3> QED
      BY <1>4, <1>6, <3>1
  <2>2. \A i \in 1..n : s[l + 24 + i] = m.body[i]
    <3>1. \A i \in 1..n : 24 + i \in 1..e /\ l + 24 + i = l + (24 + i)
      BY <1>2, <1>5
    <3> QED
      BY <1>4, <1>6, <3>1
  <2>3. l + 24 + n <= l + e
    BY <1>2, <1>5
  <2> QED
    BY <1>1, <1>6, <2>1, <2>2, <2>3 DEF At
<1>11. ASSUME NEW j \in k + 1..z + 1
       PROVE  f[j] = f[j - 1] + 24 + Len(t[j].body) /\ At(s, f[j - 1], t[j])
  <2>1. CASE j = z + 1
    <3>1. j - 1 = z /\ z \in k..z
      BY <1>2, <2>1
    <3>2. f[j] = l + 24 + n /\ f[j - 1] = l /\ t[j] = m
      BY <1>3, <1>7, <1>9, <2>1, <3>1
    <3> QED
      BY <1>1, <1>10, <3>2
  <2>2. CASE j # z + 1
    <3>1. j \in k..z /\ j - 1 \in k..z /\ j \in k + 1..z /\ j \in 1..z /\ j - 1 \in Nat
      BY <1>2, <2>2
    <3>2. f[j] = off[j] /\ f[j - 1] = off[j - 1] /\ t[j] = q[j]
      BY <1>7, <1>9, <3>1
    <3>3. PICK o, p : o = off[j - 1] /\ p = q[j]
      OBVIOUS
    <3>4. p \in Msg
      BY <1>1, <3>1, <3>3, ElementOfSeq
    <3>5. o \in Nat
      BY <1>3, <3>1, <3>3
    <3>6. At(b, o, p)
      BY <1>3, <3>1, <3>3 DEF Row
    <3>7. At(s, o, p)
      BY <1>1, <1>4, <3>4, <3>5, <3>6, AtConcat
    <3>8. off[j] = o + 24 + Len(p.body)
      BY <1>1, <1>3, <3>1, <3>3 DEF Offsets
    <3> QED
      BY <3>2, <3>3, <3>7, <3>8
  <2> QED
    BY <2>1, <2>2
<1>12. Offsets(f, t, k)
  <2>1. \A x \in Nat : (IF x = z + 1 THEN l + 24 + n ELSE off[x]) \in Nat
    <3>1. l + 24 + n \in Nat
      BY <1>2
    <3>2. \A x \in Nat : off[x] \in Nat
      BY <1>3
    <3> QED
      BY <3>1, <3>2
  <2>2. f \in [Nat -> Nat]
    BY <1>8, <2>1
  <2>3. f[k] = 0
    <3>1. k \in k..z
      BY <1>2
    <3> QED
      BY <1>3, <1>9, <3>1
  <2> QED
    BY <1>7, <1>11, <2>2, <2>3 DEF Offsets
<1>13. Row(s, f, t, k, Len(t))
  BY <1>7, <1>11 DEF Row
<1>14. Rest(s, f[Len(t)], FALSE)
  <2>1. l + 24 + n = l + e
    BY <1>2, <1>5
  <2> QED
    BY <1>6, <1>7, <1>9, <2>1 DEF Rest
<1>15. Laid(s, f, t, k, FALSE)
  BY <1>12, <1>13, <1>14 DEF Laid
<1> QED
  BY <1>1, <1>15

LEMMA LaidHalf ==
  ASSUME NEW b \in Seq(W!Byte), NEW q \in Seq(Msg), NEW k \in 0..Len(q), NEW off,
         Laid(b, off, q, k, FALSE), NEW m \in Msg, Len(m.body) > 0,
         NEW d, d = W!Encode(m.head, from) \/ d = m.body
  PROVE  Laid(b \o d, off, q, k, TRUE)
<1>1. PICK z, l, n, s : z = Len(q) /\ l = Len(b) /\ n = Len(d) /\ s = b \o d
  OBVIOUS
<1>2. d \in Seq(W!Byte) /\ (d = W!Encode(m.head, from) => n = 24)
  BY <1>1, BytesAre
<1>3. z \in Nat /\ l \in Nat /\ n \in Nat /\ k \in 0..z
  BY <1>1, <1>2, LenProperties
<1>4. /\ Offsets(off, q, k) /\ Row(b, off, q, k, z)
      /\ off \in [Nat -> Nat] /\ off[z] = l
  BY <1>1 DEF Laid, Offsets, Rest
<1>5. Len(s) = l + n /\ \A i \in 1..n : s[l + i] = d[i]
  BY <1>1, <1>2, ConcatIs
<1>6. Row(s, off, q, k, z)
  <2>1. ASSUME NEW j \in k + 1..z PROVE At(s, off[j - 1], q[j])
    <3>1. j \in 1..z /\ j - 1 \in Nat
      BY <1>3
    <3>2. PICK o, p : o = off[j - 1] /\ p = q[j]
      OBVIOUS
    <3>3. p \in Msg
      BY <1>1, <3>1, <3>2, ElementOfSeq
    <3>4. o \in Nat /\ At(b, o, p)
      BY <1>4, <3>1, <3>2 DEF Row
    <3>5. At(s, o, p)
      BY <1>1, <1>2, <3>3, <3>4, AtConcat
    <3> QED
      BY <3>2, <3>5
  <2> QED
    BY <2>1 DEF Row
<1>7. CASE d = W!Encode(m.head, from)
  <2>1. n = 24 /\ \A i \in 1..24 : s[l + i] = d[i]
    BY <1>2, <1>5, <1>7
  <2>2. LoneHead(s, l, m)
    BY <1>2, <1>5, <1>7, <2>1 DEF LoneHead
  <2>3. Rest(s, l, TRUE)
    BY <2>2 DEF Rest
  <2> QED
    BY <1>1, <1>4, <1>6, <2>3 DEF Laid
<1>8. CASE d = m.body
  <2>1. PICK i \in W!Byte, x \in W!Byte : m = W!Message(i, x)
    BY DEF Msg
  <2>2. m.body = [j \in 1..x |-> i] /\ x \in Nat
    BY <2>1 DEF W!Message, W!Byte
  <2>3. n = x
    BY <1>1, <1>8, <2>2, LenProperties, IsSequence
  <2>4. \A j \in 1..n : d[j] = i
    BY <1>8, <2>2, <2>3
  <2>5. \A j \in l + 1..l + n : s[j] = i
    <3>1. \A j \in l + 1..l + n : j - l \in 1..n /\ l + (j - l) = j
      BY <1>3
    <3> QED
      BY <1>5, <2>4, <3>1
  <2>6. l <= l + n
    BY <1>3
  <2>7. LoneBody(s, l)
    BY <1>5, <2>5, <2>6 DEF LoneBody
  <2>8. Rest(s, l, TRUE)
    BY <2>7 DEF Rest
  <2> QED
    BY <1>1, <1>4, <1>6, <2>8 DEF Laid
<1> QED
  BY <1>7, <1>8

-----------------------------------------------------------------------------
(* RpcWire: its steps. *)

WireTypes ==
  /\ half \in BOOLEAN /\ attempts \in 0..Messages
  /\ direction = "request" /\ half => gone

WireSent ==
  /\ sent \in Seq(Msg) /\ wire \in Seq(W!Byte) /\ bytes \in Seq(W!Byte)
  /\ Len(parsed) <= Len(sent) /\ parsed = SubSeq(sent, 1, Len(parsed))

WireLaid ==
  /\ ~W!Complete(bytes, 0)
  /\ \E b, off, q, k, h :
       /\ b = bytes \o wire /\ q = sent /\ k = Len(parsed) /\ h = half
       /\ Laid(b, off, q, k, h)

\* What the reader has and what is under way are the messages that it has not
\* parsed and at most a part of one; the reader waits for more.
WireIInv ==
  /\ WireTypes
  /\ direction = "request" \/ ~half => WireSent /\ (~refused => WireLaid)

LEMMA LaidSame ==
  ASSUME from' = from, NEW b, NEW off, NEW q, NEW k, NEW h, Laid(b, off, q, k, h)
  PROVE  Laid(b, off, q, k, h)'
<1>1. ASSUME NEW o, NEW m, At(b, o, m) PROVE At(b, o, m)'
  BY <1>1 DEF At
<1>2. (Offsets(off, q, k) /\ Row(b, off, q, k, Len(q)))'
  <2>1. Offsets(off, q, k)'
    BY DEF Laid, Offsets
  <2>2. \A j \in k + 1..Len(q) : At(b, off[j - 1], q[j])
    BY DEF Laid, Row
  <2>3. \A j \in k + 1..Len(q) : At(b, off[j - 1], q[j])'
    BY <1>1, <2>2
  <2> QED
    BY <2>1, <2>3 DEF Row
<1>3. ASSUME NEW o, Rest(b, o, h) PROVE Rest(b, o, h)'
  BY <1>3 DEF Rest, LoneHead, LoneBody
<1>4. Rest(b, off[Len(q)], h)'
  BY <1>3 DEF Laid
<1> QED
  BY <1>2, <1>4 DEF Laid

LEMMA CompleteSame ==
  ASSUME to' = to, bytes' = bytes, ~W!Complete(bytes, 0)
  PROVE  ~W!Complete(bytes, 0)'
BY DEF W!Complete

LEMMA WireConstants == Messages \in 0..255 /\ BodyLen \subseteq 0..255
BY WireAssumption DEF WireAssumption, W!WireAssumption

\* Nothing else changes when a write puts nothing on the wire.
LEMMA LaidNow ==
  ASSUME from' = from, NEW b, NEW f, NEW q, NEW k, NEW h, Laid(b, f, q, k, h),
         b = (bytes \o wire)', q = sent', k = Len(parsed)', h = half',
         ~W!Complete(bytes, 0)'
  PROVE  WireLaid'
<1>1. Laid(b, f, q, k, h)'
  BY LaidSame
<1> QED
  BY <1>1 DEF WireLaid

LEMMA PrefixType ==
  ASSUME NEW s \in Seq(Msg), NEW p, Len(p) <= Len(s), p = SubSeq(s, 1, Len(p))
  PROVE  p \in Seq(Msg) /\ Len(p) \in 0..Len(s)
<1>1. PICK k, z : k = Len(p) /\ z = Len(s)
  OBVIOUS
<1> QED
  BY <1>1

LEMMA SamePrefix ==
  ASSUME NEW s \in Seq(Msg), NEW t \in Seq(Msg), NEW k \in 0..Len(s), k <= Len(t),
         \A j \in 1..Len(s) : t[j] = s[j]
  PROVE  SubSeq(t, 1, k) = SubSeq(s, 1, k)
<1>1. PICK z, y : z = Len(s) /\ y = Len(t)
  OBVIOUS
<1>2. z \in Nat /\ y \in Nat /\ k \in 0..z /\ k <= y
  BY <1>1, LenProperties
<1>3. 0 \in Nat /\ k \in 0..Len(s) /\ k \in 0..Len(t) /\ k - 0 = k /\ 0 + 1 = 1
  BY <1>1, <1>2
<1>4. PICK c : c = 0
  OBVIOUS
<1>5. c \in Nat /\ k \in c..Len(s) /\ k \in c..Len(t) /\ k - c = k /\ c + 1 = 1
  BY <1>3, <1>4
<1>6. PICK u, v : u = SubSeq(s, 1, k) /\ v = SubSeq(t, 1, k)
  OBVIOUS
<1>7. u \in Seq(Msg) /\ Len(u) = k /\ \A i \in 1..k : u[i] = s[c + i]
  BY <1>5, <1>6, PartIs
<1>8. v \in Seq(Msg) /\ Len(v) = k /\ \A i \in 1..k : v[i] = t[c + i]
  BY <1>5, <1>6, PartIs
<1>9. \A i \in 1..k : u[i] = v[i]
  <2>1. \A i \in 1..k : c + i = i /\ i \in 1..Len(s)
    BY <1>1, <1>2, <1>4
  <2> QED
    BY <1>7, <1>8, <2>1
<1>10. u = v
  BY <1>7, <1>8, <1>9, SeqEqual
<1> QED
  BY <1>6, <1>10

LEMMA WireInit == W!Init => WireIInv
<1> SUFFICES ASSUME W!Init PROVE WireIInv
  OBVIOUS
<1>1. /\ sent = <<>> /\ parsed = <<>> /\ wire = <<>> /\ bytes = <<>>
      /\ attempts = 0 /\ half = FALSE /\ refused = FALSE
  BY DEF W!Init
<1>2. Len(<<>>) = 0
  OBVIOUS
<1>3. WireTypes
  <2>1. 0 \in 0..Messages
    BY WireConstants
  <2> QED
    BY <1>1, <2>1 DEF WireTypes
<1>4. WireSent
  <2>1. /\ sent \in Seq(Msg) /\ wire \in Seq(W!Byte) /\ bytes \in Seq(W!Byte)
        /\ Len(parsed) = 0 /\ Len(sent) = 0
    BY <1>1, <1>2, EmptySeq
  <2>2. SubSeq(sent, 1, 0) = <<>>
    BY SubSeqEmpty
  <2> QED
    BY <1>1, <2>1, <2>2 DEF WireSent
<1>5. ~W!Complete(bytes, 0)
  <2>1. Len(bytes) = 0
    BY <1>1, <1>2
  <2> QED
    BY <2>1 DEF W!Complete, W!SHEAD_ENCODE_SIZE
<1>6. PICK b, off, q : b = bytes \o wire /\ off = [x \in Nat |-> 0] /\ q = sent
  OBVIOUS
<1>7. Len(b) = 0 /\ Len(q) = 0
  <2>1. bytes \in Seq(W!Byte) /\ wire \in Seq(W!Byte) /\ 0 = Len(bytes) /\ 0 = Len(wire)
    BY <1>1, <1>2, <1>4 DEF WireSent
  <2>2. Len(bytes \o wire) = Len(bytes) + Len(wire)
    BY <2>1, ConcatProperties
  <2> QED
    BY <1>1, <1>2, <1>6, <2>1, <2>2
<1>8. Laid(b, off, q, 0, FALSE)
  <2>1. off \in [Nat -> Nat] /\ off[0] = 0
    BY <1>6
  <2>2. 0 + 1..Len(q) = {}
    BY <1>7
  <2>3. Rest(b, off[Len(q)], FALSE)
    BY <1>7, <2>1 DEF Rest
  <2> QED
    BY <2>1, <2>2, <2>3 DEF Laid, Offsets, Row
<1>9. WireLaid
  BY <1>1, <1>2, <1>5, <1>6, <1>8 DEF WireLaid
<1> QED
  BY <1>3, <1>4, <1>9 DEF WireIInv

LEMMA WireSend ==
  ASSUME WireIInv, NEW n \in BodyLen, NEW head \in BOOLEAN, NEW body \in BOOLEAN,
         W!Send(n, head, body)
  PROVE  WireIInv'
<1>1. PICK i, m : i = attempts + 1 /\ m = W!Message(i, n)
  OBVIOUS
<1>2. /\ attempts < Messages /\ ~gone /\ attempts' = i
      /\ sent' = IF head /\ (body \/ n = 0) THEN Append(sent, m) ELSE sent
      /\ half' = (half \/ (n > 0 /\ head # body))
      /\ gone' = W!GivesUp(head, body)
      /\ wire' = wire \o (IF head THEN W!Encode(m.head, from) ELSE <<>>)
                      \o (IF body THEN m.body ELSE <<>>)
      /\ UNCHANGED <<direction, from, to, bytes, parsed, refused>>
  BY <1>1 DEF W!Send
<1>3. WireTypes
  BY DEF WireIInv
<1>4. i \in W!Byte /\ n \in W!Byte /\ n \in Nat /\ i \in 0..Messages
  BY <1>1, <1>2, <1>3, WireConstants DEF WireTypes, W!Byte
<1>5. m \in Msg /\ Len(m.body) = n
  <2>1. m \in Msg
    BY <1>1, <1>4 DEF Msg
  <2>2. m.body = [j \in 1..n |-> i]
    BY <1>1 DEF W!Message
  <2>3. m.body \in [1..n -> W!Byte]
    BY <1>4, <2>2
  <2> QED
    BY <1>4, <2>1, <2>3, IsSequence
<1>6. WireTypes'
  <2>1. direction = "request" /\ half' => gone'
    <3>1. direction = "request" => ~half
      BY <1>2, <1>3 DEF WireTypes
    <3> QED
      BY <1>2, <3>1 DEF W!GivesUp
  <2> QED
    BY <1>2, <1>3, <1>4, <2>1 DEF WireTypes
<1>7. SUFFICES ASSUME direction' = "request" \/ ~half'
               PROVE  WireSent' /\ (~refused' => WireLaid')
  BY <1>6 DEF WireIInv
<1>8. half = FALSE /\ WireSent
  BY <1>2, <1>3, <1>7 DEF WireIInv, WireTypes
<1>9. PICK e, t : /\ e = (IF head THEN W!Encode(m.head, from) ELSE <<>>)
                  /\ t = (IF body THEN m.body ELSE <<>>)
  OBVIOUS
<1>10. /\ e \in Seq(W!Byte) /\ t \in Seq(W!Byte) /\ e \o t \in Seq(W!Byte)
       /\ wire \in Seq(W!Byte) /\ bytes \in Seq(W!Byte) /\ bytes \o wire \in Seq(W!Byte)
       /\ wire \o e \in Seq(W!Byte)
  <2>1. e \in Seq(W!Byte) /\ t \in Seq(W!Byte)
    BY <1>5, <1>9, BytesAre, EmptySeq
  <2>2. wire \in Seq(W!Byte) /\ bytes \in Seq(W!Byte)
    BY <1>8 DEF WireSent
  <2> QED
    BY <2>1, <2>2, ConcatProperties
<1>11. wire' = wire \o (e \o t) /\ (bytes \o wire)' = (bytes \o wire) \o (e \o t)
  <2>1. wire' = (wire \o e) \o t
    BY <1>2, <1>9
  <2>2. (wire \o e) \o t = wire \o (e \o t)
    BY <1>10, ConcatAssociative
  <2>3. (bytes \o wire) \o (e \o t) = bytes \o (wire \o (e \o t))
    <3>1. PICK x : x = e \o t
      OBVIOUS
    <3>2. bytes \in Seq(W!Byte) /\ wire \in Seq(W!Byte) /\ x \in Seq(W!Byte)
      BY <1>10, <3>1
    <3>3. (bytes \o wire) \o x = bytes \o (wire \o x)
      BY <3>2, ConcatAssociative
    <3> QED
      BY <3>1, <3>3
  <2> QED
    BY <1>2, <2>1, <2>2, <2>3
<1>12. WireSent'
  <2>1. wire' \in Seq(W!Byte) /\ bytes' \in Seq(W!Byte)
    BY <1>2, <1>10, <1>11, ConcatProperties
  <2>2. sent \in Seq(Msg) /\ Len(parsed) <= Len(sent) /\ parsed = SubSeq(sent, 1, Len(parsed))
    BY <1>8 DEF WireSent
  <2>3. CASE sent' = sent
    BY <1>2, <2>1, <2>2, <2>3 DEF WireSent
  <2>4. CASE sent' = Append(sent, m)
    <3>1. PICK k, z : k = Len(parsed) /\ z = Len(sent)
      OBVIOUS
    <3>2. k \in Nat /\ z \in Nat /\ k <= z
      <4>1. parsed \in Seq(Msg)
        BY <2>2, PrefixType
      <4> QED
        BY <2>2, <3>1, <4>1, LenProperties
    <3>3. /\ sent' \in Seq(Msg) /\ Len(sent') = z + 1
          /\ \A j \in 1..z : sent'[j] = sent[j]
      BY <1>5, <2>2, <2>4, <3>1, AppendProperties
    <3>4. SubSeq(sent', 1, k) = SubSeq(sent, 1, k)
      BY <2>2, <3>1, <3>2, <3>3, SamePrefix
    <3>5. parsed' = SubSeq(sent', 1, Len(parsed')) /\ Len(parsed') <= Len(sent')
      BY <1>2, <2>2, <3>1, <3>2, <3>3, <3>4
    <3> QED
      BY <2>1, <3>3, <3>5 DEF WireSent
  <2> QED
    BY <1>2, <2>3, <2>4
<1>13. ASSUME ~refused' PROVE WireLaid'
  <2>1. ~W!Complete(bytes, 0) /\ WireLaid
    BY <1>2, <1>7, <1>8, <1>13 DEF WireIInv, WireLaid
  <2>2. ~W!Complete(bytes, 0)'
    BY <1>2, <2>1, CompleteSame
  <2>3. PICK b, off, q, k : /\ b = bytes \o wire /\ q = sent /\ k = Len(parsed)
                            /\ Laid(b, off, q, k, FALSE)
    BY <1>8, <2>1 DEF WireLaid
  <2>4. b \in Seq(W!Byte) /\ q \in Seq(Msg) /\ k \in 0..Len(q)
    <3>1. parsed \in Seq(Msg)
      BY <1>8, PrefixType DEF WireSent
    <3> QED
      BY <1>8, <1>10, <2>3, <3>1, LenProperties DEF WireSent
  <2>5. PICK b2, q2, h2 : b2 = (bytes \o wire)' /\ q2 = sent' /\ h2 = half'
    OBVIOUS
  <2>6. b2 = b \o (e \o t) /\ k = Len(parsed)'
    BY <1>2, <1>11, <2>3, <2>5
  <2>7. CASE head /\ (body \/ n = 0)
    <3>1. e = W!Encode(m.head, from) /\ t = m.body
      <4>1. n = 0 => m.body = <<>>
        BY <1>5, BytesAre, EmptySeq
      <4> QED
        BY <1>9, <2>7, <4>1
    <3>2. e \o t = Bytes(m)
      BY <3>1 DEF Bytes
    <3>3. PICK f : Laid(b \o Bytes(m), f, Append(q, m), k, FALSE)
      BY <1>5, <2>3, <2>4, LaidAppend
    <3>4. h2 = FALSE /\ q2 = Append(q, m)
      <4>1. ~(n > 0 /\ head # body)
        <5>1. n = 0 => ~(n > 0)
          OBVIOUS
        <5> QED
          BY <2>7, <5>1
      <4>2. half' = FALSE
        BY <1>2, <1>8, <4>1
      <4> QED
        BY <1>2, <2>3, <2>5, <2>7, <4>2
    <3>5. Laid(b2, f, q2, k, h2)
      BY <2>6, <3>2, <3>3, <3>4
    <3> QED
      BY <1>2, <2>2, <2>5, <2>6, <3>5, LaidNow
  <2>8. CASE n > 0 /\ head # body
    <3>1. Len(m.body) > 0
      BY <1>5, <2>8
    <3>2. PICK d : d = e \o t
      OBVIOUS
    <3>3. d = W!Encode(m.head, from) \/ d = m.body
      <4>1. /\ W!Encode(m.head, from) \in Seq(W!Byte) /\ m.body \in Seq(W!Byte)
        BY <1>5, BytesAre
      <4>2. CASE head /\ ~body
        <5>1. e = W!Encode(m.head, from) /\ t = <<>>
          BY <1>9, <4>2
        <5>2. e \o <<>> = e
          BY <1>10, ConcatEmptySeq
        <5> QED
          BY <3>2, <5>1, <5>2
      <4>3. CASE ~head /\ body
        <5>1. e = <<>> /\ t = m.body
          BY <1>9, <4>3
        <5>2. <<>> \o t = t
          BY <1>10, ConcatEmptySeq
        <5> QED
          BY <3>2, <5>1, <5>2
      <4> QED
        BY <2>8, <4>2, <4>3
    <3>4. Laid(b \o d, off, q, k, TRUE)
      BY <1>5, <2>3, <2>4, <3>1, <3>3, LaidHalf
    <3>5. h2 = TRUE /\ q2 = q
      BY <1>2, <1>4, <2>3, <2>5, <2>8
    <3>6. Laid(b2, off, q2, k, h2)
      BY <2>6, <3>2, <3>4, <3>5
    <3> QED
      BY <1>2, <2>2, <2>5, <2>6, <3>6, LaidNow
  <2>9. CASE ~head /\ (~body \/ n = 0)
    <3>1. e = <<>> /\ t = <<>>
      <4>1. n = 0 => m.body = <<>>
        BY <1>5, BytesAre, EmptySeq
      <4> QED
        BY <1>9, <2>9, <4>1
    <3>2. b2 = b
      <4>1. <<>> \o <<>> = <<>> /\ b \o <<>> = b
        BY <2>4, ConcatEmptySeq, EmptySeq
      <4> QED
        BY <2>6, <3>1, <4>1
    <3>3. h2 = FALSE /\ q2 = q
      BY <1>2, <1>4, <1>8, <2>3, <2>5, <2>9
    <3>4. Laid(b2, off, q2, k, h2)
      BY <2>3, <3>2, <3>3
    <3> QED
      BY <1>2, <2>2, <2>5, <2>6, <3>4, LaidNow
  <2> QED
    BY <1>4, <2>7, <2>8, <2>9
<1> QED
  BY <1>12, <1>13

LEMMA BytesAssociate ==
  \A s, t, u \in Seq(W!Byte) : (s \o t) \o u = s \o (t \o u)
BY ConcatAssociative

\* n bytes of w arrive behind u: d are there, r is left.
Taken(u, w, n, d, r) == d = u \o SubSeq(w, 1, n) /\ r = SubSeq(w, n + 1, Len(w))

\* The bytes that the reader has are the first of what it has and is under way.
LEMMA Arrives ==
  ASSUME NEW u \in Seq(W!Byte), NEW w \in Seq(W!Byte), NEW n \in 1..Len(w),
         NEW d, NEW r, Taken(u, w, n, d, r)
  PROVE  /\ d \in Seq(W!Byte) /\ r \in Seq(W!Byte) /\ u \o w = d \o r
         /\ Start(d, u \o w)
<1>1. PICK l, z, a, c : /\ l = Len(w) /\ z = Len(u) /\ a = SubSeq(w, 1, n) /\ c = 0
                        /\ d = u \o a /\ r = SubSeq(w, n + 1, l)
  BY DEF Taken
<1>2. l \in Nat /\ z \in Nat /\ n \in 1..l
  BY <1>1, LenProperties
<1>3. c \in Nat /\ n \in c..Len(w) /\ c + 1 = 1 /\ n \in Nat /\ l \in n..Len(w)
  BY <1>1, <1>2
<1>4. a \in Seq(W!Byte)
  BY <1>1, <1>3, PartIs
<1>5. r \in Seq(W!Byte)
  BY <1>1, <1>3, PartIs
<1>6. a \o r = w
  <2>1. 1 \in 1..Len(w) + 1 /\ n \in 1 - 1..Len(w) /\ l \in n..Len(w)
    BY <1>1, <1>2
  <2>2. SubSeq(w, 1, n) \o SubSeq(w, n + 1, l) = SubSeq(w, 1, l)
    BY <2>1, ConcatAdjacentSubSeq
  <2>3. SubSeq(w, 1, Len(w)) = w
    BY SubSeqFull
  <2> QED
    BY <1>1, <2>2, <2>3
<1>7. d \in Seq(W!Byte) /\ d = u \o a
  BY <1>1, <1>4, ConcatProperties
<1>8. u \o w = d \o r
  <2>1. (u \o a) \o r = u \o (a \o r)
    <3>1. u \in Seq(W!Byte) /\ a \in Seq(W!Byte) /\ r \in Seq(W!Byte)
      BY <1>4, <1>5
    <3> QED
      BY <3>1, BytesAssociate, Zenon
  <2> QED
    BY <1>6, <1>7, <2>1
<1>9. Start(d, d \o r)
  <2>1. PICK x, y, t : x = Len(d) /\ y = Len(r) /\ t = d \o r
    OBVIOUS
  <2>2. Len(t) = x + y /\ \A i \in 1..x : t[i] = d[i]
    BY <1>5, <1>7, <2>1, ConcatIs
  <2>3. x \in Nat /\ y \in Nat
    BY <1>5, <1>7, <2>1, LenProperties
  <2>4. x <= x + y
    BY <2>3
  <2>5. Start(d, t)
    BY <2>1, <2>2, <2>4 DEF Start
  <2> QED
    BY <2>1, <2>5
<1> QED
  BY <1>5, <1>7, <1>8, <1>9

\* What is left in the buffer and under way after the used bytes.
LEMMA LeftOver ==
  ASSUME NEW d \in Seq(W!Byte), NEW r \in Seq(W!Byte), NEW u \in 0..Len(d)
  PROVE  /\ SubSeq(d, u + 1, Len(d)) \in Seq(W!Byte)
         /\ SubSeq(d, u + 1, Len(d)) \o r = SubSeq(d \o r, u + 1, Len(d \o r))
         /\ u \in 0..Len(d \o r)
<1>1. PICK l, y, e, z, s, t :
        /\ l = Len(d) /\ y = Len(r) /\ e = d \o r /\ z = Len(e)
        /\ s = SubSeq(d, u + 1, l) /\ t = SubSeq(e, u + 1, z)
  OBVIOUS
<1>2. l \in Nat /\ y \in Nat /\ u \in 0..l
  BY <1>1, LenProperties
<1>3. /\ e \in Seq(W!Byte) /\ z = l + y
      /\ \A i \in 1..l : e[i] = d[i]
      /\ \A i \in 1..y : e[l + i] = r[i]
  BY <1>1, ConcatIs
<1>4. u \in Nat /\ l \in u..Len(d)
  BY <1>1, <1>2
<1>5. z \in u..Len(e)
  <2>1. z \in u..z
    BY <1>2, <1>3
  <2> QED
    BY <1>1, <2>1
<1>6. s \in Seq(W!Byte) /\ Len(s) = l - u /\ \A i \in 1..l - u : s[i] = d[u + i]
  BY <1>1, <1>4, PartIs
<1>7. t \in Seq(W!Byte) /\ Len(t) = z - u /\ \A i \in 1..z - u : t[i] = e[u + i]
  BY <1>1, <1>3, <1>4, <1>5, PartIs
<1>8. PICK a, x : a = l - u /\ x = s \o r
  OBVIOUS
<1>9. a \in Nat /\ a = Len(s)
  BY <1>2, <1>6, <1>8
<1>10. /\ x \in Seq(W!Byte) /\ Len(x) = a + y
       /\ \A i \in 1..a : x[i] = s[i]
       /\ \A i \in 1..y : x[a + i] = r[i]
  <2>1. s \in Seq(W!Byte) /\ r \in Seq(W!Byte) /\ a = Len(s) /\ y = Len(r) /\ x = s \o r
    BY <1>1, <1>6, <1>8, <1>9
  <2> QED
    BY <2>1, ConcatIs
<1>11. z - u = a + y
  BY <1>2, <1>3, <1>8
<1>12. ASSUME NEW i \in 1..a + y PROVE x[i] = t[i]
  <2>1. t[i] = e[u + i]
    BY <1>7, <1>11
  <2>2. CASE i <= a
    <3>1. i \in 1..a /\ i \in 1..l - u /\ u + i \in 1..l
      BY <1>2, <1>8, <1>9, <2>2
    <3>2. x[i] = s[i] /\ s[i] = d[u + i] /\ e[u + i] = d[u + i]
      BY <1>3, <1>6, <1>10, <3>1
    <3> QED
      BY <2>1, <3>2
  <2>3. CASE ~(i <= a)
    <3>1. PICK j : j = i - a
      OBVIOUS
    <3>2. j \in 1..y /\ a + j = i /\ l + j = u + i
      <4>1. a = l - u /\ a \in Nat
        BY <1>8, <1>9
      <4>2. i \in Int /\ i <= a + y /\ i > a
        BY <1>2, <2>3, <4>1
      <4> QED
        BY <1>2, <3>1, <4>1, <4>2
    <3>3. x[a + j] = r[j] /\ e[l + j] = r[j]
      BY <1>3, <1>10, <3>2
    <3> QED
      BY <2>1, <3>2, <3>3
  <2> QED
    BY <2>2, <2>3
<1>13. x = t
  <2>1. Len(x) = Len(t) /\ \A i \in 1..Len(x) : x[i] = t[i]
    BY <1>7, <1>10, <1>11, <1>12
  <2> QED
    BY <1>7, <1>10, <2>1, SeqEqual
<1>14. u \in 0..z
  BY <1>2, <1>3
<1> QED
  BY <1>1, <1>6, <1>8, <1>13, <1>14

LEMMA StillWaits ==
  ASSUME NEW d \in Seq(W!Byte), NEW u \in 0..Len(d), ~W!Complete(d, u)
  PROVE  ~W!Complete(SubSeq(d, u + 1, Len(d)), 0)
<1> SUFFICES ASSUME W!Complete(SubSeq(d, u + 1, Len(d)), 0) PROVE FALSE
  OBVIOUS
<1>1. PICK l, s, n : l = Len(d) /\ s = SubSeq(d, u + 1, l) /\ n = Len(s)
  OBVIOUS
<1>2. l \in Nat /\ u \in 0..l
  BY <1>1, LenProperties
<1>3. u \in Nat /\ l \in u..Len(d)
  BY <1>1, <1>2
<1>4. s \in Seq(W!Byte) /\ n = l - u /\ \A i \in 1..l - u : s[i] = d[u + i]
  BY <1>1, <1>3, PartIs
<1>5. PICK a, c : a = SubSeq(s, 0 + 1, 0 + 24) /\ c = SubSeq(d, u + 1, u + 24)
  OBVIOUS
<1>6. /\ n - 0 >= 24
      /\ ~W!Valid(a, to) \/ n - 0 - 24 >= W!Number(W!Decode(a, to).body_len)
  BY <1>1, <1>5 DEF W!Complete, W!SHEAD_ENCODE_SIZE
<1>7. PICK x, e, f : x = 0 /\ e = x + 24 /\ f = u + 24
  OBVIOUS
<1>8. x \in Nat /\ e \in x..Len(s) /\ e - x = 24
  <2>1. n \in Nat /\ n >= 24
    BY <1>2, <1>4, <1>6
  <2>2. x \in Nat /\ e \in x..n /\ e - x = 24
    BY <1>7, <2>1
  <2> QED
    BY <1>1, <2>2
<1>9. f \in u..Len(d) /\ f - u = 24
  <2>1. f \in u..l /\ f - u = 24
    BY <1>2, <1>4, <1>6, <1>7
  <2> QED
    BY <1>1, <2>1
<1>10. a \in Seq(W!Byte) /\ Len(a) = e - x /\ \A i \in 1..e - x : a[i] = s[x + i]
  <2>1. a = SubSeq(s, x + 1, e)
    BY <1>5, <1>7
  <2> QED
    BY <1>4, <1>8, <2>1, PartIs
<1>11. c \in Seq(W!Byte) /\ Len(c) = f - u /\ \A i \in 1..f - u : c[i] = d[u + i]
  <2>1. c = SubSeq(d, u + 1, f)
    BY <1>5, <1>7
  <2> QED
    BY <1>3, <1>9, <2>1, PartIs
<1>12. \A i \in 1..24 : a[i] = c[i]
  <2>1. \A i \in 1..24 : x + i = i /\ i \in 1..l - u
    BY <1>2, <1>4, <1>6, <1>7
  <2>2. \A i \in 1..24 : a[i] = s[x + i] /\ c[i] = d[u + i]
    BY <1>8, <1>9, <1>10, <1>11
  <2> QED
    BY <1>4, <2>1, <2>2
<1>13. a = c
  <2>1. Len(a) = Len(c) /\ \A i \in 1..Len(a) : a[i] = c[i]
    BY <1>8, <1>9, <1>10, <1>11, <1>12
  <2> QED
    BY <1>10, <1>11, <2>1, SeqEqual
<1>14. l - u >= 24 /\ (~W!Valid(c, to) \/ l - u - 24 >= W!Number(W!Decode(c, to).body_len))
  <2>1. n - 0 = l - u
    BY <1>2, <1>4
  <2> QED
    BY <1>6, <1>13, <2>1
<1> QED
  BY <1>1, <1>5, <1>14 DEF W!Complete, W!SHEAD_ENCODE_SIZE

LEMMA WireReceive ==
  ASSUME WireIInv, NEW n \in 1..Len(wire), W!Receive(n)
  PROVE  WireIInv'
<1>1. PICK d, r, p : /\ d = bytes \o SubSeq(wire, 1, n) /\ p = W!Parse(d)
                     /\ r = SubSeq(wire, n + 1, Len(wire))
  OBVIOUS
<1>2. /\ ~refused /\ wire' = r /\ parsed' = parsed \o p.msgs /\ refused' = ~p.ok
      /\ bytes' = IF p.ok THEN SubSeq(d, p.used + 1, Len(d)) ELSE <<>>
      /\ UNCHANGED <<direction, from, to, sent, attempts, half, gone>>
  BY <1>1 DEF W!Receive
<1>3. WireTypes'
  BY <1>2 DEF WireIInv, WireTypes
<1>4. SUFFICES ASSUME direction = "request" \/ ~half
               PROVE  WireSent' /\ (~refused' => WireLaid')
  BY <1>2, <1>3 DEF WireIInv
<1>5. WireSent /\ WireLaid
  BY <1>2, <1>4 DEF WireIInv
<1>6. /\ sent \in Seq(Msg) /\ wire \in Seq(W!Byte) /\ bytes \in Seq(W!Byte)
      /\ Len(parsed) <= Len(sent) /\ parsed = SubSeq(sent, 1, Len(parsed))
  BY <1>5 DEF WireSent
<1>7. PICK b, off, q, k, h : /\ b = bytes \o wire /\ q = sent /\ k = Len(parsed) /\ h = half
                             /\ Laid(b, off, q, k, h)
  BY <1>5 DEF WireLaid
<1>8. h \in BOOLEAN
  BY <1>7 DEF WireIInv, WireTypes
<1>9. q \in Seq(Msg) /\ k \in 0..Len(q)
  <2>1. Len(parsed) \in 0..Len(sent)
    BY <1>6, PrefixType
  <2> QED
    BY <1>6, <1>7, <2>1
<1>10. d \in Seq(W!Byte) /\ r \in Seq(W!Byte) /\ b = d \o r /\ Start(d, b)
  <2>1. /\ bytes \in Seq(W!Byte) /\ wire \in Seq(W!Byte)
        /\ Taken(bytes, wire, n, d, r)
    BY <1>1, <1>6 DEF Taken
  <2>2. d \in Seq(W!Byte) /\ r \in Seq(W!Byte) /\ bytes \o wire = d \o r /\ Start(d, bytes \o wire)
    BY <2>1, Arrives
  <2> QED
    BY <1>7, <2>2
<1>11. b \in Seq(W!Byte)
  BY <1>10, ConcatProperties
<1>12. PICK e \in k..Len(q) :
         /\ off[e] \in 0..Len(d)
         /\ \/ /\ p = Result(SubSeq(q, k + 1, e), off[e], TRUE)
               /\ ~W!Complete(d, off[e])
            \/ p = Result(SubSeq(q, k + 1, e), off[e], FALSE)
  <2>1. /\ b \in Seq(W!Byte) /\ d \in Seq(W!Byte) /\ Start(d, b) /\ q \in Seq(Msg)
        /\ k \in 0..Len(q) /\ h \in BOOLEAN /\ Laid(b, off, q, k, h)
    BY <1>7, <1>8, <1>9, <1>10, <1>11
  <2>2. ParsesTo(W!Parse(d), d, q, k, off)
    BY <2>1, ParsesStart
  <2> QED
    BY <1>1, <2>2 DEF ParsesTo
<1>13. PICK u : u = off[e]
  OBVIOUS
<1>14. p.msgs = SubSeq(q, k + 1, e) /\ p.used = u
  BY <1>12, <1>13 DEF Result
<1>15. parsed' = SubSeq(q, 1, e) /\ Len(parsed') = e /\ e <= Len(q)
  <2>1. PICK z, c : z = Len(q) /\ c = 0
    OBVIOUS
  <2>2. z \in Nat /\ k \in 0..z /\ e \in k..z
    BY <1>9, <1>12, <2>1, LenProperties
  <2>3. 1 \in 1..Len(q) + 1 /\ k \in 1 - 1..Len(q) /\ e \in k..Len(q)
    BY <2>1, <2>2
  <2>4. SubSeq(q, 1, k) \o SubSeq(q, k + 1, e) = SubSeq(q, 1, e)
    BY <1>9, <2>3, ConcatAdjacentSubSeq
  <2>5. c \in Nat /\ e \in c..Len(q) /\ c + 1 = 1 /\ e - c = e
    BY <2>1, <2>2
  <2>6. Len(SubSeq(q, 1, e)) = e
    BY <1>9, <2>5, PartIs
  <2>7. parsed' = SubSeq(q, 1, e)
    BY <1>2, <1>6, <1>7, <1>14, <2>4
  <2> QED
    BY <2>1, <2>2, <2>6, <2>7
<1>16. WireSent'
  <2>1. wire' \in Seq(W!Byte)
    BY <1>2, <1>10
  <2>2. bytes' \in Seq(W!Byte)
    <3>1. u \in 0..Len(d)
      BY <1>12, <1>13
    <3>2. SubSeq(d, u + 1, Len(d)) \in Seq(W!Byte)
      BY <1>10, <3>1, LeftOver
    <3>3. <<>> \in Seq(W!Byte)
      BY EmptySeq
    <3> QED
      BY <1>2, <1>14, <3>2, <3>3
  <2>3. sent' = q
    BY <1>2, <1>7
  <2> QED
    BY <1>9, <1>15, <2>1, <2>2, <2>3 DEF WireSent
<1>17. ASSUME ~refused' PROVE WireLaid'
  <2>1. p.ok = TRUE /\ ~W!Complete(d, u)
    <3>1. p # Result(SubSeq(q, k + 1, e), off[e], FALSE)
      <4> SUFFICES ASSUME p = Result(SubSeq(q, k + 1, e), off[e], FALSE) PROVE FALSE
        OBVIOUS
      <4>1. p.ok = FALSE
        BY DEF Result
      <4> QED
        BY <1>2, <1>17, <4>1, Zenon
    <3> QED
      BY <1>12, <1>13, <3>1 DEF Result
  <2>2. u \in 0..Len(d)
    BY <1>12, <1>13
  <2>3. PICK s, t : s = SubSeq(d, u + 1, Len(d)) /\ t = SubSeq(b, u + 1, Len(b))
    OBVIOUS
  <2>4. s \o r = t /\ u \in 0..Len(b)
    BY <1>10, <2>2, <2>3, LeftOver
  <2>5. bytes' = s
    BY <1>2, <1>14, <2>1, <2>3
  <2>6. ~W!Complete(s, 0)
    BY <1>10, <2>1, <2>2, <2>3, StillWaits
  <2>7. ~W!Complete(bytes, 0)'
    BY <1>2, <2>5, <2>6 DEF W!Complete
  <2>8. \E f : Laid(t, f, q, e, h)
    <3>1. /\ b \in Seq(W!Byte) /\ q \in Seq(Msg) /\ k \in 0..Len(q) /\ h \in BOOLEAN
          /\ Laid(b, off, q, k, h) /\ e \in k..Len(q) /\ u \in 0..Len(b) /\ u = off[e]
      BY <1>7, <1>8, <1>9, <1>11, <1>13, <2>4
    <3>2. \E f : Laid(SubSeq(b, u + 1, Len(b)), f, q, e, h)
      BY <3>1, LaidShift
    <3> QED
      BY <2>3, <3>2
  <2>9. PICK f : Laid(t, f, q, e, h)
    BY <2>8
  <2>10. t = (bytes \o wire)' /\ q = sent' /\ e = Len(parsed)' /\ h = half'
    BY <1>2, <1>7, <1>15, <2>4, <2>5
  <2> QED
    BY <1>2, <2>7, <2>9, <2>10, LaidNow
<1> QED
  BY <1>16, <1>17

LEMMA WireUnchanged == WireIInv /\ UNCHANGED wireVars => WireIInv'
<1> SUFFICES ASSUME WireIInv, UNCHANGED wireVars PROVE WireIInv'
  OBVIOUS
<1>1. UNCHANGED <<direction, from, to, sent, attempts, half, gone, wire, bytes, parsed, refused>>
  BY DEF wireVars
<1>2. WireTypes' /\ (WireSent => WireSent')
  BY <1>1 DEF WireIInv, WireTypes, WireSent
<1>3. ASSUME WireLaid PROVE WireLaid'
  <2>1. ~W!Complete(bytes, 0)'
    BY <1>1, <1>3, CompleteSame DEF WireLaid
  <2>2. PICK b, off, q, k, h : /\ b = bytes \o wire /\ q = sent /\ k = Len(parsed) /\ h = half
                               /\ Laid(b, off, q, k, h)
    BY <1>3 DEF WireLaid
  <2>3. b = (bytes \o wire)' /\ q = sent' /\ k = Len(parsed)' /\ h = half'
    BY <1>1, <2>2
  <2> QED
    BY <1>1, <2>1, <2>2, <2>3, LaidNow
<1> QED
  BY <1>1, <1>2, <1>3 DEF WireIInv

\* What is parsed are messages that were sent.
LEMMA WhatIsParsed == WireIInv => W!MessagesWhole
<1> SUFFICES ASSUME WireIInv, direction = "request" \/ ~half PROVE W!IsPrefix(parsed, sent)
  BY DEF W!MessagesWhole
<1>1. WireSent
  BY DEF WireIInv
<1>2. parsed = SubSeq(sent, 1, Len(parsed)) /\ sent \in Seq(Msg) /\ Len(parsed) <= Len(sent)
  BY <1>1 DEF WireSent
<1>3. parsed \in Seq(Msg)
  BY <1>2, PrefixType
<1>4. SubSeq(parsed, 1, Len(parsed)) = parsed
  BY <1>3, SubSeqFull
<1> QED
  BY <1>2, <1>4 DEF W!IsPrefix

\* A message of which all bytes arrived does not wait in the buffer.
LEMMA NoneWaits == WireIInv => W!NothingStranded
<1> SUFFICES ASSUME WireIInv, wire = <<>>, ~half, ~refused
             PROVE  parsed = sent /\ bytes = <<>>
  BY DEF W!NothingStranded
<1>1. WireSent /\ WireLaid
  BY DEF WireIInv
<1>2. /\ sent \in Seq(Msg) /\ bytes \in Seq(W!Byte)
      /\ Len(parsed) <= Len(sent) /\ parsed = SubSeq(sent, 1, Len(parsed))
      /\ ~W!Complete(bytes, 0)
  BY <1>1 DEF WireSent, WireLaid
<1>3. PICK b, off, q, k, h : /\ b = bytes \o wire /\ q = sent /\ k = Len(parsed) /\ h = half
                             /\ Laid(b, off, q, k, h)
  BY <1>1 DEF WireLaid
<1>4. b = bytes /\ b \in Seq(W!Byte)
  <2>1. bytes \o <<>> = bytes
    BY <1>2, ConcatEmptySeq
  <2> QED
    BY <1>2, <1>3, <2>1
<1>5. PICK z : z = Len(q)
  OBVIOUS
<1>6. z \in Nat /\ k \in 0..z
  <2>1. Len(parsed) \in 0..Len(sent)
    BY <1>2, PrefixType
  <2> QED
    BY <1>2, <1>3, <1>5, <2>1, LenProperties
<1>7. Offsets(off, q, k) /\ Row(b, off, q, k, z) /\ Len(b) = off[z] /\ off[k] = 0
  BY <1>3, <1>5 DEF Laid, Rest, Offsets
<1>8. k = z
  <2> SUFFICES ASSUME k # z PROVE FALSE
    OBVIOUS
  <2>1. PICK j, m : j = k + 1 /\ m = q[j]
    OBVIOUS
  <2>2. j \in k + 1..z /\ j \in 1..z /\ j - 1 = k
    BY <1>6, <2>1
  <2>3. m \in Msg
    BY <1>2, <1>3, <1>5, <2>1, <2>2, ElementOfSeq
  <2>4. PICK o : o = 0
    OBVIOUS
  <2>5. At(b, o, m)
    BY <1>7, <2>1, <2>2, <2>4 DEF Row
  <2>6. o \in 0..Len(b)
    <3>1. Len(b) \in Nat
      BY <1>4, LenProperties
    <3> QED
      BY <2>4, <3>1
  <2>7. W!Complete(b, o)
    BY <1>4, <2>3, <2>5, <2>6, Found
  <2> QED
    BY <1>2, <1>4, <2>4, <2>7
<1>9. parsed = sent
  <2>1. SubSeq(sent, 1, Len(sent)) = sent
    BY <1>2, SubSeqFull
  <2> QED
    BY <1>2, <1>3, <1>5, <1>8, <2>1
<1>10. bytes = <<>>
  <2>1. Len(bytes) = 0
    BY <1>4, <1>7, <1>8
  <2> QED
    BY <1>2, <2>1, EmptySeq
<1> QED
  BY <1>9, <1>10

\* Messages are parsed whole and in order, and none that is complete stays in
\* the buffer, however the bytes arrive and whichever writes fail: for any
\* number of messages and lengths of bodies that a byte holds, and for hosts of
\* any byte orders.
THEOREM WireSoundHolds == SystemSpec => []WireSound
<1>1. SystemInit => WireIInv
  BY WireInit DEF SystemInit
<1>2. WireIInv /\ [SystemNext]_<<component, vars, wireVars, callVars>> => WireIInv'
  <2> SUFFICES ASSUME WireIInv, [SystemNext]_<<component, vars, wireVars, callVars>>
               PROVE  WireIInv'
    OBVIOUS
  <2>1. CASE UNCHANGED wireVars
    BY <2>1, WireUnchanged
  <2>2. ASSUME NEW n \in BodyLen, NEW head \in BOOLEAN, NEW body \in BOOLEAN,
               W!Send(n, head, body)
        PROVE  WireIInv'
    BY <2>2, WireSend
  <2>3. ASSUME NEW n \in 1..Len(wire), W!Receive(n) PROVE WireIInv'
    BY <2>3, WireReceive
  <2> QED
    BY <2>1, <2>2, <2>3 DEF SystemNext, ServerStep, Send, Arrive, ClientStep
<1>3. WireIInv => WireSound
  BY WhatIsParsed, NoneWaits DEF WireSound
<1> QED
  BY <1>1, <1>2, <1>3, PTL DEF SystemSpec
=============================================================================
