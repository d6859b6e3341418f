-------------------------- MODULE BlobClientsProofs --------------------------
(***************************************************************************)
(* Proofs about BlobClients, for any list of servers, any configurations   *)
(* of the client and any number of calls at once: a call that fails has    *)
(* asked everyone, and a success is true of the server that was asked last.*)
(***************************************************************************)
EXTENDS BlobClients, SequenceTheorems, TLAPS

-----------------------------------------------------------------------------
(* The inductive invariant.                                                *)

\* The first m - 1 servers of S were asked; the rest are left.
AskedBefore(c, S, m) == c.unusable \/ \A i \in 1..(m - 1) : S[i] \in c.asked
LeftFrom(c, S, m) == c.left = SubSeq(S, m, Len(S)) /\ AskedBefore(c, S, m)

\* The first k - 1 transports of R failed, so that all their servers were asked.
FailedBefore(c, R, k) ==
    c.unusable \/ \A j \in 1..(k - 1) : \A i \in 1..Len(Servers(R[j])) : Servers(R[j])[i] \in c.asked

\* A running call is at a server of a transport of its route.
At(c, k) ==
    LET R == Route(c.op) IN
    /\ c.route = SubSeq(R, k, Len(R)) /\ FailedBefore(c, R, k)
    /\ \E m \in 1..Len(Servers(R[k])) : LeftFrom(c, Servers(R[k]), m)

\* Nobody is asked but the servers of the route.
AskedOnRoute(c) ==
    \A x \in c.asked : \E j \in 1..Len(Route(c.op)) : x \in Range(Servers(Route(c.op)[j]))

CallInv(c) ==
    /\ c \in Call
    /\ c.st \in {"idle", "queued"} => c.asked = {}
    /\ c.st \in {"running", "done"} => AskedOnRoute(c)
    /\ c.st = "running" => \E k \in 1..Len(Route(c.op)) : At(c, k)
    /\ c.st = "done" /\ c.res = "err" => FailedBefore(c, Route(c.op), Len(Route(c.op)) + 1)

Inv ==
    /\ client \in Clients /\ held \in [Target -> Held]
    /\ DOMAIN call = Task /\ \A t \in Task : CallInv(call[t])

-----------------------------------------------------------------------------
(* Routes and servers.                                                     *)

Routes == {<<"Http">>, <<"Iroh">>, <<"Iroh", "Http">>, <<"Http", "Iroh">>, <<"Http", "Iroh", "Http">>}

LEMMA RouteShape ==
    ASSUME client \in Clients, NEW op \in Op
    PROVE  /\ Route(op) \in Routes
           /\ op # "list" =>
                IF op = "download" /\ client.iroh /\ client.down = "Iroh" THEN Route(op) = <<"Iroh">>
                ELSE IF client.iroh THEN Route(op) \in Routes \ {<<"Http">>, <<"Iroh">>}
                ELSE Route(op) = <<"Http">>
<1>1. client.iroh \in BOOLEAN /\ client.up \in {"Http", "Iroh"} /\ client.down \in {"Http", "Iroh"}
  BY ClientsAssumption DEF Transport

<1>3. RouteUpload = IF client.iroh THEN IF client.up = "Iroh" THEN <<"Iroh", "Http">> ELSE <<"Http", "Iroh">>
                    ELSE <<"Http">>
  BY <1>1 DEF RouteUpload
<1>4. RouteExists = IF client.iroh THEN IF client.down = "Iroh" THEN <<"Iroh", "Http">> ELSE <<"Http", "Iroh">>
                    ELSE <<"Http">>
  BY <1>1 DEF RouteExists
<1>5. RouteDownload = IF client.iroh THEN IF client.down = "Iroh" THEN <<"Iroh">> ELSE <<"Http", "Iroh", "Http">>
                      ELSE <<"Http">>
  BY <1>1 DEF RouteDownload
<1>6. RouteDelete = IF client.iroh THEN <<"Iroh", "Http">> ELSE <<"Http">>
  BY DEF RouteDelete
<1>7. /\ <<"Iroh", "Http">> \notin {<<"Http">>, <<"Iroh">>} /\ <<"Http", "Iroh">> \notin {<<"Http">>, <<"Iroh">>}
      /\ <<"Http", "Iroh", "Http">> \notin {<<"Http">>, <<"Iroh">>}
  OBVIOUS
<1>8. CASE op \in Uploads
  <2>1. Route(op) = RouteUpload /\ op # "download"
    BY <1>8 DEF Route, Uploads
  <2> QED
    BY <1>3, <1>7, <2>1 DEF Routes
<1>9. CASE op = "download"
  <2>1. Route(op) = RouteDownload
    BY <1>9 DEF Route, Uploads
  <2> QED
    BY <1>5, <1>7, <1>9, <2>1 DEF Routes
<1>10. CASE op = "exists"
  <2>1. Route(op) = RouteExists
    BY <1>10 DEF Route, Uploads
  <2> QED
    BY <1>4, <1>7, <1>10, <2>1 DEF Routes
<1>11. CASE op = "delete"
  <2>1. Route(op) = RouteDelete
    BY <1>11 DEF Route, Uploads
  <2> QED
    BY <1>6, <1>7, <1>11, <2>1 DEF Routes
<1>12. CASE op = "list"
  BY <1>12 DEF Route, Uploads, RouteList, Routes
<1> QED
  BY <1>8, <1>9, <1>10, <1>11, <1>12 DEF Op, Uploads

LEMMA RouteIsSeq ==
    ASSUME NEW R \in Routes
    PROVE  R \in Seq(Transport) /\ Len(R) \in Nat /\ Len(R) >= 1
<1>1. CASE R = <<"Http">>
  BY <1>1 DEF Transport
<1>2. CASE R = <<"Iroh">>
  BY <1>2 DEF Transport
<1>3. CASE R = <<"Iroh", "Http">>
  BY <1>3 DEF Transport
<1>4. CASE R = <<"Http", "Iroh">>
  BY <1>4 DEF Transport
<1>5. CASE R = <<"Http", "Iroh", "Http">>
  BY <1>5 DEF Transport
<1> QED
  BY <1>1, <1>2, <1>3, <1>4, <1>5 DEF Routes

LEMMA ServersAre ==
    ASSUME NEW tr
    PROVE  /\ Servers(tr) \in Seq(Target) /\ Len(Servers(tr)) \in Nat /\ Len(Servers(tr)) >= 1
           /\ tr # "Http" => Len(Servers(tr)) = 1
<1>1. <<Peer>> \in Seq(Target) /\ Len(<<Peer>>) = 1
  BY DEF Target
<1>2. HttpServers \in Seq(Target) /\ Len(HttpServers) \in Nat /\ Len(HttpServers) >= 1
  <2>1. HttpServers \in Seq(Range(HttpServers)) /\ HttpServers # <<>>
    BY ClientsAssumption
  <2>2. Len(HttpServers) \in Nat /\ Len(HttpServers) >= 1
    BY <2>1
  <2>3. Range(HttpServers) \subseteq Target
    BY DEF Target
  <2> QED
    BY <2>1, <2>2, <2>3
<1> QED
  BY <1>1, <1>2 DEF Servers

\* The rest of a sequence from its k-th element.
LEMMA SuffixIs ==
    ASSUME NEW A, NEW s \in Seq(A), NEW k \in 1..Len(s)
    PROVE  LET u == SubSeq(s, k, Len(s)) IN
           /\ u \in Seq(A) /\ u # <<>> /\ Head(u) = s[k] /\ s[k] \in A
           /\ Len(u) = Len(s) - k + 1
           /\ k < Len(s) => Tail(u) = SubSeq(s, k + 1, Len(s)) /\ u[2] = s[k + 1]
<1> DEFINE u == SubSeq(s, k, Len(s))
<1>1. Len(s) \in Nat /\ k \in Nat /\ k >= 1 /\ k <= Len(s)
  OBVIOUS
<1>2. u = [i \in 1..(Len(s) - k + 1) |-> s[k + i - 1]]
  BY <1>1
<1>3. u \in Seq(A) /\ Len(u) = Len(s) - k + 1 /\ u # <<>>
  <2>1. u \in Seq(A) /\ Len(u) = Len(s) - k + 1
    BY <1>1
  <2> HIDE DEF u
  <2>2. Len(u) >= 1
    BY <1>1, <2>1
  <2>3. Len(<<>>) = 0
    OBVIOUS
  <2> QED
    BY <2>1, <2>2, <2>3
<1>4. Head(u) = s[k] /\ Tail(u) = SubSeq(s, k + 1, Len(s))
  <2>1. Len(s) \in k..Len(s)
    BY <1>1
  <2> QED
    BY <2>1, HeadTailOfSubSeq
<1> HIDE DEF u
<1>5. ASSUME k < Len(s) PROVE u[2] = s[k + 1]
  <2>1. 2 \in 1..(Len(s) - k + 1) /\ k + 2 - 1 = k + 1
    BY <1>1, <1>5
  <2> QED
    BY <1>2, <2>1
<1>6. s[k] \in A
  BY <1>1
<1>7. k < Len(s) => Tail(u) = SubSeq(s, k + 1, Len(s)) /\ u[2] = s[k + 1]
  BY <1>4, <1>5
<1> QED
  BY <1>3, <1>4, <1>6, <1>7, Zenon DEF u

-----------------------------------------------------------------------------
(* One attempt.                                                            *)

Answers == {"error", "refused", "ok", "notfound", "unusable"}

LEMMA OutcomeIs ==
    ASSUME NEW op \in Op, NEW h \in Held, NEW o \in Outcomes(op, h)
    PROVE  /\ o.answer \in Answers /\ o.after \in Held
           /\ o.answer = "ok" => Reply(op, h) = "ok" /\ o.after \in Effects(op, h)
<1>1. Effects(op, h) \subseteq Held
  <2>1. CASE op \in Uploads /\ h = "absent"
    BY <2>1 DEF Effects, Held, Uploads
  <2>2. CASE op = "delete"
    BY <2>2 DEF Effects, Held, Uploads
  <2>3. CASE ~(op \in Uploads /\ h = "absent") /\ op # "delete"
    BY <2>3 DEF Effects, Held
  <2> QED
    BY <2>1, <2>2, <2>3
<1>2. Reply(op, h) \in {"ok", "notfound"}
  BY DEF Reply
<1>3. CASE o \in {[after |-> h, answer |-> a] : a \in {"error", "refused"}}
  BY <1>3 DEF Answers
<1>4. CASE o \in [after : Effects(op, h), answer : {"error", Reply(op, h)}]
  BY <1>1, <1>2, <1>4 DEF Answers
<1>5. CASE o \in [after : Effects(op, h), answer : {"unusable"}]
  BY <1>1, <1>5 DEF Answers
<1> QED
  BY <1>3, <1>4, <1>5 DEF Outcomes

\* The value of a success.
LEMMA ValueIs ==
    ASSUME NEW op \in Op, NEW h
    PROVE  /\ Value(op, h) \in {"descriptor", "true", "data", "err"}
           /\ Value(op, h) = "err" => op = "download" /\ h # "good"
           /\ Value(op, h) = "data" => op = "download" /\ h = "good"
           /\ Value(op, h) = "true" => op \in {"exists", "delete"}
           /\ Value(op, h) = "descriptor" => op \in Uploads \cup {"list"}
<1>1. CASE op \in Uploads \cup {"list"}
  BY <1>1 DEF Value, Uploads
<1>2. CASE op \in {"exists", "delete"}
  BY <1>2 DEF Value, Uploads
<1>3. CASE op = "download"
  BY <1>3 DEF Value, Uploads
<1> QED
  BY <1>1, <1>2, <1>3 DEF Op, Uploads

\* What the client makes of an answer.
LEMMA VerdictIs ==
    ASSUME NEW c \in Call, NEW answer \in Answers, NEW h
    PROVE  LET v == Verdict(c, answer, h) IN
           /\ v \in {"descriptor", "true", "data", "err", "false", "next"}
           /\ v = "next" => Len(c.left) # 1 /\ Head(c.route) = "Http"
           /\ v = "err" => \/ answer = "unusable" \/ Len(c.left) = 1 \/ Head(c.route) # "Http"
                           \/ answer = "ok" /\ c.op = "download" /\ h # "good"
           /\ v \in {"descriptor", "true", "data"} => answer = "ok" /\ v = Value(c.op, h)
<1> DEFINE op == c.op
           v == Verdict(c, answer, h)
<1>1. op \in Op
  BY DEF Call
<1>2. /\ OnHttp(op, answer, h) \in {Value(op, h), "err", "false", "next"}
      /\ OnHttp(op, answer, h) = "err" => answer = "unusable" \/ (answer = "ok" /\ Value(op, h) = "err")
      /\ OnHttp(op, answer, h) \in {"descriptor", "true", "data"} => answer = "ok"
  BY DEF OnHttp, Answers
<1>3. /\ OnIroh(op, answer, h) \in {Value(op, h), "err", "false"}
      /\ OnIroh(op, answer, h) \in {"descriptor", "true", "data"} => answer = "ok"
  BY DEF OnIroh, Answers
<1>4. Exhausted(op) \in {"false", "err"}
  BY DEF Exhausted
<1>5. /\ Value(op, h) \in {"descriptor", "true", "data", "err"}
      /\ Value(op, h) = "err" => op = "download" /\ h # "good"
  BY <1>1, ValueIs
<1>6. v = LET w == IF Head(c.route) = "Http" THEN OnHttp(op, answer, h) ELSE OnIroh(op, answer, h)
          IN  IF w = "next" /\ Len(c.left) = 1 THEN Exhausted(op) ELSE w
  BY DEF Verdict
<1> HIDE DEF op, v
<1>7. CASE Head(c.route) = "Http"
  <2>1. v = IF OnHttp(op, answer, h) = "next" /\ Len(c.left) = 1 THEN Exhausted(op) ELSE OnHttp(op, answer, h)
    BY <1>6, <1>7
  <2> QED
    BY <1>2, <1>4, <1>5, <1>7, <2>1 DEF v, op
<1>8. CASE Head(c.route) # "Http"
  <2>1. v = OnIroh(op, answer, h)
    BY <1>3, <1>5, <1>6, <1>8
  <2> QED
    BY <1>3, <1>5, <1>8, <2>1 DEF v, op
<1> QED
  BY <1>7, <1>8

\* The call after it asked target, with the success unusable if bad.
Tried(c, target, bad) == [c EXCEPT !.asked = @ \cup {target}, !.unusable = @ \/ bad]

LEMMA TriedIs ==
    ASSUME NEW c \in Call, NEW target \in Target, NEW bad \in BOOLEAN
    PROVE  LET d == Tried(c, target, bad) IN
           /\ d \in Call
           /\ d.st = c.st /\ d.op = c.op /\ d.route = c.route /\ d.left = c.left
           /\ d.asked = c.asked \cup {target}
           /\ d.unusable <=> c.unusable \/ bad
<1> DEFINE A == c.asked \cup {target}
           B == c.unusable \/ bad
           d == Tried(c, target, bad)
<1>1. c.asked \in SUBSET Target /\ c.unusable \in BOOLEAN
  BY DEF Call
<1>2. A \in SUBSET Target /\ B \in BOOLEAN
  BY <1>1
<1>3. d = [c EXCEPT !.asked = A, !.unusable = B]
  BY DEF Tried
<1>4. B <=> c.unusable \/ bad
  OBVIOUS
<1> HIDE DEF A, B, d
<1>5. d \in Call
  BY <1>2, <1>3 DEF Call
<1>6. d.st = c.st /\ d.op = c.op /\ d.route = c.route /\ d.left = c.left /\ d.asked = A
  BY <1>3 DEF Call
<1>7. d.unusable = B
  BY <1>3 DEF Call
<1>8. d.unusable <=> c.unusable \/ bad
  BY <1>4, <1>7, Zenon
<1> QED
  BY <1>5, <1>6, <1>8 DEF A, d

\* Where a running call stands.
LEMMA RunningIsAt ==
    ASSUME client \in Clients, NEW c \in Call, NEW k \in 1..Len(Route(c.op)), At(c, k)
    PROVE  LET R == Route(c.op) S == Servers(R[k]) IN
           /\ R \in Seq(Transport) /\ S \in Seq(Target)
           /\ Head(c.route) = R[k] /\ Len(c.route) = Len(R) - k + 1
           /\ k < Len(R) => Tail(c.route) = SubSeq(R, k + 1, Len(R)) /\ c.route[2] = R[k + 1]
           /\ \E m \in 1..Len(S) :
                 /\ AskedBefore(c, S, m) /\ Head(c.left) = S[m] /\ S[m] \in Target
                 /\ Len(c.left) = Len(S) - m + 1
                 /\ m < Len(S) => Tail(c.left) = SubSeq(S, m + 1, Len(S))
<1> DEFINE R == Route(c.op)
           S == Servers(R[k])
<1>1. R \in Seq(Transport)
  BY RouteShape, RouteIsSeq DEF Call
<1>2. S \in Seq(Target)
  BY ServersAre
<1>3. c.route = SubSeq(R, k, Len(R))
  BY DEF At
<1>4. PICK m \in 1..Len(S) : LeftFrom(c, S, m)
  BY DEF At
<1>5. c.left = SubSeq(S, m, Len(S)) /\ AskedBefore(c, S, m)
  BY <1>4 DEF LeftFrom
<1> HIDE DEF R, S
<1>6. /\ Head(c.route) = R[k] /\ Len(c.route) = Len(R) - k + 1
      /\ k < Len(R) => Tail(c.route) = SubSeq(R, k + 1, Len(R)) /\ c.route[2] = R[k + 1]
  <2>1. k \in 1..Len(R)
    BY DEF R
  <2> QED
    BY <1>1, <1>3, <2>1, SuffixIs
<1>7. /\ Head(c.left) = S[m] /\ S[m] \in Target /\ Len(c.left) = Len(S) - m + 1
      /\ m < Len(S) => Tail(c.left) = SubSeq(S, m + 1, Len(S))
  BY <1>2, <1>5, SuffixIs
<1> QED
  BY <1>1, <1>2, <1>5, <1>6, <1>7 DEF R, S

\* Asking one more server of the route.
LEMMA TriedOnRoute ==
    ASSUME client \in Clients, NEW c \in Call, AskedOnRoute(c), NEW bad \in BOOLEAN,
           NEW k \in 1..Len(Route(c.op)), At(c, k)
    PROVE  LET R == Route(c.op) S == Servers(R[k]) d == Tried(c, Head(c.left), bad) IN
           /\ Head(c.left) \in Target /\ d \in Call /\ AskedOnRoute(d) /\ FailedBefore(d, R, k)
           /\ \E m \in 1..Len(S) :
                 /\ AskedBefore(d, S, m + 1)
                 /\ Len(c.left) = Len(S) - m + 1
                 /\ m < Len(S) => Tail(c.left) = SubSeq(S, m + 1, Len(S))
<1> DEFINE R == Route(c.op)
           S == Servers(R[k])
           x == Head(c.left)
           d == Tried(c, x, bad)
<1>1. PICK m \in 1..Len(S) :
         /\ AskedBefore(c, S, m) /\ x = S[m] /\ S[m] \in Target
         /\ Len(c.left) = Len(S) - m + 1
         /\ m < Len(S) => Tail(c.left) = SubSeq(S, m + 1, Len(S))
  BY RunningIsAt
<1>2. S \in Seq(Target) /\ R \in Seq(Transport)
  BY RunningIsAt
<1>3. FailedBefore(c, R, k)
  BY DEF At
<1> HIDE DEF x
<1>4. /\ d \in Call /\ d.op = c.op /\ d.asked = c.asked \cup {x}
      /\ d.unusable <=> c.unusable \/ bad
  BY <1>1, TriedIs
<1> HIDE DEF d, S
<1>5. AskedBefore(d, S, m + 1)
  <2>1. \A i \in 1..((m + 1) - 1) : i = m \/ i \in 1..(m - 1)
    BY <1>2
  <2> QED
    BY <1>1, <1>4, <2>1 DEF AskedBefore
<1>6. FailedBefore(d, R, k)
  BY <1>3, <1>4 DEF FailedBefore
<1>7. AskedOnRoute(d)
  <2>1. x \in Range(Servers(R[k]))
    BY <1>1, <1>2 DEF Range, S
  <2> QED
    BY <1>4, <2>1 DEF AskedOnRoute
<1> QED
  BY <1>1, <1>4, <1>5, <1>6, <1>7 DEF d, S, x

\* An attempt keeps the invariant of the call.
LEMMA AttemptKeeps ==
    ASSUME client \in Clients, NEW c, CallInv(c), c.st = "running", NEW answer \in Answers, NEW h \in Held,
           NEW bad \in BOOLEAN, answer = "unusable" => bad,
           answer = "ok" /\ c.op = "download" /\ h # "good" => bad
    PROVE  /\ Head(c.left) \in Target
           /\ CallInv(Continue(Tried(c, Head(c.left), bad), Verdict(c, answer, h)))
<1> DEFINE R == Route(c.op)
           x == Head(c.left)
           d == Tried(c, x, bad)
           v == Verdict(c, answer, h)
           n == Continue(d, v)
<1>1. c \in Call /\ AskedOnRoute(c)
  BY DEF CallInv
<1>2. PICK k \in 1..Len(R) : At(c, k)
  BY DEF CallInv
<1> DEFINE S == Servers(R[k])
<1>3. x \in Target /\ d \in Call /\ AskedOnRoute(d) /\ FailedBefore(d, R, k)
  BY <1>1, <1>2, TriedOnRoute
<1>4. PICK m \in 1..Len(S) :
         /\ AskedBefore(d, S, m + 1)
         /\ Len(c.left) = Len(S) - m + 1
         /\ m < Len(S) => Tail(c.left) = SubSeq(S, m + 1, Len(S))
  BY <1>1, <1>2, TriedOnRoute
<1>5. /\ R \in Seq(Transport) /\ S \in Seq(Target) /\ Head(c.route) = R[k] /\ Len(c.route) = Len(R) - k + 1
      /\ k < Len(R) => Tail(c.route) = SubSeq(R, k + 1, Len(R)) /\ c.route[2] = R[k + 1]
  BY <1>1, <1>2, RunningIsAt
<1>6. /\ d.st = "running" /\ d.op = c.op /\ d.route = c.route /\ d.left = c.left
      /\ d.unusable <=> c.unusable \/ bad
  BY <1>1, <1>3, TriedIs
<1>7. /\ v \in {"descriptor", "true", "data", "err", "false", "next"}
      /\ v = "next" => Len(c.left) # 1
      /\ v = "err" => \/ answer = "unusable" \/ Len(c.left) = 1 \/ Head(c.route) # "Http"
                      \/ answer = "ok" /\ c.op = "download" /\ h # "good"
  BY <1>1, VerdictIs
<1>8. R[k] # "Http" => Len(S) = 1
  BY ServersAre
<1>9. Len(S) \in Nat /\ m \in Nat /\ m >= 1 /\ m <= Len(S) /\ Len(R) \in Nat /\ k \in Nat /\ k >= 1 /\ k <= Len(R)
  BY <1>2, <1>4, <1>5
<1> HIDE DEF R, S, v, d, x
<1>10. v = "err" => FailedBefore(d, R, k + 1)
  <2> SUFFICES ASSUME v = "err" PROVE FailedBefore(d, R, k + 1)
    OBVIOUS
  <2>1. bad \/ Len(c.left) = 1 \/ R[k] # "Http"
    BY <1>5, <1>7
  <2>2. CASE bad
    BY <1>6, <2>2 DEF FailedBefore
  <2>3. CASE Len(c.left) = 1 \/ R[k] # "Http"
    <3>1. m = Len(S)
      BY <1>4, <1>8, <1>9, <2>3
    <3>2. d.unusable \/ \A i \in 1..Len(S) : S[i] \in d.asked
      <4>1. (m + 1) - 1 = Len(S)
        BY <1>9, <3>1
      <4> QED
        BY <1>4, <4>1 DEF AskedBefore
    <3>3. \A j \in 1..((k + 1) - 1) : j = k \/ j \in 1..(k - 1)
      BY <1>9
    <3> QED
      BY <1>3, <3>2, <3>3 DEF FailedBefore, S
  <2> QED
    BY <2>1, <2>2, <2>3
<1>11. CASE v = "next"
  <2>1. m < Len(S)
    BY <1>4, <1>7, <1>9, <1>11
  <2>2. n = [d EXCEPT !.left = Tail(c.left)]
    BY <1>6, <1>11 DEF Continue
  <2>3. Tail(c.left) = SubSeq(S, m + 1, Len(S)) /\ m + 1 \in 1..Len(S)
    BY <1>4, <1>9, <2>1
  <2> HIDE DEF n
  <2>4. Tail(c.left) \in Seq(Target)
    <3>1. SubSeq(S, m + 1, Len(S)) \in Seq(Target)
      BY <1>5, <2>3, SuffixIs
    <3> QED
      BY <2>3, <3>1
  <2>5. /\ n \in Call /\ n.st = "running" /\ n.op = c.op /\ n.route = c.route
        /\ n.left = SubSeq(S, m + 1, Len(S)) /\ n.asked = d.asked /\ n.unusable = d.unusable
    BY <1>3, <1>6, <2>2, <2>3, <2>4 DEF Call
  <2>6. At(n, k)
    <3>1. LeftFrom(n, S, m + 1)
      BY <1>4, <2>5 DEF LeftFrom, AskedBefore
    <3>2. FailedBefore(n, R, k)
      BY <1>3, <2>5 DEF FailedBefore
    <3>3. n.route = SubSeq(R, k, Len(R))
      BY <1>2, <2>5 DEF At, R
    <3> QED
      BY <2>3, <2>5, <3>1, <3>2, <3>3 DEF At, R, S
  <2>7. AskedOnRoute(n)
    BY <1>3, <1>6, <2>5 DEF AskedOnRoute
  <2>8. CallInv(n)
    BY <2>5, <2>6, <2>7 DEF CallInv, R
  <2> QED
    BY <1>3, <2>8 DEF n, d, v, x
<1>12. CASE v = "err" /\ Len(c.route) > 1
  <2>1. k < Len(R) /\ k + 1 \in 1..Len(R)
    BY <1>5, <1>9, <1>12
  <2> DEFINE S2 == Servers(R[k + 1])
  <2>2. n = [d EXCEPT !.route = SubSeq(R, k + 1, Len(R)), !.left = S2]
    BY <1>5, <1>6, <1>12, <2>1 DEF Continue
  <2>3. SubSeq(R, k + 1, Len(R)) \in Seq(Transport)
    BY <1>5, <2>1, SuffixIs
  <2>4. S2 \in Seq(Target) /\ Len(S2) \in Nat /\ Len(S2) >= 1
    BY ServersAre
  <2> HIDE DEF n, S2
  <2>5. /\ n \in Call /\ n.st = "running" /\ n.op = c.op /\ n.route = SubSeq(R, k + 1, Len(R))
        /\ n.left = S2 /\ n.asked = d.asked /\ n.unusable = d.unusable
    BY <1>3, <1>6, <2>2, <2>3, <2>4 DEF Call
  <2>6. At(n, k + 1)
    <3>1. LeftFrom(n, S2, 1)
      <4>1. S2 = SubSeq(S2, 1, Len(S2))
        BY <2>4
      <4>2. 1..(1 - 1) = {}
        OBVIOUS
      <4> QED
        BY <2>5, <4>1, <4>2 DEF LeftFrom, AskedBefore
    <3>2. FailedBefore(n, R, k + 1)
      BY <1>10, <1>12, <2>5 DEF FailedBefore
    <3>3. 1 \in 1..Len(S2)
      BY <2>4
    <3> QED
      BY <2>5, <3>1, <3>2, <3>3 DEF At, R, S2
  <2>7. AskedOnRoute(n)
    BY <1>3, <1>6, <2>5 DEF AskedOnRoute
  <2>8. CallInv(n)
    BY <2>1, <2>5, <2>6, <2>7 DEF CallInv, R
  <2> QED
    BY <1>3, <2>8 DEF n, d, v, x
<1>13. CASE v # "next" /\ ~(v = "err" /\ Len(c.route) > 1)
  <2>1. n = [d EXCEPT !.st = "done", !.res = v]
    BY <1>6, <1>13 DEF Continue
  <2>2. v \in Result
    BY <1>7, <1>13 DEF Result
  <2> HIDE DEF n
  <2>3. /\ n \in Call /\ n.st = "done" /\ n.op = c.op /\ n.res = v
        /\ n.asked = d.asked /\ n.unusable = d.unusable
    BY <1>3, <1>6, <2>1, <2>2 DEF Call
  <2>4. v = "err" => FailedBefore(n, R, Len(R) + 1)
    <3> SUFFICES ASSUME v = "err" PROVE FailedBefore(n, R, Len(R) + 1)
      OBVIOUS
    <3>1. k = Len(R)
      BY <1>5, <1>9, <1>13
    <3> QED
      BY <1>10, <2>3, <3>1 DEF FailedBefore
  <2>5. AskedOnRoute(n)
    BY <1>3, <1>6, <2>3 DEF AskedOnRoute
  <2>6. CallInv(n)
    BY <2>3, <2>4, <2>5 DEF CallInv, R
  <2> QED
    BY <1>3, <2>6 DEF n, d, v, x
<1> QED
  BY <1>11, <1>12, <1>13

-----------------------------------------------------------------------------
(* The steps of the specification.                                         *)

LEMMA IdleIs == Idle \in Call /\ Idle.st = "idle" /\ Idle.asked = {}
<1>1. <<>> \in Seq(Transport) /\ <<>> \in Seq(Target)
  OBVIOUS
<1>2. Idle \in Call
  BY <1>1 DEF Idle, Call, Op, Result
<1>3. Idle.st = "idle" /\ Idle.asked = {}
  BY DEF Idle
<1> QED
  BY <1>2, <1>3

\* A call that begins stands at the first server of its first transport.
LEMMA BegunIs ==
    ASSUME client \in Clients, NEW op \in Op, NEW batch \in BOOLEAN
    PROVE  CallInv(Begun(op, batch))
<1> DEFINE R == Route(op)
           S == Servers(R[1])
           b == Begun(op, batch)
<1>1. R \in Seq(Transport) /\ Len(R) \in Nat /\ Len(R) >= 1
  BY RouteShape, RouteIsSeq
<1>2. S \in Seq(Target) /\ Len(S) \in Nat /\ Len(S) >= 1
  BY ServersAre
<1>3. Head(R) = R[1]
  BY <1>1
<1>4. b = [Idle EXCEPT !.st = "running", !.op = op, !.batch = batch, !.route = R, !.left = S]
  BY <1>3 DEF Begun
<1> HIDE DEF R, S, b
<1>5. /\ b \in Call /\ b.st = "running" /\ b.op = op /\ b.route = R /\ b.left = S /\ b.asked = {}
  BY <1>1, <1>2, <1>4, IdleIs DEF Call
<1>6. 1..(1 - 1) = {}
  OBVIOUS
<1>7. LeftFrom(b, S, 1)
  <2>1. S = SubSeq(S, 1, Len(S))
    BY <1>2
  <2> QED
    BY <1>5, <1>6, <2>1 DEF LeftFrom, AskedBefore
<1>8. R = SubSeq(R, 1, Len(R))
  BY <1>1
<1>9. At(b, 1)
  <2>1. FailedBefore(b, R, 1)
    BY <1>6 DEF FailedBefore
  <2>2. 1 \in 1..Len(S)
    BY <1>2
  <2> QED
    BY <1>5, <1>7, <1>8, <2>1, <2>2 DEF At, R, S
<1>10. 1 \in 1..Len(R)
  BY <1>1
<1>11. AskedOnRoute(b)
  BY <1>5 DEF AskedOnRoute
<1> QED
  BY <1>5, <1>9, <1>10, <1>11 DEF CallInv, R, b

\* A call that waits.
LEMMA WaitingIs ==
    ASSUME NEW c, c = Idle \/ c = [Idle EXCEPT !.st = "queued", !.op = "upload_file", !.batch = TRUE]
    PROVE  CallInv(c)
<1>1. CASE c = Idle
  BY <1>1, IdleIs DEF CallInv
<1>2. CASE c = [Idle EXCEPT !.st = "queued", !.op = "upload_file", !.batch = TRUE]
  <2>1. c \in Call /\ c.st = "queued" /\ c.asked = {}
    BY <1>2, IdleIs DEF Call, Op
  <2> QED
    BY <2>1 DEF CallInv
<1> QED
  BY <1>1, <1>2

\* The configuration does not change, so neither does what the invariant says.
LEMMA FixedClient ==
    ASSUME client' = client, NEW t \in Task, CallInv(call'[t])
    PROVE  CallInv(call[t])'
<1>1. \A op : Route(op)' = Route(op)
  BY DEF Route, RouteUpload, RouteDownload, RouteExists, RouteDelete, RouteList
<1> QED
  BY <1>1 DEF CallInv, At, FailedBefore, AskedOnRoute, LeftFrom, AskedBefore

\* What Inv' needs: a step that changes one call.
LEMMA OneCallMoves ==
    ASSUME Inv, client' = client, held' \in [Target -> Held], NEW t \in Task,
           NEW n, CallInv(n), call' = [call EXCEPT ![t] = n]
    PROVE  Inv'
<1>1. DOMAIN call = Task /\ \A u \in Task : CallInv(call[u])
  BY DEF Inv
<1>2. DOMAIN call' = Task /\ \A u \in Task : call'[u] = IF u = t THEN n ELSE call[u]
  BY <1>1
<1>3. \A u \in Task : CallInv(call'[u])
  <2> TAKE u \in Task
  <2>1. CASE u = t
    BY <1>2, <2>1
  <2>2. CASE u # t
    BY <1>1, <1>2, <2>2
  <2> QED
    BY <2>1, <2>2
<1>4. \A u \in Task : CallInv(call[u])'
  BY <1>3, FixedClient
<1> QED
  BY <1>2, <1>4 DEF Inv

\* What an attempt is: a verdict on what the server answered.
LEMMA AttemptIs ==
    ASSUME Inv, NEW t \in Task, Attempt(t)
    PROVE  \E answer \in Answers, bad \in BOOLEAN :
             LET c == call[t] x == Head(c.left) n == Continue(Tried(c, x, bad), Verdict(c, answer, held[x])) IN
             /\ c.st = "running" /\ x \in Target /\ CallInv(n)
             /\ call' = [call EXCEPT ![t] = n]
             /\ held' \in [Target -> Held] /\ client' = client
             /\ answer = "ok" => Reply(c.op, held[x]) = "ok" /\ held'[x] \in Effects(c.op, held[x])
<1> DEFINE c == call[t]
           x == Head(c.left)
           h == held[x]
<1>1. CallInv(c) /\ c \in Call /\ c.st = "running" /\ held \in [Target -> Held] /\ client \in Clients
  BY DEF Inv, CallInv, Attempt
<1>2. c.op \in Op /\ c.unusable \in BOOLEAN
  BY <1>1 DEF Call
<1>3. x \in Target
  <2>1. \E k \in 1..Len(Route(c.op)) : At(c, k)
    BY <1>1 DEF CallInv
  <2>2. AskedOnRoute(c)
    BY <1>1 DEF CallInv
  <2> HIDE DEF c
  <2> QED
    BY <1>1, <2>1, <2>2, TriedOnRoute
<1>4. h \in Held
  BY <1>1, <1>3
<1>5. PICK o \in Outcomes(c.op, h) :
         LET tried == [c EXCEPT !.asked = @ \cup {x},
                                !.unusable = @ \/ o.answer = "unusable"
                                               \/ (c.op = "download" /\ o.answer = "ok" /\ h = "bad")]
             next == Continue(tried, Verdict(c, o.answer, h))
         IN  /\ held' = [held EXCEPT ![x] = o.after]
             /\ call' = [call EXCEPT ![t] = next]
             /\ permits' = permits + Released(c, next)
             /\ UNCHANGED <<client, others>>
  BY DEF Attempt
<1> DEFINE bad == o.answer = "unusable" \/ (c.op = "download" /\ o.answer = "ok" /\ h = "bad")
           n == Continue(Tried(c, x, bad), Verdict(c, o.answer, h))
<1>6. /\ o.answer \in Answers /\ o.after \in Held
      /\ o.answer = "ok" => Reply(c.op, h) = "ok" /\ o.after \in Effects(c.op, h)
  BY <1>2, <1>4, OutcomeIs
<1>7. call' = [call EXCEPT ![t] = n] /\ held' = [held EXCEPT ![x] = o.after] /\ client' = client
  BY <1>5, Zenon DEF Tried
<1>8. held' \in [Target -> Held] /\ held'[x] = o.after
  BY <1>1, <1>3, <1>6, <1>7
<1>9. bad \in BOOLEAN
  OBVIOUS
<1>10. o.answer = "unusable" => bad
  OBVIOUS
<1>11. o.answer = "ok" /\ c.op = "download" /\ h # "good" => bad
  <2>1. o.answer = "ok" /\ c.op = "download" => h # "absent"
    BY <1>6 DEF Reply
  <2> QED
    BY <1>4, <2>1 DEF Held
<1> HIDE DEF bad, h, c, x
<1>12. CallInv(n)
  <2>1. CallInv(Continue(Tried(c, Head(c.left), bad), Verdict(c, o.answer, h)))
    BY <1>1, <1>4, <1>6, <1>9, <1>10, <1>11, AttemptKeeps
  <2> QED
    BY <2>1 DEF x
<1>13. o.answer = "ok" => Reply(c.op, h) = "ok" /\ held'[x] \in Effects(c.op, h)
  BY <1>6, <1>8
<1> HIDE DEF n
<1> QED
  <2>1. /\ c.st = "running" /\ x \in Target /\ CallInv(n)
        /\ call' = [call EXCEPT ![t] = n]
        /\ held' \in [Target -> Held] /\ client' = client
        /\ o.answer = "ok" => Reply(c.op, h) = "ok" /\ held'[x] \in Effects(c.op, h)
    BY <1>1, <1>3, <1>7, <1>8, <1>12, <1>13
  <2> QED
    BY <1>6, <1>9, <2>1, Zenon DEF n, h, c, x

\* The invariant holds.
THEOREM Invariance == Spec => []Inv
<1>1. Init => Inv
  <2> SUFFICES ASSUME Init PROVE Inv
    OBVIOUS
  <2>1. held \in [Target -> Held]
    BY DEF Init, Held
  <2>2. \A t \in Task : call[t] = Idle
    BY DEF Init
  <2>3. \A t \in Task : CallInv(call[t])
    BY <2>2, WaitingIs
  <2> QED
    BY <2>1, <2>3 DEF Init, Inv
<1>2. Inv /\ [Next]_vars => Inv'
  <2> SUFFICES ASSUME Inv, [Next]_vars PROVE Inv'
    OBVIOUS
  <2>1. client \in Clients /\ held \in [Target -> Held] /\ DOMAIN call = Task /\ \A t \in Task : CallInv(call[t])
    BY DEF Inv
  <2>2. ASSUME NEW t \in Task, NEW op \in Op, Invoke(t, op) PROVE Inv'
    <3>1. CallInv(Begun(op, FALSE))
      BY <2>1, BegunIs
    <3>2. call' = [call EXCEPT ![t] = Begun(op, FALSE)] /\ client' = client /\ held' \in [Target -> Held]
      BY <2>1, <2>2 DEF Invoke
    <3> QED
      BY <3>1, <3>2, OneCallMoves
  <2>3. ASSUME NEW t \in Task, Spawn(t) PROVE Inv'
    <3> DEFINE n == [Idle EXCEPT !.st = "queued", !.op = "upload_file", !.batch = TRUE]
    <3>1. CallInv(n)
      BY WaitingIs
    <3>2. call' = [call EXCEPT ![t] = n] /\ client' = client /\ held' \in [Target -> Held]
      BY <2>1, <2>3 DEF Spawn
    <3> HIDE DEF n
    <3> QED
      BY <3>1, <3>2, OneCallMoves
  <2>4. ASSUME NEW t \in Task, Acquire(t) PROVE Inv'
    <3>1. CallInv(Begun("upload_file", TRUE))
      BY <2>1, BegunIs DEF Op
    <3>2. call' = [call EXCEPT ![t] = Begun("upload_file", TRUE)] /\ client' = client /\ held' \in [Target -> Held]
      BY <2>1, <2>4 DEF Acquire
    <3> QED
      BY <3>1, <3>2, OneCallMoves
  <2>5. ASSUME NEW t \in Task, Attempt(t) PROVE Inv'
    <3>1. \E n : CallInv(n) /\ call' = [call EXCEPT ![t] = n] /\ held' \in [Target -> Held] /\ client' = client
      BY <2>5, AttemptIs, Zenon
    <3> QED
      BY <3>1, OneCallMoves
  <2>6. ASSUME client' = client, call' = call, held' \in [Target -> Held] PROVE Inv'
    <3>1. \A t \in Task : CallInv(call[t])'
      BY <2>1, <2>6, FixedClient
    <3> QED
      BY <2>1, <2>6, <3>1 DEF Inv
  <2>7. ASSUME NEW x \in Target, Others(x) PROVE Inv'
    <3>1. held' \in [Target -> Held]
      BY <2>1, <2>7 DEF Others
    <3> QED
      BY <2>6, <2>7, <3>1 DEF Others
  <2>8. CASE UNCHANGED vars
    BY <2>1, <2>6, <2>8 DEF vars
  <2> QED
    BY <2>2, <2>3, <2>4, <2>5, <2>7, <2>8 DEF Next
<1> QED
  BY <1>1, <1>2, PTL DEF Spec

-----------------------------------------------------------------------------
(* A call that fails.                                                      *)

\* Without an unusable success, a failed call asked exactly the servers of its route.
LEMMA FailedAskedAll ==
    ASSUME client \in Clients, NEW c, CallInv(c), c.st = "done", c.res = "err", ~c.unusable
    PROVE  LET R == Route(c.op) IN
           c.asked = UNION {Range(Servers(R[j])) : j \in 1..Len(R)}
<1> DEFINE R == Route(c.op)
<1>1. c \in Call /\ AskedOnRoute(c) /\ FailedBefore(c, R, Len(R) + 1)
  BY DEF CallInv
<1>2. Len(R) \in Nat
  BY <1>1, RouteShape, RouteIsSeq DEF Call
<1>3. 1..((Len(R) + 1) - 1) = 1..Len(R)
  BY <1>2
<1>4. \A j \in 1..Len(R) : \A x \in Range(Servers(R[j])) : x \in c.asked
  <2> TAKE j \in 1..Len(R)
  <2>1. \A i \in 1..Len(Servers(R[j])) : Servers(R[j])[i] \in c.asked
    BY <1>1, <1>3 DEF FailedBefore
  <2> DEFINE S == Servers(R[j])
  <2>2. S \in Seq(Target)
    BY ServersAre
  <2> HIDE DEF S
  <2> QED
    BY <2>1, <2>2 DEF Range, S
<1>5. \A x \in c.asked : \E j \in 1..Len(R) : x \in Range(Servers(R[j]))
  BY <1>1 DEF AskedOnRoute
<1> QED
  BY <1>4, <1>5

\* The servers of each transport.
LEMMA ServersOf == Range(Servers("Http")) = Range(HttpServers) /\ Range(Servers("Iroh")) = {Peer}
<1>1. Range(<<Peer>>) = {Peer}
  BY DEF Range
<1> QED
  BY <1>1 DEF Servers

\* Whom a route reaches.
LEMMA RouteReaches ==
    ASSUME NEW R \in Routes
    PROVE  LET U == UNION {Range(Servers(R[j])) : j \in 1..Len(R)} IN
           /\ R = <<"Http">> => U = Range(HttpServers)
           /\ R = <<"Iroh">> => U = {Peer}
           /\ R \notin {<<"Http">>, <<"Iroh">>} => U = Range(HttpServers) \cup {Peer}
<1> DEFINE H == Range(HttpServers)
           F(tr) == Range(Servers(tr))
<1>1. F("Http") = H /\ F("Iroh") = {Peer}
  BY ServersOf
<1> HIDE DEF H, F
<1>2. CASE R = <<"Http">>
  <2>1. 1..Len(R) = {1} /\ R[1] = "Http"
    BY <1>2
  <2>2. UNION {F(R[j]) : j \in 1..Len(R)} = H
    BY <1>1, <2>1
  <2> QED
    BY <1>2, <2>2 DEF F, H
<1>3. CASE R = <<"Iroh">>
  <2>1. 1..Len(R) = {1} /\ R[1] = "Iroh" /\ <<"Iroh">> # <<"Http">>
    BY <1>3
  <2>2. UNION {F(R[j]) : j \in 1..Len(R)} = {Peer}
    BY <1>1, <2>1
  <2> QED
    BY <1>3, <2>1, <2>2 DEF F, H
<1>4. CASE R \notin {<<"Http">>, <<"Iroh">>}
  <2>1. R \in {<<"Iroh", "Http">>, <<"Http", "Iroh">>, <<"Http", "Iroh", "Http">>}
    BY <1>4 DEF Routes
  <2>2. /\ \A j \in 1..Len(R) : R[j] \in {"Http", "Iroh"}
        /\ \E j \in 1..Len(R) : R[j] = "Http"
        /\ \E j \in 1..Len(R) : R[j] = "Iroh"
    <3>1. CASE R = <<"Iroh", "Http">>
      <4>1. 1..Len(R) = {1, 2} /\ R[1] = "Iroh" /\ R[2] = "Http"
        BY <3>1
      <4> QED
        BY <4>1
    <3>2. CASE R = <<"Http", "Iroh">>
      <4>1. 1..Len(R) = {1, 2} /\ R[1] = "Http" /\ R[2] = "Iroh"
        BY <3>2
      <4> QED
        BY <4>1
    <3>3. CASE R = <<"Http", "Iroh", "Http">>
      <4>1. 1..Len(R) = {1, 2, 3} /\ R[1] = "Http" /\ R[2] = "Iroh" /\ R[3] = "Http"
        BY <3>3
      <4> QED
        BY <4>1
    <3> QED
      BY <2>1, <3>1, <3>2, <3>3
  <2>3. UNION {F(R[j]) : j \in 1..Len(R)} = H \cup {Peer}
    <3>1. \A x \in UNION {F(R[j]) : j \in 1..Len(R)} : x \in H \cup {Peer}
      BY <1>1, <2>2
    <3>2. \A x \in H \cup {Peer} : x \in UNION {F(R[j]) : j \in 1..Len(R)}
      BY <1>1, <2>2
    <3> QED
      BY <3>1, <3>2
  <2> QED
    BY <1>4, <2>3 DEF F, H
<1> QED
  BY <1>2, <1>3, <1>4

\* An upload, a download or a delete that fails has been offered to every server
\* the configuration allows, or somebody's success could not be used: however the
\* failures of the servers and the transports fell (client/multi.rs, client/mod.rs).
THEOREM FailuresAreExhaustive == Spec => []FailureIsExhaustive
<1>1. Inv => FailureIsExhaustive
  <2> SUFFICES ASSUME Inv, NEW t \in Task,
                      call[t].st = "done", call[t].res = "err", call[t].op # "list", ~call[t].unusable
               PROVE  call[t].asked =
                        IF call[t].op = "download" /\ client.iroh /\ client.down = "Iroh" THEN {Peer}
                        ELSE Range(HttpServers) \cup (IF client.iroh THEN {Peer} ELSE {})
    BY DEF FailureIsExhaustive
  <2> DEFINE c == call[t]
             R == Route(c.op)
  <2>1. client \in Clients /\ CallInv(c) /\ c \in Call
    BY DEF Inv, CallInv
  <2>2. c.op \in Op
    BY <2>1 DEF Call
  <2>3. c.asked = UNION {Range(Servers(R[j])) : j \in 1..Len(R)}
    BY <2>1, FailedAskedAll
  <2>4. /\ R \in Routes
        /\ IF c.op = "download" /\ client.iroh /\ client.down = "Iroh" THEN R = <<"Iroh">>
           ELSE IF client.iroh THEN R \in Routes \ {<<"Http">>, <<"Iroh">>}
           ELSE R = <<"Http">>
    BY <2>1, <2>2, RouteShape
  <2> HIDE DEF R
  <2>5. /\ R = <<"Http">> => c.asked = Range(HttpServers)
        /\ R = <<"Iroh">> => c.asked = {Peer}
        /\ R \notin {<<"Http">>, <<"Iroh">>} => c.asked = Range(HttpServers) \cup {Peer}
    BY <2>3, <2>4, RouteReaches
  <2> QED
    BY <2>4, <2>5
<1> QED
  BY <1>1, Invariance, PTL

-----------------------------------------------------------------------------
(* A call that succeeds.                                                   *)

\* A call ends with the last verdict.
LEMMA EndsWithVerdict ==
    ASSUME NEW d \in Call, d.st = "running", NEW v, Continue(d, v).st = "done"
    PROVE  Continue(d, v).res = v
<1>1. CASE v = "next"
  BY <1>1 DEF Continue, Call
<1>2. CASE v = "err" /\ Len(d.route) > 1
  BY <1>2 DEF Continue, Call
<1>3. CASE v # "next" /\ ~(v = "err" /\ Len(d.route) > 1)
  <2>1. Continue(d, v) = [d EXCEPT !.st = "done", !.res = v]
    BY <1>3 DEF Continue
  <2> QED
    BY <2>1 DEF Call
<1> QED
  BY <1>1, <1>2, <1>3

\* What a verdict says about the server that was asked, which held h and now holds after.
LEMMA VerdictIsTrue ==
    ASSUME NEW c \in Call, NEW answer \in Answers, NEW h \in Held, NEW after,
           answer = "ok" => Reply(c.op, h) = "ok" /\ after \in Effects(c.op, h)
    PROVE  LET v == Verdict(c, answer, h) IN
           /\ v # "damaged"
           /\ v = "data" => h = "good"
           /\ v = "true" => h # "absent"
           /\ v = "descriptor" /\ c.op \in Uploads => after # "absent"
<1> DEFINE v == Verdict(c, answer, h)
           op == c.op
<1>1. op \in Op
  BY DEF Call
<1>2. /\ v \in {"descriptor", "true", "data", "err", "false", "next"}
      /\ v \in {"descriptor", "true", "data"} => answer = "ok" /\ v = Value(op, h)
  BY VerdictIs
<1>3. /\ Value(op, h) = "data" => h = "good"
      /\ Value(op, h) = "true" => op \in {"exists", "delete"}
  BY <1>1, ValueIs
<1> HIDE DEF v
<1>4. v = "true" => h # "absent"
  BY <1>2, <1>3 DEF Reply
<1>5. ASSUME v = "descriptor", op \in Uploads PROVE after # "absent"
  <2>1. after \in Effects(op, h)
    BY <1>2, <1>5
  <2>2. op # "delete"
    BY <1>5 DEF Uploads
  <2>3. CASE h = "absent"
    BY <1>5, <2>1, <2>2, <2>3 DEF Effects
  <2>4. CASE h # "absent"
    BY <2>1, <2>2, <2>4 DEF Effects
  <2> QED
    BY <2>3, <2>4
<1> QED
  BY <1>2, <1>3, <1>4, <1>5 DEF v

\* What a call that has just succeeded returns is true of the server it asked last.
TrueOfLast(t) ==
    call[t].st = "running" /\ call'[t].st = "done" =>
        LET c == call[t] last == Head(c.left) res == call'[t].res IN
            /\ res # "damaged"
            /\ res = "data" => held[last] = "good"
            /\ res = "true" => held[last] # "absent"
            /\ res = "descriptor" /\ c.op \in Uploads => held'[last] # "absent"

LEMMA AttemptIsTrue ==
    ASSUME Inv, NEW t \in Task, Attempt(t), call'[t].st = "done"
    PROVE  TrueOfLast(t)
<1> DEFINE c == call[t]
           x == Head(c.left)
           h == held[x]
<1>1. PICK answer \in Answers, bad \in BOOLEAN :
         LET n == Continue(Tried(c, x, bad), Verdict(c, answer, h)) IN
         /\ c.st = "running" /\ x \in Target /\ CallInv(n)
         /\ call' = [call EXCEPT ![t] = n]
         /\ held' \in [Target -> Held] /\ client' = client
         /\ answer = "ok" => Reply(c.op, h) = "ok" /\ held'[x] \in Effects(c.op, h)
  BY AttemptIs, Zenon
<1> DEFINE d == Tried(c, x, bad)
           v == Verdict(c, answer, h)
           after == held'[x]
<1>2. c \in Call /\ DOMAIN call = Task /\ held \in [Target -> Held]
  BY DEF Inv, CallInv
<1>3. call'[t] = Continue(d, v) /\ x \in Target /\ c.st = "running"
  BY <1>1, <1>2
<1>4. h \in Held
  BY <1>2, <1>3
<1>5. d \in Call /\ d.st = "running"
  <2> HIDE DEF c, x
  <2> QED
    BY <1>2, <1>3, TriedIs
<1>6. answer = "ok" => Reply(c.op, h) = "ok" /\ after \in Effects(c.op, h)
  BY <1>1
<1> HIDE DEF c, x, h, d, after
<1>7. call'[t].res = v
  <2> HIDE DEF v
  <2> QED
    BY <1>3, <1>5, EndsWithVerdict
<1>8. /\ v # "damaged"
      /\ v = "data" => h = "good"
      /\ v = "true" => h # "absent"
      /\ v = "descriptor" /\ c.op \in Uploads => after # "absent"
  BY <1>2, <1>4, <1>6, VerdictIsTrue
<1> HIDE DEF v
<1> QED
  BY <1>7, <1>8 DEF TrueOfLast, c, x, h, after

\* A call that succeeds says the truth about the server it asked last, whatever
\* was lost, refused or damaged before: the hash check of a download, and the
\* statuses that count as a success (client/mod.rs, transport/iroh_client.rs).
THEOREM SuccessesAreTrue == Spec => SuccessIsTrue
<1>1. Inv /\ [Next]_vars =>
        [\A t \in Task : call[t].st = "running" /\ call'[t].st = "done" =>
            LET c == call[t] last == Head(c.left) res == call'[t].res IN
                /\ res # "damaged"
                /\ res = "data" => held[last] = "good"
                /\ res = "true" => held[last] # "absent"
                /\ res = "descriptor" /\ c.op \in Uploads => held'[last] # "absent"]_vars
  <2> SUFFICES ASSUME Inv, Next, NEW t \in Task, call[t].st = "running", call'[t].st = "done"
               PROVE  TrueOfLast(t)
    BY DEF TrueOfLast
  <2>1. DOMAIN call = Task
    BY DEF Inv
  <2>2. call'[t] # call[t]
    OBVIOUS
  <2>3. \A n : \A u \in Task : call' = [call EXCEPT ![u] = n] => u = t
    BY <2>1, <2>2
  <2>4. ASSUME NEW u \in Task, NEW op \in Op, Invoke(u, op) PROVE FALSE
    BY <2>3, <2>4 DEF Invoke
  <2>5. ASSUME NEW u \in Task, Spawn(u) PROVE FALSE
    BY <2>3, <2>5 DEF Spawn
  <2>6. ASSUME NEW u \in Task, Acquire(u) PROVE FALSE
    BY <2>3, <2>6 DEF Acquire
  <2>7. ASSUME NEW u \in Task, Attempt(u) PROVE TrueOfLast(t)
    <3>1. \E n : call' = [call EXCEPT ![u] = n]
      BY <2>7, AttemptIs, Zenon
    <3>2. u = t
      BY <2>3, <3>1
    <3> QED
      BY <2>7, <3>2, AttemptIsTrue
  <2>8. ASSUME NEW x \in Target, Others(x) PROVE FALSE
    BY <2>2, <2>8 DEF Others
  <2> QED
    BY <2>4, <2>5, <2>6, <2>7, <2>8 DEF Next
<1>2. Spec => [][Next]_vars
  BY PTL DEF Spec
<1> QED
  BY <1>1, <1>2, Invariance, PTL DEF SuccessIsTrue
=============================================================================
