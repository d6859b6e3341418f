------------------------- MODULE RequestLimitsProofs -------------------------
(***************************************************************************)
(* Proofs about RequestLimits, for any number of requests, streams, tasks  *)
(* and permits: permits are conserved and memory is bounded.               *)
(***************************************************************************)
EXTENDS RequestLimits, FiniteSetTheorems, TLAPS

Request == [pc : HttpPcs, route : Routes, declared : 0..BodyLimit, units : 0..Budget,
            bytes : Nat, media : BOOLEAN]
StreamRec == [pc : StreamPcs, units : 0..IrohBudget]
Task == [request : Http \cup {None}, bytes : Nat, started : BOOLEAN]

-----------------------------------------------------------------------------
(* The inductive invariant.                                                *)

\* What a request holds at each of its steps.  A body is at most what it reserved,
\* since until it is read its reservation is what the checks asked for.
Fits(r) ==
    /\ r.pc \in {"idle", "admit", "reserve"} => r.units = 0 /\ r.bytes = 0
    /\ r.media <=> r.pc \in {"body", "verify"} /\ r.route = "media"
    /\ r.pc = "body" => r.units = IF r.declared = 0 THEN LimitOf(r.route) ELSE r.declared
    /\ r.pc = "verify" => r.bytes <= BodyLimit
    /\ r.pc = "fetch" => r.units = MirrorSize
    /\ r.bytes <= r.units

RequestInv == http \in [Http -> Request] /\ \A h \in Http : Fits(http[h])

\* A task with a request is the one task of a request that waits for it.
TaskInv ==
    /\ worker \in [Worker -> Task \cup {None}]
    /\ \A w \in Tasks :
         /\ worker[w].bytes <= BodyLimit
         /\ worker[w].request # None =>
              /\ http[worker[w].request].pc = "process"
              /\ \A v \in Tasks : worker[v].request = worker[w].request => v = w

HeldUnits == [h \in Http |-> http[h].units]
Holders == {h \in Http : http[h].media}

BodyInv ==
    /\ bodyFree \in Nat /\ IsFiniteSet(Units(HeldUnits))
    /\ bodyFree + Cardinality(Units(HeldUnits)) = Budget

MediaInv ==
    /\ mediaFree \in Nat /\ IsFiniteSet(Tasks) /\ IsFiniteSet(Holders)
    /\ mediaFree + Cardinality(Tasks) + Cardinality(Holders) = MediaPermits

HttpInv == RequestInv /\ TaskInv /\ BodyInv /\ MediaInv

\* A stream reserves once, with its body, and holds the mutex while it answers.
StreamInv ==
    /\ stream \in [Stream -> StreamRec]
    /\ mutex \in Stream \cup {None}
    /\ \A s \in Stream :
         /\ stream[s].pc \in {"idle", "header", "preflight", "upload"} => stream[s].units = 0
         /\ mutex = s <=> stream[s].pc = "respond"

Streaming == {s \in Stream : stream[s].pc # "idle"}
StreamUnits == [s \in Stream |-> stream[s].units]

IrohInv ==
    /\ streamFree \in Nat /\ IsFiniteSet(Streaming)
    /\ streamFree + Cardinality(Streaming) = StreamPermits
    /\ irohFree \in Nat /\ IsFiniteSet(Units(StreamUnits))
    /\ irohFree + Cardinality(Units(StreamUnits)) = IrohBudget

-----------------------------------------------------------------------------
(* Units and permits.                                                      *)

\* The units of one holder.
LEMMA OwnUnits ==
  ASSUME NEW x, NEW n \in Nat
  PROVE  IsFiniteSet({x} \X (1..n)) /\ Cardinality({x} \X (1..n)) = n
<1>1. IsFiniteSet({x}) /\ Cardinality({x}) = 1
  BY FS_Singleton
<1>2. IsFiniteSet(1..n) /\ Cardinality(1..n) = n
  BY FS_Interval
<1>3. /\ IsFiniteSet({x} \X (1..n))
      /\ Cardinality({x} \X (1..n)) = Cardinality({x}) * Cardinality(1..n)
  BY <1>1, <1>2, FS_Product
<1> QED BY <1>1, <1>2, <1>3

\* When one holder has n units instead of f[x], the total changes by the difference.
LEMMA UnitsChange ==
  ASSUME NEW S, NEW f \in [S -> Nat], NEW x \in S, NEW n \in Nat, IsFiniteSet(Units(f))
  PROVE  LET g == [f EXCEPT ![x] = n] IN
         /\ IsFiniteSet(Units(g)) /\ Cardinality(Units(g)) \in Nat
         /\ Cardinality(Units(f)) \in Nat /\ Cardinality(Units(f)) >= f[x]
         /\ Cardinality(Units(g)) = (Cardinality(Units(f)) - f[x]) + n
<1> DEFINE g == [f EXCEPT ![x] = n]
           Rest == UNION {{y} \X (1..f[y]) : y \in S \ {x}}
<1>1. Units(f) = Rest \cup ({x} \X (1..f[x])) /\ Rest \cap ({x} \X (1..f[x])) = {}
  BY DEF Units
<1>2. Units(g) = Rest \cup ({x} \X (1..n)) /\ Rest \cap ({x} \X (1..n)) = {}
  BY DEF Units
<1>3. IsFiniteSet(Rest) /\ Cardinality(Rest) \in Nat
  <2>1. Rest \in SUBSET Units(f)
    BY <1>1
  <2> HIDE DEF Rest
  <2> QED BY <2>1, FS_Subset, FS_CardinalityType
<1> HIDE DEF Rest, g
<1>4. Cardinality({}) = 0
  BY FS_EmptySet
<1>5. ASSUME NEW m \in Nat, Rest \cap ({x} \X (1..m)) = {}
      PROVE  /\ IsFiniteSet(Rest \cup ({x} \X (1..m)))
             /\ Cardinality(Rest \cup ({x} \X (1..m))) = Cardinality(Rest) + m
  <2>1. IsFiniteSet({x} \X (1..m)) /\ Cardinality({x} \X (1..m)) = m
    BY OwnUnits
  <2>2. /\ IsFiniteSet(Rest \cup ({x} \X (1..m)))
        /\ Cardinality(Rest \cup ({x} \X (1..m))) =
             Cardinality(Rest) + Cardinality({x} \X (1..m)) - Cardinality(Rest \cap ({x} \X (1..m)))
    BY <1>3, <2>1, FS_Union
  <2>3. Cardinality(Rest \cap ({x} \X (1..m))) = 0
    BY <1>4, <1>5
  <2> QED BY <1>3, <2>1, <2>2, <2>3
<1>6. IsFiniteSet(Units(g)) /\ Cardinality(Units(g)) = Cardinality(Rest) + n
  BY <1>2, <1>5
<1>7. f[x] \in Nat
  OBVIOUS
<1>8. Cardinality(Units(f)) = Cardinality(Rest) + f[x]
  BY <1>1, <1>5, <1>7
<1>9. Cardinality(Units(f)) \in Nat /\ Cardinality(Units(g)) \in Nat
  BY <1>3, <1>6, <1>7, <1>8
<1> QED BY <1>3, <1>6, <1>7, <1>8, <1>9 DEF g

\* Who holds less holds a part.
LEMMA UnitsOrdered ==
  ASSUME NEW S, NEW f \in [S -> Nat], NEW g \in [S -> Nat], \A x \in S : f[x] <= g[x],
         IsFiniteSet(Units(g))
  PROVE  IsFiniteSet(Units(f)) /\ Cardinality(Units(f)) <= Cardinality(Units(g))
<1>1. \A x \in S : 1..f[x] \subseteq 1..g[x]
  OBVIOUS
<1>2. Units(f) \in SUBSET Units(g)
  BY <1>1 DEF Units
<1> QED BY <1>2, FS_Subset

\* Permits that are held one each.
LEMMA PermitsChange ==
  ASSUME NEW S, IsFiniteSet(S), NEW x
  PROVE  /\ IsFiniteSet(S \cup {x}) /\ IsFiniteSet(S \ {x})
         /\ Cardinality(S) \in Nat
         /\ x \notin S => Cardinality(S \cup {x}) = Cardinality(S) + 1
         /\ x \in S => Cardinality(S \ {x}) = Cardinality(S) - 1 /\ Cardinality(S) > 0
<1>1. Cardinality(S) \in Nat /\ Cardinality(S \ {x}) \in Nat /\ IsFiniteSet(S \ {x})
  BY FS_CardinalityType, FS_RemoveElement
<1> QED BY <1>1, FS_AddElement, FS_RemoveElement

-----------------------------------------------------------------------------
(* HTTP requests and media tasks.                                          *)

One(b) == IF b THEN 1 ELSE 0

\* A step of one request that takes units of the body budget, or gives them back.
LEMMA BodyMoves ==
  ASSUME RequestInv, BodyInv, http' \in [Http -> Request], NEW h \in Http,
         \A g \in Http \ {h} : http'[g] = http[g],
         bodyFree' = (bodyFree + http[h].units) - http'[h].units, bodyFree' \in Nat
  PROVE  BodyInv'
<1>1. HeldUnits \in [Http -> Nat] /\ http[h].units \in Nat /\ http'[h].units \in Nat /\ Budget \in Nat
  BY LimitsAssumption DEF RequestInv, HeldUnits, Request
<1>2. HeldUnits' = [HeldUnits EXCEPT ![h] = http'[h].units] /\ HeldUnits[h] = http[h].units
  BY DEF HeldUnits
<1> DEFINE g == [HeldUnits EXCEPT ![h] = http'[h].units]
<1>3. /\ IsFiniteSet(Units(g)) /\ Cardinality(Units(g)) \in Nat
      /\ Cardinality(Units(HeldUnits)) \in Nat
      /\ Cardinality(Units(g)) = (Cardinality(Units(HeldUnits)) - HeldUnits[h]) + http'[h].units
  <2>1. IsFiniteSet(Units(HeldUnits)) /\ HeldUnits \in [Http -> Nat] /\ http'[h].units \in Nat
    BY <1>1 DEF BodyInv
  <2> QED BY ONLY <2>1, h \in Http, UnitsChange, Zenon
<1> HIDE DEF g
<1>4. Units(HeldUnits)' = Units(g)
  BY <1>2 DEF Units, g
<1> QED BY <1>1, <1>2, <1>3, <1>4 DEF BodyInv

\* A step of one request that takes a media permit, or gives it back.
LEMMA MediaMoves ==
  ASSUME RequestInv, MediaInv, http' \in [Http -> Request], NEW h \in Http,
         \A g \in Http \ {h} : http'[g] = http[g], Tasks' = Tasks,
         mediaFree' = (mediaFree + One(http[h].media)) - One(http'[h].media), mediaFree' \in Nat
  PROVE  MediaInv'
<1>1. MediaPermits \in Nat /\ Cardinality(Tasks) \in Nat
  BY LimitsAssumption, FS_CardinalityType DEF MediaInv
<1>2. Holders' = IF http'[h].media THEN Holders \cup {h} ELSE Holders \ {h}
  BY DEF Holders
<1>3. h \in Holders <=> http[h].media
  BY DEF Holders
<1>4. /\ IsFiniteSet(Holders \cup {h}) /\ IsFiniteSet(Holders \ {h}) /\ Cardinality(Holders) \in Nat
      /\ h \notin Holders => Cardinality(Holders \cup {h}) = Cardinality(Holders) + 1
      /\ h \in Holders => Cardinality(Holders \ {h}) = Cardinality(Holders) - 1 /\ Cardinality(Holders) > 0
  BY PermitsChange DEF MediaInv
<1> DEFINE n == Cardinality(Holders)
           t == Cardinality(Tasks)
<1>5. /\ h \notin Holders => Holders \ {h} = Holders
      /\ h \in Holders => Holders \cup {h} = Holders
  OBVIOUS
<1>6. IsFiniteSet(Holders') /\ Cardinality(Holders') = (n - One(http[h].media)) + One(http'[h].media)
  <2>1. CASE http'[h].media /\ h \in Holders
    <3>1. Holders' = Holders /\ One(http[h].media) = 1 /\ One(http'[h].media) = 1
      BY <1>2, <1>3, <1>5, <2>1 DEF One
    <3> QED BY <1>4, <3>1 DEF MediaInv
  <2>2. CASE http'[h].media /\ h \notin Holders
    <3>1. Holders' = Holders \cup {h} /\ One(http[h].media) = 0 /\ One(http'[h].media) = 1
      BY <1>2, <1>3, <2>2 DEF One
    <3>2. IsFiniteSet(Holders') /\ Cardinality(Holders') = n + 1
      BY <1>4, <2>2, <3>1
    <3>3. n \in Nat
      BY <1>4
    <3> QED BY <3>1, <3>2, <3>3
  <2>3. CASE ~http'[h].media /\ h \in Holders
    <3>1. Holders' = Holders \ {h} /\ One(http[h].media) = 1 /\ One(http'[h].media) = 0
      BY <1>2, <1>3, <2>3 DEF One
    <3> QED BY <1>4, <2>3, <3>1
  <2>4. CASE ~http'[h].media /\ h \notin Holders
    <3>1. Holders' = Holders /\ One(http[h].media) = 0 /\ One(http'[h].media) = 0
      BY <1>2, <1>3, <1>5, <2>4 DEF One
    <3> QED BY <1>4, <3>1 DEF MediaInv
  <2> QED BY <2>1, <2>2, <2>3, <2>4
<1>7. One(http[h].media) \in Nat /\ One(http'[h].media) \in Nat /\ mediaFree \in Nat
      /\ mediaFree + t + n = MediaPermits
  BY DEF One, MediaInv
<1>8. mediaFree' + t + Cardinality(Holders') = MediaPermits
  BY <1>1, <1>4, <1>6, <1>7
<1> QED BY <1>6, <1>8 DEF MediaInv

\* A step of one request that concerns no task.
LEMMA RequestMoves ==
  ASSUME HttpInv, http' \in [Http -> Request], NEW h \in Http,
         \A g \in Http \ {h} : http'[g] = http[g], Fits(http'[h]),
         http[h].pc # "process", UNCHANGED worker,
         bodyFree' = (bodyFree + http[h].units) - http'[h].units, bodyFree' \in Nat,
         mediaFree' = (mediaFree + One(http[h].media)) - One(http'[h].media), mediaFree' \in Nat
  PROVE  HttpInv'
<1>1. RequestInv'
  <2>1. \A g \in Http : Fits(http'[g])
    BY DEF HttpInv, RequestInv
  <2> QED BY <2>1 DEF RequestInv, Fits, LimitOf
<1>2. Tasks' = Tasks
  BY DEF Tasks
<1>3. TaskInv'
  BY <1>2 DEF HttpInv, TaskInv, Tasks, Task
<1>4. BodyInv' /\ MediaInv'
  BY <1>2, BodyMoves, MediaMoves DEF HttpInv
<1> QED BY <1>1, <1>3, <1>4 DEF HttpInv

\* The end of a request without a task.
LEMMA Finishing ==
  ASSUME HttpInv, NEW h \in Http, Finish(h), http[h].pc # "process", UNCHANGED worker
  PROVE  HttpInv'
<1>1. http[h] \in Request /\ NoRequest \in Request
  BY LimitsAssumption DEF HttpInv, RequestInv, Request, NoRequest, HttpPcs, Routes
<1>2. /\ http' \in [Http -> Request] /\ http'[h] = NoRequest
      /\ \A g \in Http \ {h} : http'[g] = http[g]
  BY <1>1 DEF Finish, HttpInv, RequestInv
<1>3. Fits(http'[h])
  BY <1>2 DEF Fits, NoRequest
<1>4. bodyFree' = (bodyFree + http[h].units) - http'[h].units /\ bodyFree' \in Nat
  BY <1>1, <1>2 DEF Finish, NoRequest, HttpInv, BodyInv, Request
<1>5. mediaFree' = (mediaFree + One(http[h].media)) - One(http'[h].media) /\ mediaFree' \in Nat
  BY <1>1, <1>2 DEF Finish, NoRequest, HttpInv, MediaInv, Request, One
<1> QED BY <1>2, <1>3, <1>4, <1>5, RequestMoves

\* A request that goes leaves its task without a request.
LEMMA Detaching ==
  ASSUME TaskInv, NEW h \in Http, worker' = Detached(h), \A g \in Http \ {h} : http'[g] = http[g]
  PROVE  TaskInv' /\ Tasks' = Tasks
<1>1. \A w \in Worker : worker[w] = None => worker'[w] = None
  BY DEF Detached
<1>2. ASSUME NEW w \in Tasks, worker[w].request = h
      PROVE  /\ worker'[w] \in Task /\ worker'[w] # None
             /\ worker'[w].request = None /\ worker'[w].bytes = worker[w].bytes
  BY <1>2, LimitsAssumption DEF Detached, TaskInv, Tasks, Task
<1>3. ASSUME NEW w \in Tasks, worker[w].request # h
      PROVE  worker'[w] = worker[w] /\ worker'[w] \in Task /\ worker'[w] # None
  BY <1>3 DEF Detached, TaskInv, Tasks
<1>4. worker' \in [Worker -> Task \cup {None}]
  BY <1>1, <1>2, <1>3 DEF Detached, Tasks
<1>5. Tasks' = Tasks
  BY <1>1, <1>2, <1>3 DEF Tasks
<1>6. ASSUME NEW w \in Tasks
      PROVE  /\ worker'[w].bytes <= BodyLimit
             /\ worker'[w].request # None =>
                  /\ http'[worker'[w].request].pc = "process"
                  /\ \A v \in Tasks : worker'[v].request = worker'[w].request => v = w
  <2>1. CASE worker[w].request = h
    BY <1>2, <2>1 DEF TaskInv
  <2>2. CASE worker[w].request # h
    <3>1. worker'[w] = worker[w] /\ worker[w] \in Task
      BY <1>3, <2>2
    <3>2. worker'[w].request # None => http'[worker'[w].request].pc = "process"
      BY <2>2, <3>1 DEF TaskInv, Task
    <3>3. ASSUME worker'[w].request # None, NEW v \in Tasks, worker'[v].request = worker'[w].request
          PROVE  v = w
      BY <1>2, <1>3, <3>1, <3>3 DEF TaskInv
    <3> QED BY <3>1, <3>2, <3>3 DEF TaskInv
  <2> QED BY <2>1, <2>2
<1> QED BY <1>4, <1>5, <1>6 DEF TaskInv

\* A task ends and its permit is free again.
LEMMA TaskEnds ==
  ASSUME MediaInv, NEW w \in Tasks, Tasks' = Tasks \ {w}, Holders' = Holders, mediaFree' = mediaFree + 1
  PROVE  MediaInv'
<1>1. /\ IsFiniteSet(Tasks \ {w}) /\ Cardinality(Tasks) \in Nat /\ Cardinality(Holders) \in Nat
      /\ Cardinality(Tasks \ {w}) = Cardinality(Tasks) - 1
  BY PermitsChange, FS_CardinalityType DEF MediaInv
<1> DEFINE t == Cardinality(Tasks)
           n == Cardinality(Holders)
<1>2. /\ IsFiniteSet(Tasks') /\ Cardinality(Tasks') = t - 1
      /\ Cardinality(Holders') = n /\ t \in Nat /\ n \in Nat
  BY <1>1
<1>3. mediaFree \in Nat /\ mediaFree + t + n = MediaPermits /\ IsFiniteSet(Holders')
  BY DEF MediaInv
<1>4. mediaFree' \in Nat /\ mediaFree' + (t - 1) + n = MediaPermits
  BY <1>2, <1>3
<1> QED BY <1>2, <1>3, <1>4 DEF MediaInv

\* The permit of a media upload goes from the request to its task.
LEMMA PermitChangesOwner ==
  ASSUME MediaInv, NEW h \in Holders, NEW w, w \notin Tasks, Tasks' = Tasks \cup {w},
         Holders' = Holders \ {h}, UNCHANGED mediaFree
  PROVE  MediaInv'
<1>1. /\ IsFiniteSet(Tasks \cup {w}) /\ Cardinality(Tasks) \in Nat
      /\ Cardinality(Tasks \cup {w}) = Cardinality(Tasks) + 1
  BY PermitsChange DEF MediaInv
<1>2. /\ IsFiniteSet(Holders \ {h}) /\ Cardinality(Holders) \in Nat
      /\ Cardinality(Holders \ {h}) = Cardinality(Holders) - 1
  BY PermitsChange DEF MediaInv
<1> DEFINE t == Cardinality(Tasks)
           n == Cardinality(Holders)
<1>3. Cardinality(Tasks') = t + 1 /\ Cardinality(Holders') = n - 1 /\ t \in Nat /\ n \in Nat
  BY <1>1, <1>2
<1>4. mediaFree \in Nat /\ mediaFree + t + n = MediaPermits
  BY DEF MediaInv
<1>5. mediaFree + (t + 1) + (n - 1) = MediaPermits
  BY <1>3, <1>4
<1> QED BY <1>1, <1>2, <1>3, <1>4, <1>5 DEF MediaInv

\* What a step makes of a request.
LEMMA Updated ==
  ASSUME NEW r \in Request, NEW p \in HttpPcs
  PROVE  /\ \A rt \in Routes, d \in 0..BodyLimit : [r EXCEPT !.pc = p, !.route = rt, !.declared = d] \in Request
         /\ \A b \in Nat, d \in 0..BodyLimit : [r EXCEPT !.pc = p, !.bytes = b, !.declared = d] \in Request
         /\ \A u \in 0..Budget, b \in Nat : [r EXCEPT !.pc = p, !.units = u, !.bytes = b] \in Request
         /\ \A b \in Nat : [r EXCEPT !.pc = p, !.bytes = b] \in Request
BY DEF Request

\* Steps of a request that concern no task.
LEMMA RequestSteps ==
  ASSUME HttpInv, NEW h \in Http,
         \/ \E route \in Routes, declared \in 0..BodyLimit : HttpArrives(h, route, declared)
         \/ Admit(h) \/ Refuse(h) \/ ReadBody(h) \/ StoreUpload(h) \/ VerifyMirror(h)
         \/ ReserveMirror(h) \/ MirrorFetched(h) \/ MirrorFails(h) \/ StoreResult(h)
  PROVE  HttpInv'
<1>1. /\ http \in [Http -> Request] /\ http[h] \in Request /\ Fits(http[h])
      /\ bodyFree \in Nat /\ mediaFree \in Nat
  BY DEF HttpInv, RequestInv, BodyInv, MediaInv
<1>2. /\ Budget \in Nat /\ BodyLimit \in Nat /\ MirrorSize \in Nat /\ BodyLimit > 0 /\ MirrorSize > 0
      /\ "admit" \in HttpPcs /\ "body" \in HttpPcs /\ "verify" \in HttpPcs
      /\ "reserve" \in HttpPcs /\ "fetch" \in HttpPcs /\ "store" \in HttpPcs
      /\ 0 \in 0..BodyLimit /\ 0 \in 0..Budget
  BY LimitsAssumption DEF HttpPcs
<1> DEFINE Moved == /\ http' \in [Http -> Request] /\ \A g \in Http \ {h} : http'[g] = http[g]
                    /\ Fits(http'[h]) /\ http[h].pc # "process" /\ UNCHANGED worker
           Paid == /\ bodyFree' = (bodyFree + http[h].units) - http'[h].units /\ bodyFree' \in Nat
                   /\ mediaFree' = (mediaFree + One(http[h].media)) - One(http'[h].media)
                   /\ mediaFree' \in Nat
<1>3. Moved /\ Paid => HttpInv'
  BY RequestMoves
<1>13. ASSUME NEW r \in Request, http' = [http EXCEPT ![h] = r]
       PROVE  http' \in [Http -> Request] /\ http'[h] = r /\ \A g \in Http \ {h} : http'[g] = http[g]
  BY <1>1, <1>13
<1>4. ASSUME http' \in [Http -> Request], http'[h].units = http[h].units, http'[h].media = http[h].media,
             UNCHANGED <<bodyFree, mediaFree>>
      PROVE  Paid
  <2>1. http[h].units \in Nat /\ One(http[h].media) \in Nat
    BY <1>1, <1>2 DEF Request, One
  <2> QED BY <1>1, <1>4, <2>1
<1>5. ASSUME NEW route \in Routes, NEW declared \in 0..BodyLimit, HttpArrives(h, route, declared)
      PROVE  HttpInv'
  <2> DEFINE r == [http[h] EXCEPT !.pc = "admit", !.route = route, !.declared = declared]
  <2>1. r \in Request
    BY <1>1, <1>2, Updated
  <2>2. http' = [http EXCEPT ![h] = r]
    BY <1>5 DEF HttpArrives
  <2>3. http[h].pc = "idle" /\ r.pc = "admit" /\ r.units = 0 /\ r.bytes = 0 /\ r.media = http[h].media
    <3>0. http[h] = NoRequest
      BY <1>5 DEF HttpArrives
    <3>1. http[h].pc = "idle" /\ http[h].units = 0 /\ http[h].bytes = 0
      BY <3>0 DEF NoRequest
    <3>2. r.pc = "admit" /\ r.units = http[h].units /\ r.bytes = http[h].bytes /\ r.media = http[h].media
      BY <1>1 DEF Request
    <3> QED BY <3>1, <3>2
  <2>4. Fits(r)
    BY <1>1, <2>3 DEF Fits
  <2>5. Moved
    BY <1>5, <1>13, <2>1, <2>2, <2>3, <2>4 DEF HttpArrives
  <2>6. Paid
    <3>1. http'[h].units = http[h].units /\ http'[h].media = http[h].media
      BY <1>1, <1>13, <2>1, <2>2 DEF Request
    <3> QED BY <1>4, <1>5, <1>13, <2>1, <2>2, <3>1 DEF HttpArrives
  <2> QED BY <1>3, <2>5, <2>6
<1>6. CASE Admit(h)
  <2> DEFINE n == Reservation(h)
  <2>1. n \in 0..Budget /\ n <= bodyFree
    BY <1>1, <1>2, <1>6 DEF Admit, Reservation, LimitOf, Request
  <2>2. /\ http[h].pc = "admit" /\ http[h].units = 0 /\ http[h].bytes = 0 /\ ~http[h].media
        /\ http' \in [Http -> Request] /\ \A g \in Http \ {h} : http'[g] = http[g]
        /\ http'[h].pc = "body" /\ http'[h].units = n /\ (http'[h].media <=> http[h].route = "media")
        /\ http'[h].route = http[h].route /\ http'[h].declared = http[h].declared /\ http'[h].bytes = 0
    BY <1>1, <1>2, <1>6, <2>1 DEF Admit, Request, Fits
  <2>3. Moved
    <3>1. Fits(http'[h])
      BY <1>2, <2>1, <2>2 DEF Fits, Reservation
    <3> QED BY <1>6, <2>2, <3>1 DEF Admit
  <2>4. bodyFree' = (bodyFree + http[h].units) - http'[h].units /\ bodyFree' \in Nat
    BY <1>1, <1>2, <1>6, <2>1, <2>2 DEF Admit
  <2>5. mediaFree' = (mediaFree + One(http[h].media)) - One(http'[h].media) /\ mediaFree' \in Nat
    <3>1. CASE http[h].route = "media"
      BY <1>1, <1>6, <2>2, <3>1 DEF Admit, One
    <3>2. CASE http[h].route # "media"
      BY <1>1, <1>6, <2>2, <3>2 DEF Admit, One
    <3> QED BY <3>1, <3>2
  <2> QED BY <1>3, <2>3, <2>4, <2>5
<1>7. CASE Refuse(h) \/ StoreUpload(h) \/ MirrorFails(h) \/ StoreResult(h)
  BY <1>7, Finishing DEF Refuse, StoreUpload, MirrorFails, StoreResult
<1>8. CASE ReadBody(h)
  <2>1. PICK n \in 1..LimitOf(http[h].route) :
          /\ http[h].pc = "body" /\ http[h].declared \in {0, n}
          /\ http' = [http EXCEPT ![h].pc = "verify", ![h].bytes = n, ![h].declared = 0]
    BY <1>8 DEF ReadBody
  <2>2. n \in Nat /\ n <= BodyLimit /\ n <= http[h].units
    BY <1>1, <1>2, <2>1 DEF LimitOf, Fits, Request
  <2> DEFINE r == [http[h] EXCEPT !.pc = "verify", !.bytes = n, !.declared = 0]
  <2>3. r \in Request
    BY <1>1, <1>2, <2>2, Updated
  <2>4. http' = [http EXCEPT ![h] = r]
    BY <2>1
  <2>5. /\ r.pc = "verify" /\ r.bytes = n /\ r.units = http[h].units
        /\ r.route = http[h].route /\ r.media = http[h].media
    BY <1>1 DEF Request
  <2>6. Fits(r)
    BY <1>1, <2>1, <2>2, <2>5 DEF Fits
  <2>7. Moved
    BY <1>8, <1>13, <2>1, <2>3, <2>4, <2>6 DEF ReadBody
  <2>8. Paid
    BY <1>4, <1>8, <1>13, <2>3, <2>4, <2>5 DEF ReadBody
  <2> QED BY <1>3, <2>7, <2>8
<1>9. CASE VerifyMirror(h)
  <2> DEFINE r == [http[h] EXCEPT !.pc = "reserve", !.units = 0, !.bytes = 0]
  <2>5. r \in Request
    BY <1>1, <1>2, Updated
  <2>6. http' = [http EXCEPT ![h] = r]
    BY <1>9 DEF VerifyMirror
  <2>7. r.pc = "reserve" /\ r.bytes = 0 /\ r.units = 0 /\ r.media = http[h].media
    BY <1>1 DEF Request
  <2>8. Fits(r)
    BY <1>1, <1>9, <2>7 DEF Fits, VerifyMirror
  <2>1. Moved
    BY <1>9, <1>13, <2>5, <2>6, <2>8 DEF VerifyMirror
  <2>2. http'[h].units = 0 /\ http'[h].media = http[h].media /\ http[h].units \in Nat
    BY <1>1, <1>2, <1>13, <2>5, <2>6, <2>7 DEF Request
  <2>3. bodyFree' = (bodyFree + http[h].units) - http'[h].units /\ bodyFree' \in Nat
    BY <1>1, <1>9, <2>2 DEF VerifyMirror
  <2>4. mediaFree' = (mediaFree + One(http[h].media)) - One(http'[h].media) /\ mediaFree' \in Nat
    BY <1>1, <1>9, <2>2 DEF VerifyMirror, One
  <2> QED BY <1>3, <2>1, <2>3, <2>4
<1>10. CASE ReserveMirror(h) /\ Finish(h)
  BY <1>10, Finishing DEF ReserveMirror
<1>11. CASE ReserveMirror(h) /\ MirrorSize <= Budget /\ MirrorSize <= bodyFree
  <2>1. Moved
    BY <1>1, <1>2, <1>11 DEF ReserveMirror, Request, Fits
  <2>2. http[h].units = 0 /\ http'[h].units = MirrorSize /\ (http'[h].media <=> http[h].media)
    BY <1>1, <1>2, <1>11 DEF ReserveMirror, Request, Fits
  <2>3. bodyFree' = (bodyFree + http[h].units) - http'[h].units /\ bodyFree' \in Nat
    BY <1>1, <1>2, <1>11, <2>2 DEF ReserveMirror
  <2>4. mediaFree' = (mediaFree + One(http[h].media)) - One(http'[h].media) /\ mediaFree' \in Nat
    BY <1>1, <1>11, <2>2 DEF ReserveMirror, One
  <2> QED BY <1>3, <2>1, <2>3, <2>4
<1>12. CASE MirrorFetched(h)
  <2>1. PICK n \in 1..MirrorSize : /\ http[h].pc = "fetch"
                                   /\ http' = [http EXCEPT ![h].pc = "store", ![h].bytes = n]
    BY <1>12 DEF MirrorFetched
  <2> DEFINE r == [http[h] EXCEPT !.pc = "store", !.bytes = n]
  <2>2. r \in Request
    <3>1. n \in Nat
      BY <1>2
    <3> QED BY <1>1, <1>2, <3>1, Updated
  <2>3. http' = [http EXCEPT ![h] = r]
    BY <2>1
  <2>4. r.pc = "store" /\ r.bytes = n /\ r.units = http[h].units /\ r.media = http[h].media
    BY <1>1 DEF Request
  <2>5. Fits(r)
    BY <1>1, <1>2, <2>1, <2>4 DEF Fits
  <2>6. Moved
    BY <1>12, <1>13, <2>1, <2>2, <2>3, <2>5 DEF MirrorFetched
  <2>7. Paid
    BY <1>4, <1>12, <1>13, <2>2, <2>3, <2>4 DEF MirrorFetched
  <2> QED BY <1>3, <2>6, <2>7
<1> QED BY <1>5, <1>6, <1>7, <1>8, <1>9, <1>10, <1>11, <1>12 DEF ReserveMirror

\* Steps of media tasks, and of requests that may have one.
LEMMA MediaSteps ==
  ASSUME HttpInv,
         \/ \E h \in Http : SpawnMedia(h) \/ MediaDeadline(h) \/ HttpLeaves(h)
         \/ \E w \in Worker : MediaStarts(w) \/ MediaExits(w)
  PROVE  HttpInv'
<1>1. /\ http \in [Http -> Request] /\ \A h \in Http : http[h] \in Request /\ Fits(http[h])
      /\ worker \in [Worker -> Task \cup {None}] /\ bodyFree \in Nat /\ mediaFree \in Nat
  BY DEF HttpInv, RequestInv, TaskInv, BodyInv, MediaInv
<1>2. NoRequest \in Request /\ Fits(NoRequest) /\ "process" \in HttpPcs /\ "store" \in HttpPcs
  BY LimitsAssumption DEF Request, NoRequest, HttpPcs, Routes, Fits
<1>3. ASSUME NEW h \in Http, NEW r \in Request, Fits(r), http' = [http EXCEPT ![h] = r]
      PROVE  /\ http' \in [Http -> Request] /\ http'[h] = r /\ \A g \in Http \ {h} : http'[g] = http[g]
             /\ RequestInv'
  <2>1. http' \in [Http -> Request] /\ http'[h] = r /\ \A g \in Http \ {h} : http'[g] = http[g]
    BY <1>1, <1>3
  <2>2. \A g \in Http : Fits(http'[g])
    BY <1>1, <1>3, <2>1
  <2> QED BY <2>1, <2>2 DEF RequestInv, Fits, LimitOf
<1>4. ASSUME NEW h \in Http, HttpLeaves(h) PROVE HttpInv'
  <2>1. http' = [http EXCEPT ![h] = NoRequest] /\ worker' = Detached(h)
    BY <1>4 DEF HttpLeaves, Finish
  <2>2. RequestInv' /\ TaskInv' /\ Tasks' = Tasks
    BY <1>2, <1>3, <2>1, Detaching DEF HttpInv
  <2>3. bodyFree' = (bodyFree + http[h].units) - http'[h].units /\ bodyFree' \in Nat
    BY <1>1, <1>2, <1>3, <1>4, <2>1 DEF HttpLeaves, Finish, NoRequest, Request
  <2>4. mediaFree' = (mediaFree + One(http[h].media)) - One(http'[h].media) /\ mediaFree' \in Nat
    BY <1>1, <1>2, <1>3, <1>4, <2>1 DEF HttpLeaves, Finish, NoRequest, One
  <2> QED BY <1>2, <1>3, <2>1, <2>2, <2>3, <2>4, BodyMoves, MediaMoves DEF HttpInv
<1>5. ASSUME NEW h \in Http, SpawnMedia(h) PROVE HttpInv'
  <2> DEFINE w == CHOOSE v \in Worker : worker[v] = None
             r == [http[h] EXCEPT !.pc = "process", !.media = FALSE]
             t == [request |-> h, bytes |-> http[h].bytes, started |-> FALSE]
  <2>1. w \in Worker /\ worker[w] = None
    BY <1>5 DEF SpawnMedia
  <2>2. worker' = [worker EXCEPT ![w] = t] /\ http' = [http EXCEPT ![h] = r]
    BY <1>5 DEF SpawnMedia
  <2> HIDE DEF w
  <2>3. http[h].pc = "verify" /\ http[h].media /\ http[h].bytes <= BodyLimit
    BY <1>1, <1>5 DEF SpawnMedia, Fits
  <2>4. t \in Task /\ t # None /\ t.request = h /\ t.bytes <= BodyLimit
    <3>1. http[h].bytes \in Nat
      BY <1>1 DEF Request
    <3>2. t \in Task /\ t.request = h /\ t.bytes = http[h].bytes
      BY <3>1 DEF Task
    <3> HIDE DEF t
    <3> QED BY <2>3, <3>2, LimitsAssumption DEF Task
  <2>5. /\ r \in Request /\ r.pc = "process" /\ r.units = http[h].units /\ ~r.media
        /\ r.bytes = http[h].bytes
    BY <1>1, <1>2 DEF Request
  <2>6. Fits(r)
    BY <1>1, <2>5 DEF Fits
  <2> HIDE DEF t, r
  <2>7. RequestInv' /\ http'[h] = r /\ http' \in [Http -> Request]
        /\ \A g \in Http \ {h} : http'[g] = http[g]
    BY <1>3, <2>2, <2>5, <2>6
  <2>8. /\ Tasks' = Tasks \cup {w} /\ w \notin Tasks /\ worker' \in [Worker -> Task \cup {None}]
        /\ worker'[w] = t /\ \A v \in Tasks : worker'[v] = worker[v]
    BY <1>1, <2>1, <2>2, <2>4 DEF Tasks
  <2>9. \A v \in Tasks : worker[v].request # h
    BY <2>3, LimitsAssumption DEF HttpInv, TaskInv
  <2>10. TaskInv'
    <3>1. ASSUME NEW v \in Tasks'
          PROVE  /\ worker'[v].bytes <= BodyLimit
                 /\ worker'[v].request # None =>
                      /\ http'[worker'[v].request].pc = "process"
                      /\ \A u \in Tasks' : worker'[u].request = worker'[v].request => u = v
      <4>1. CASE v = w
        BY <2>4, <2>5, <2>7, <2>8, <2>9, <4>1
      <4>2. CASE v # w
        <5>1. v \in Tasks /\ worker'[v] = worker[v] /\ worker[v] \in Task /\ worker[v].request # h
          BY <1>1, <2>8, <2>9, <4>2 DEF Tasks
        <5>2. worker[v].request # None => http'[worker[v].request] = http[worker[v].request]
          BY <2>7, <5>1 DEF Task
        <5>3. \A u \in Tasks' : (u \in Tasks /\ worker'[u] = worker[u]) \/ (u = w /\ worker'[u].request = h)
          BY <2>4, <2>8
        <5> QED BY <5>1, <5>2, <5>3 DEF HttpInv, TaskInv
      <4> QED BY <4>1, <4>2
    <3> QED BY <2>8, <3>1 DEF TaskInv
  <2>11. BodyInv'
    BY <1>1, <1>5, <2>5, <2>7, BodyMoves DEF SpawnMedia, HttpInv, Request
  <2>12. h \in Holders /\ Holders' = Holders \ {h}
    BY <2>3, <2>5, <2>7 DEF Holders
  <2>13. MediaInv'
    BY <1>5, <2>8, <2>12, PermitChangesOwner DEF SpawnMedia, HttpInv
  <2> QED BY <2>7, <2>10, <2>11, <2>13 DEF HttpInv
<1>6. ASSUME NEW w \in Worker, MediaStarts(w) PROVE HttpInv'
  <2>1. w \in Tasks /\ worker' = [worker EXCEPT ![w].started = TRUE] /\ UNCHANGED <<http, bodyFree, mediaFree>>
    BY <1>6 DEF MediaStarts, Tasks
  <2>2. worker[w] \in Task /\ worker'[w] = [worker[w] EXCEPT !.started = TRUE]
    BY <1>1, <2>1 DEF Tasks
  <2>3. /\ worker'[w] \in Task /\ worker'[w] # None
        /\ worker'[w].request = worker[w].request /\ worker'[w].bytes = worker[w].bytes
    BY <2>2, LimitsAssumption DEF Task
  <2>4. /\ worker' \in [Worker -> Task \cup {None}] /\ Tasks' = Tasks
        /\ \A v \in Tasks \ {w} : worker'[v] = worker[v]
    BY <1>1, <2>1, <2>3 DEF Tasks
  <2>5. TaskInv'
    BY <2>1, <2>3, <2>4 DEF HttpInv, TaskInv
  <2>6. HeldUnits' = HeldUnits /\ Holders' = Holders
    BY <2>1 DEF HeldUnits, Holders
  <2>7. RequestInv' /\ BodyInv' /\ MediaInv'
    BY <2>1, <2>4, <2>6 DEF HttpInv, RequestInv, Fits, LimitOf, BodyInv, MediaInv, Units
  <2> QED BY <2>5, <2>7 DEF HttpInv
<1>7. ASSUME NEW w \in Worker, MediaExits(w) PROVE HttpInv'
  <2>1. /\ w \in Tasks /\ worker' = [worker EXCEPT ![w] = None]
        /\ UNCHANGED bodyFree /\ mediaFree' = mediaFree + 1
    BY <1>7 DEF MediaExits, Tasks
  <2>2. /\ worker' \in [Worker -> Task \cup {None}] /\ Tasks' = Tasks \ {w}
        /\ \A v \in Tasks \ {w} : worker'[v] = worker[v]
    BY <1>1, <2>1 DEF Tasks
  <2>3. CASE worker[w].request = None
    <3>1. http' = http
      BY <1>7, <2>3 DEF MediaExits
    <3>2. TaskInv'
      BY <2>2, <3>1 DEF HttpInv, TaskInv
    <3>3. HeldUnits' = HeldUnits /\ Holders' = Holders
      BY <3>1 DEF HeldUnits, Holders
    <3>4. RequestInv' /\ BodyInv'
      BY <2>1, <3>1, <3>3 DEF HttpInv, RequestInv, Fits, LimitOf, BodyInv, Units
    <3>5. MediaInv'
      BY <2>1, <2>2, <3>3, TaskEnds DEF HttpInv
    <3> QED BY <3>2, <3>4, <3>5 DEF HttpInv
  <2>4. CASE worker[w].request # None
    <3> DEFINE h == worker[w].request
               r == [http[h] EXCEPT !.pc = "store"]
    <3>1. h \in Http /\ http[h].pc = "process" /\ \A v \in Tasks : worker[v].request = h => v = w
      BY <1>1, <2>1, <2>4 DEF HttpInv, TaskInv, Tasks, Task
    <3>2. http' = [http EXCEPT ![h] = r]
      BY <1>7, <2>4 DEF MediaExits
    <3> HIDE DEF h
    <3>3. /\ r \in Request /\ r.pc = "store" /\ r.units = http[h].units
          /\ r.media = http[h].media /\ r.bytes = http[h].bytes
      BY <1>1, <1>2, <3>1 DEF Request
    <3>4. ~http[h].media /\ Fits(r)
      BY <1>1, <3>1, <3>3 DEF Fits
    <3> HIDE DEF r
    <3>5. RequestInv' /\ http'[h] = r /\ http' \in [Http -> Request]
          /\ \A g \in Http \ {h} : http'[g] = http[g]
      BY <1>3, <3>1, <3>2, <3>3, <3>4
    <3>6. TaskInv'
      BY <1>1, <2>2, <3>1, <3>5 DEF HttpInv, TaskInv, Tasks, Task
    <3>7. BodyInv'
      BY <1>1, <2>1, <3>1, <3>3, <3>5, BodyMoves DEF HttpInv, Request
    <3>8. Holders' = Holders
      BY <3>1, <3>3, <3>4, <3>5 DEF Holders
    <3>9. MediaInv'
      BY <2>1, <2>2, <3>8, TaskEnds DEF HttpInv
    <3> QED BY <3>5, <3>6, <3>7, <3>9 DEF HttpInv
  <2> QED BY <2>3, <2>4
<1>8. ASSUME NEW h \in Http, MediaDeadline(h) PROVE HttpInv'
  <2>1. PICK w \in Worker :
          /\ worker[w] # None /\ worker[w].request = h
          /\ IF worker[w].started
               THEN worker' = Detached(h) /\ mediaFree' = mediaFree
               ELSE worker' = [worker EXCEPT ![w] = None] /\ mediaFree' = mediaFree + 1
    BY <1>8 DEF MediaDeadline
  <2>2. /\ http[h].pc = "process" /\ http' = [http EXCEPT ![h] = NoRequest]
        /\ bodyFree' = bodyFree + http[h].units /\ w \in Tasks
    BY <1>8, <2>1 DEF MediaDeadline, Tasks
  <2>3. /\ RequestInv' /\ http'[h] = NoRequest /\ http' \in [Http -> Request]
        /\ \A g \in Http \ {h} : http'[g] = http[g]
    BY <1>2, <1>3, <2>2
  <2>4. BodyInv'
    <3>1. bodyFree' = (bodyFree + http[h].units) - http'[h].units /\ bodyFree' \in Nat
      BY <1>1, <2>2, <2>3 DEF NoRequest, Request
    <3> QED BY <2>3, <3>1, BodyMoves DEF HttpInv
  <2>5. ~http[h].media /\ ~http'[h].media
    BY <1>1, <2>2, <2>3 DEF Fits, NoRequest
  <2>6. Holders' = Holders
    BY <2>3, <2>5 DEF Holders
  <2>7. CASE worker[w].started
    <3>1. TaskInv' /\ Tasks' = Tasks
      BY <2>1, <2>3, <2>7, Detaching DEF HttpInv
    <3>2. MediaInv'
      BY <2>1, <2>6, <2>7, <3>1 DEF HttpInv, MediaInv
    <3> QED BY <2>3, <2>4, <3>1, <3>2 DEF HttpInv
  <2>8. CASE ~worker[w].started
    <3>1. /\ worker' \in [Worker -> Task \cup {None}] /\ Tasks' = Tasks \ {w}
          /\ \A v \in Tasks \ {w} : worker'[v] = worker[v]
      BY <1>1, <2>1, <2>8 DEF Tasks
    <3>2. h # None /\ \A v \in Tasks \ {w} : worker[v].request # h
      BY <2>1, <2>2, LimitsAssumption DEF HttpInv, TaskInv
    <3>3. TaskInv'
      BY <1>1, <2>3, <3>1, <3>2 DEF HttpInv, TaskInv, Tasks, Task
    <3>4. MediaInv'
      BY <2>1, <2>2, <2>6, <2>8, <3>1, TaskEnds DEF HttpInv
    <3> QED BY <2>3, <2>4, <3>3, <3>4 DEF HttpInv
  <2> QED BY <2>7, <2>8
<1> QED BY <1>4, <1>5, <1>6, <1>7, <1>8

-----------------------------------------------------------------------------
(* Streams.                                                                *)

Open(r) == IF r.pc # "idle" THEN 1 ELSE 0

StreamStep ==
    \E s \in Stream :
      \/ AcceptStream(s) \/ ReadHeader(s) \/ PreflightMutation(s) \/ PreflightUpload(s) \/ ReadStreamBody(s) \/ Dispatch(s)
      \/ Respond(s) \/ StreamLeaves(s) \/ StreamTimeout(s)

\* Permits of streams and units of the iroh budget follow the one stream that moves.
LEMMA StreamMoves ==
  ASSUME StreamInv, IrohInv, stream' \in [Stream -> StreamRec],
         NEW s \in Stream, \A t \in Stream \ {s} : stream'[t] = stream[t],
         streamFree' = (streamFree + Open(stream[s])) - Open(stream'[s]),
         streamFree' \in Nat,
         irohFree' = (irohFree + stream[s].units) - stream'[s].units, irohFree' \in Nat
  PROVE  IrohInv'
<1>1. /\ StreamUnits \in [Stream -> Nat] /\ stream[s].units \in Nat /\ stream'[s].units \in Nat
      /\ IrohBudget \in Nat /\ StreamPermits \in Nat
  BY LimitsAssumption DEF StreamInv, StreamUnits, StreamRec
<1>2. StreamUnits' = [StreamUnits EXCEPT ![s] = stream'[s].units] /\ StreamUnits[s] = stream[s].units
  BY DEF StreamUnits
<1> DEFINE g == [StreamUnits EXCEPT ![s] = stream'[s].units]
<1>3. /\ IsFiniteSet(Units(g)) /\ Cardinality(Units(g)) \in Nat /\ Cardinality(Units(StreamUnits)) \in Nat
      /\ Cardinality(Units(g)) = (Cardinality(Units(StreamUnits)) - StreamUnits[s]) + stream'[s].units
  <2>1. IsFiniteSet(Units(StreamUnits)) /\ StreamUnits \in [Stream -> Nat] /\ stream'[s].units \in Nat
    BY <1>1 DEF IrohInv
  <2> QED BY ONLY <2>1, s \in Stream, UnitsChange, Zenon
<1> HIDE DEF g
<1>4. Units(StreamUnits)' = Units(g)
  BY <1>2 DEF Units, g
<1>5. irohFree' + Cardinality(Units(StreamUnits)') = IrohBudget /\ IsFiniteSet(Units(StreamUnits)')
  BY <1>1, <1>2, <1>3, <1>4 DEF IrohInv
<1> DEFINE n == Cardinality(Streaming)
<1>6. /\ IsFiniteSet(Streaming) /\ IsFiniteSet(Streaming \cup {s}) /\ IsFiniteSet(Streaming \ {s})
      /\ n \in Nat
      /\ s \notin Streaming => Cardinality(Streaming \cup {s}) = n + 1
      /\ s \in Streaming => Cardinality(Streaming \ {s}) = n - 1
  BY PermitsChange DEF IrohInv
<1>7. IsFiniteSet(Streaming') /\ streamFree' + Cardinality(Streaming') = StreamPermits
  <2>1. streamFree \in Nat /\ streamFree + n = StreamPermits
    BY DEF IrohInv
  <2>2. CASE stream[s].pc # "idle" /\ stream'[s].pc # "idle"
    <3>1. Streaming' = Streaming /\ streamFree' = (streamFree + 1) - 1
      BY <2>2 DEF Streaming, Open
    <3>2. streamFree' = streamFree
      BY <2>1, <3>1
    <3> QED BY <1>6, <2>1, <3>1, <3>2
  <2>3. CASE stream[s].pc # "idle" /\ stream'[s].pc = "idle"
    <3>1. Streaming' = Streaming \ {s} /\ s \in Streaming /\ streamFree' = (streamFree + 1) - 0
      BY <2>3 DEF Streaming, Open
    <3>2. IsFiniteSet(Streaming') /\ Cardinality(Streaming') = n - 1
      BY <1>6, <3>1
    <3> QED BY <1>1, <1>6, <2>1, <3>1, <3>2
  <2>4. CASE stream[s].pc = "idle" /\ stream'[s].pc # "idle"
    <3>1. Streaming' = Streaming \cup {s} /\ s \notin Streaming /\ streamFree' = (streamFree + 0) - 1
      BY <2>4 DEF Streaming, Open
    <3>2. IsFiniteSet(Streaming') /\ Cardinality(Streaming') = n + 1
      BY <1>6, <3>1
    <3> QED BY <1>1, <1>6, <2>1, <3>1, <3>2
  <2>5. CASE stream[s].pc = "idle" /\ stream'[s].pc = "idle"
    <3>1. Streaming' = Streaming /\ streamFree' = (streamFree + 0) - 0
      BY <2>5 DEF Streaming, Open
    <3> QED BY <1>6, <2>1, <3>1
  <2> QED BY <2>2, <2>3, <2>4, <2>5
<1> QED BY <1>5, <1>7 DEF IrohInv

LEMMA StreamSteps ==
  ASSUME StreamInv, IrohInv, StreamStep
  PROVE  StreamInv' /\ IrohInv'
<1>1. PICK s \in Stream :
        \/ AcceptStream(s) \/ ReadHeader(s) \/ PreflightMutation(s) \/ PreflightUpload(s) \/ ReadStreamBody(s) \/ Dispatch(s)
        \/ Respond(s) \/ StreamLeaves(s) \/ StreamTimeout(s)
  BY DEF StreamStep
<1>2. /\ stream \in [Stream -> StreamRec] /\ stream[s] \in StreamRec /\ stream[s].units \in Nat
      /\ streamFree \in Nat /\ irohFree \in Nat /\ IrohBudget \in Nat /\ None \notin Stream
  BY LimitsAssumption DEF StreamInv, IrohInv, StreamRec
<1>3. ASSUME NEW p \in StreamPcs \ {"idle"}, stream' = [stream EXCEPT ![s].pc = p],
             stream[s].pc # "idle", UNCHANGED <<streamFree, irohFree>>
      PROVE  /\ stream' \in [Stream -> StreamRec] /\ stream'[s].pc = p /\ stream'[s].units = stream[s].units
             /\ \A t \in Stream \ {s} : stream'[t] = stream[t]
             /\ IrohInv'
  <2>1. /\ stream' \in [Stream -> StreamRec] /\ stream'[s].pc = p /\ stream'[s].units = stream[s].units
        /\ \A t \in Stream \ {s} : stream'[t] = stream[t]
    BY <1>2, <1>3 DEF StreamRec
  <2>2. /\ streamFree' = (streamFree + Open(stream[s])) - Open(stream'[s])
        /\ irohFree' = (irohFree + stream[s].units) - stream'[s].units
    BY <1>2, <1>3, <2>1 DEF Open
  <2> QED BY <1>2, <1>3, <2>1, <2>2, StreamMoves
<1>4. ASSUME stream[s].pc # "idle", FinishStream(s) PROVE StreamInv' /\ IrohInv'
  <2>1. /\ stream' \in [Stream -> StreamRec] /\ stream'[s].pc = "idle" /\ stream'[s].units = 0
        /\ \A t \in Stream \ {s} : stream'[t] = stream[t]
    BY <1>2, <1>4 DEF FinishStream, NoStream, StreamPcs, StreamRec
  <2>2. /\ streamFree' = (streamFree + Open(stream[s])) - Open(stream'[s])
        /\ irohFree' = (irohFree + stream[s].units) - stream'[s].units
        /\ streamFree' \in Nat /\ irohFree' \in Nat
    BY <1>2, <1>4, <2>1 DEF FinishStream, Open
  <2>3. IrohInv'
    BY <2>1, <2>2, StreamMoves
  <2>4. StreamInv'
    BY <1>2, <1>4, <2>1 DEF FinishStream, StreamInv
  <2> QED BY <2>3, <2>4
<1>5. CASE AcceptStream(s)
  <2>0. stream[s].pc = "idle" /\ stream[s].units = 0 /\ stream' = [stream EXCEPT ![s].pc = "header"]
    BY <1>5 DEF AcceptStream, NoStream
  <2>1. /\ stream' \in [Stream -> StreamRec] /\ stream'[s].pc = "header" /\ stream'[s].units = 0
        /\ \A t \in Stream \ {s} : stream'[t] = stream[t]
    BY <1>2, <2>0 DEF StreamPcs, StreamRec
  <2>2. /\ streamFree' = (streamFree + Open(stream[s])) - Open(stream'[s])
        /\ irohFree' = (irohFree + stream[s].units) - stream'[s].units
        /\ streamFree' \in Nat /\ irohFree' \in Nat
    BY <1>2, <1>5, <2>0, <2>1 DEF AcceptStream, Open
  <2>3. IrohInv'
    BY <2>1, <2>2, StreamMoves
  <2>4. StreamInv'
    BY <1>2, <1>5, <2>0, <2>1 DEF AcceptStream, StreamInv
  <2> QED BY <2>3, <2>4
<1>6. CASE ReadHeader(s)
  <2>1. PICK p \in {"dispatch", "preflight", "upload"} : stream' = [stream EXCEPT ![s].pc = p]
    BY <1>6 DEF ReadHeader
  <2>2. p \in StreamPcs \ {"idle"} /\ stream[s].pc = "header" /\ UNCHANGED <<mutex, streamFree, irohFree>>
    BY <1>6 DEF ReadHeader, StreamPcs
  <2>3. StreamInv'
    BY <1>2, <1>3, <2>1, <2>2 DEF StreamInv
  <2> QED BY <1>3, <2>1, <2>2, <2>3
<1>7. CASE PreflightMutation(s) \/ ReadStreamBody(s)
  <2>1. /\ stream[s].pc \in {"preflight", "body"} /\ stream' = [stream EXCEPT ![s].pc = "dispatch"]
        /\ "dispatch" \in StreamPcs \ {"idle"} /\ UNCHANGED <<mutex, streamFree, irohFree>>
    BY <1>7 DEF PreflightMutation, ReadStreamBody, StreamPcs
  <2>2. StreamInv'
    BY <1>2, <1>3, <2>1 DEF StreamInv
  <2> QED BY <1>3, <2>1, <2>2
<1>8. CASE Dispatch(s)
  <2>1. /\ stream[s].pc = "dispatch" /\ stream' = [stream EXCEPT ![s].pc = "respond"]
        /\ "respond" \in StreamPcs \ {"idle"} /\ mutex = None /\ mutex' = s /\ UNCHANGED <<streamFree, irohFree>>
    BY <1>8 DEF Dispatch, StreamPcs
  <2>2. StreamInv'
    BY <1>2, <1>3, <2>1 DEF StreamInv
  <2> QED BY <1>3, <2>1, <2>2
<1>9. CASE PreflightUpload(s)
  <2>1. PICK n \in 1..IrohMax : /\ n <= irohFree /\ irohFree' = irohFree - n
                                /\ stream' = [stream EXCEPT ![s].pc = "body", ![s].units = n]
    BY <1>9 DEF PreflightUpload
  <2>2. stream[s].pc = "upload" /\ stream[s].units = 0 /\ UNCHANGED <<mutex, streamFree>>
    BY <1>9 DEF PreflightUpload, StreamInv
  <2>3. n \in 0..IrohBudget
    <3>1. Cardinality(Units(StreamUnits)) \in Nat
      BY FS_CardinalityType DEF IrohInv
    <3> QED BY <1>2, <2>1, <3>1 DEF IrohInv
  <2>4. /\ stream' \in [Stream -> StreamRec] /\ stream'[s].pc = "body" /\ stream'[s].units = n
        /\ \A t \in Stream \ {s} : stream'[t] = stream[t]
    BY <1>2, <2>1, <2>3 DEF StreamPcs, StreamRec
  <2>5. /\ streamFree' = (streamFree + Open(stream[s])) - Open(stream'[s])
        /\ irohFree' = (irohFree + stream[s].units) - stream'[s].units
        /\ streamFree' \in Nat /\ irohFree' \in Nat
    BY <1>2, <2>1, <2>2, <2>3, <2>4 DEF Open
  <2>6. IrohInv'
    BY <2>4, <2>5, StreamMoves
  <2>7. StreamInv'
    BY <1>2, <2>2, <2>4 DEF StreamInv
  <2> QED BY <2>6, <2>7
<1>10. CASE Respond(s) \/ StreamLeaves(s) \/ StreamTimeout(s)
  BY <1>4, <1>10 DEF Respond, StreamLeaves, StreamTimeout
<1> QED BY <1>1, <1>5, <1>6, <1>7, <1>8, <1>9, <1>10

-----------------------------------------------------------------------------
(* The theorems.                                                           *)

Inv == HttpInv /\ StreamInv /\ IrohInv

LEMMA Invariant == Spec => []Inv
<1>1. Init => Inv
  <2> SUFFICES ASSUME Init PROVE Inv
    OBVIOUS
  <2>1. NoRequest \in Request /\ Fits(NoRequest) /\ NoStream \in StreamRec
    BY LimitsAssumption DEF Request, NoRequest, HttpPcs, Routes, Fits, NoStream, StreamRec, StreamPcs
  <2>2. /\ Tasks = {} /\ Holders = {} /\ Units(HeldUnits) = {}
        /\ Streaming = {} /\ Units(StreamUnits) = {}
    BY DEF Init, Tasks, Holders, HeldUnits, Streaming, StreamUnits, Units, NoRequest, NoStream
  <2>3. IsFiniteSet({}) /\ Cardinality({}) = 0
    BY FS_EmptySet
  <2>4. RequestInv
    BY <2>1 DEF Init, RequestInv
  <2>5. TaskInv
    BY <2>2 DEF Init, TaskInv
  <2>6. BodyInv /\ MediaInv
    BY <2>2, <2>3, LimitsAssumption DEF Init, BodyInv, MediaInv
  <2>7. StreamInv
    BY <2>1, LimitsAssumption DEF Init, StreamInv, NoStream
  <2>8. IrohInv
    BY <2>2, <2>3, LimitsAssumption DEF Init, IrohInv
  <2> QED BY <2>4, <2>5, <2>6, <2>7, <2>8 DEF Inv, HttpInv
<1>2. Inv /\ [Next]_vars => Inv'
  <2> SUFFICES ASSUME Inv, [Next]_vars PROVE Inv'
    OBVIOUS
  <2>1. ASSUME UNCHANGED <<stream, mutex, streamFree, irohFree>> PROVE StreamInv' /\ IrohInv'
    <3>1. StreamUnits' = StreamUnits /\ Streaming' = Streaming
      BY <2>1 DEF StreamUnits, Streaming
    <3> QED BY <2>1, <3>1 DEF Inv, StreamInv, IrohInv, Units
  <2>2. ASSUME UNCHANGED <<http, worker, bodyFree, mediaFree>> PROVE HttpInv'
    <3>1. HeldUnits' = HeldUnits /\ Holders' = Holders /\ Tasks' = Tasks
      BY <2>2 DEF HeldUnits, Holders, Tasks
    <3>2. RequestInv'
      BY <2>2 DEF Inv, HttpInv, RequestInv, Fits, LimitOf
    <3>3. TaskInv'
      BY <2>2, <3>1 DEF Inv, HttpInv, TaskInv
    <3>4. BodyInv' /\ MediaInv'
      BY <2>2, <3>1 DEF Inv, HttpInv, BodyInv, MediaInv, Units
    <3> QED BY <3>2, <3>3, <3>4 DEF HttpInv
  <2>3. ASSUME NEW h \in Http,
               \/ \E route \in Routes, declared \in 0..BodyLimit : HttpArrives(h, route, declared)
               \/ LockStep(h) \/ ReadBody(h) \/ MirrorFetched(h) \/ MirrorFails(h)
               \/ MediaDeadline(h) \/ HttpLeaves(h)
        PROVE  HttpInv' /\ UNCHANGED <<stream, mutex, streamFree, irohFree>>
    <3>1. HttpInv'
      BY <2>3, RequestSteps, MediaSteps DEF Inv, LockStep
    <3>2. UNCHANGED <<stream, mutex, streamFree, irohFree>>
      BY <2>3 DEF LockStep, HttpArrives, Admit, Refuse, ReadBody, StoreUpload, VerifyMirror, ReserveMirror,
                  MirrorFetched, MirrorFails, SpawnMedia, MediaDeadline, StoreResult, HttpLeaves
    <3> QED BY <3>1, <3>2
  <2>4. ASSUME NEW w \in Worker, MediaStarts(w) \/ MediaExits(w)
        PROVE  HttpInv' /\ UNCHANGED <<stream, mutex, streamFree, irohFree>>
    BY <2>4, MediaSteps DEF Inv, MediaStarts, MediaExits
  <2>5. CASE StreamStep
    <3>1. UNCHANGED <<http, worker, bodyFree, mediaFree>>
      BY <2>5 DEF StreamStep, AcceptStream, ReadHeader, PreflightMutation, PreflightUpload, ReadStreamBody,
                  Dispatch, Respond, StreamLeaves, StreamTimeout, FinishStream
    <3> QED BY <2>2, <2>5, <3>1, StreamSteps DEF Inv
  <2>6. CASE UNCHANGED vars
    BY <2>1, <2>2, <2>6 DEF vars, Inv
  <2> QED BY <2>1, <2>3, <2>4, <2>5, <2>6 DEF Next, StreamStep, Inv
<1> QED BY <1>1, <1>2, PTL DEF Spec

\* Wherever requests, streams and tasks are cut off, no permit is lost or given back
\* twice, for any number of them and any limits.
THEOREM PermitsAreConserved == Spec => []PermitsConserved
<1>1. Inv => PermitsConserved
  BY DEF Inv, HttpInv, BodyInv, MediaInv, StreamInv, IrohInv, PermitsConserved, HeldUnits, Holders,
         Streaming, StreamUnits
<1> QED BY <1>1, Invariant, PTL

\* The bodies in memory fit the budget, and what media tasks hold beyond it is at
\* most one body per permit.
THEOREM MemoryIsBounded == Spec => []MemoryBounded
<1>1. Inv => MemoryBounded
  <2> SUFFICES ASSUME Inv PROVE MemoryBounded
    OBVIOUS
  <2>1. \A h \in Http : http[h].bytes \in Nat /\ http[h].units \in Nat /\ http[h].bytes <= http[h].units
    BY LimitsAssumption DEF Inv, HttpInv, RequestInv, Request, Fits
  <2>2. Cardinality(Units([h \in Http |-> http[h].bytes])) <= Budget
    <3> DEFINE f == [h \in Http |-> http[h].bytes]
               g == [h \in Http |-> http[h].units]
    <3>1. f \in [Http -> Nat] /\ g \in [Http -> Nat] /\ \A h \in Http : f[h] <= g[h]
      BY <2>1
    <3>2. IsFiniteSet(Units(g)) /\ bodyFree \in Nat /\ bodyFree + Cardinality(Units(g)) = Budget
      BY DEF Inv, HttpInv, BodyInv, HeldUnits
    <3> HIDE DEF f, g
    <3>3. IsFiniteSet(Units(f)) /\ Cardinality(Units(f)) <= Cardinality(Units(g))
      BY ONLY <3>1, <3>2, UnitsOrdered, Zenon
    <3>4. Cardinality(Units(f)) \in Nat /\ Cardinality(Units(g)) \in Nat
      BY <3>2, <3>3, FS_CardinalityType
    <3>5. Cardinality(Units(f)) <= Budget
      BY <3>2, <3>3, <3>4
    <3> QED BY <3>5 DEF f
  <2>3. Cardinality(Units([w \in Tasks |-> worker[w].bytes])) <= MediaPermits * BodyLimit
    <3> DEFINE f == [w \in Tasks |-> worker[w].bytes]
    <3>1. \A w \in Tasks : f[w] \in Nat /\ f[w] <= BodyLimit
      BY DEF Inv, HttpInv, TaskInv, Tasks, Task
    <3>2. Units(f) \in SUBSET (Tasks \X (1..BodyLimit))
      BY <3>1, LimitsAssumption DEF Units
    <3> HIDE DEF f
    <3>3. BodyLimit \in Nat /\ IsFiniteSet(1..BodyLimit) /\ Cardinality(1..BodyLimit) = BodyLimit
      BY LimitsAssumption, FS_Interval
    <3>4. /\ IsFiniteSet(Tasks) /\ Cardinality(Tasks) \in Nat
          /\ mediaFree \in Nat /\ IsFiniteSet(Holders) /\ Cardinality(Holders) \in Nat
          /\ mediaFree + Cardinality(Tasks) + Cardinality(Holders) = MediaPermits
      BY FS_CardinalityType DEF Inv, HttpInv, MediaInv
    <3>5. /\ IsFiniteSet(Tasks \X (1..BodyLimit))
          /\ Cardinality(Tasks \X (1..BodyLimit)) = Cardinality(Tasks) * BodyLimit
      BY <3>3, <3>4, FS_Product
    <3>6. Cardinality(Units(f)) <= Cardinality(Tasks) * BodyLimit /\ Cardinality(Units(f)) \in Nat
      BY <3>2, <3>5, FS_Subset, FS_CardinalityType
    <3>7. Cardinality(Tasks) <= MediaPermits /\ MediaPermits \in Nat
      BY <3>4, LimitsAssumption
    <3>8. Cardinality(Tasks) * BodyLimit <= MediaPermits * BodyLimit
      BY <3>3, <3>4, <3>7
    <3>9. Cardinality(Units(f)) <= MediaPermits * BodyLimit
      BY <3>3, <3>4, <3>6, <3>7, <3>8
    <3> QED BY <3>9 DEF f
  <2> QED BY <2>1, <2>2, <2>3 DEF MemoryBounded
<1> QED BY <1>1, Invariant, PTL
=============================================================================
