---------------------------- MODULE RequestLimits ----------------------------
(***************************************************************************)
(* What bounds the requests in progress: the byte budget of HTTP bodies    *)
(* and mirror fetches, the permits of media processing, the stream permits *)
(* and the byte budget of the iroh transport, and the one mutex around the *)
(* server state.  A permit is released when the value that holds it is     *)
(* dropped: at the end of the handler, when its future is dropped because  *)
(* the client left or a timeout fired, or when a blocking worker exits.    *)
(***************************************************************************)
EXTENDS Naturals, FiniteSets

CONSTANTS
    Http, Stream, Worker,  \* HTTP requests, iroh streams, blocking tasks at one time
    Budget,                \* BODY_BUFFER_BUDGET, in units of 1 MB
    BodyLimit,             \* body_limit, in units
    MirrorSize,            \* requirements.max_size, what a mirror fetch reserves
    MediaPermits,          \* MEDIA_PROCESS_CONCURRENCY
    StreamPermits,         \* MAX_CONCURRENT_STREAMS
    IrohBudget,            \* MAX_IN_FLIGHT_IROH_BODY_BYTES, in units
    IrohMax,               \* the largest body an iroh upload may announce
    None

ASSUME LimitsAssumption ==
    /\ {Budget, BodyLimit, MirrorSize, MediaPermits, StreamPermits, IrohBudget, IrohMax} \subseteq Nat \ {0}
    /\ None \notin Http /\ None \notin Stream
    /\ None \notin [request : Http \cup {None}, bytes : Nat, started : BOOLEAN]

VARIABLES
    http,        \* http[h]: an HTTP request
    worker,      \* worker[w]: a media task on the blocking pool, or None
    stream,      \* stream[s]: an iroh stream
    mutex,       \* the stream that holds the state mutex over an await, or None
    bodyFree, mediaFree, streamFree, irohFree   \* permits left in the semaphores

vars == <<http, worker, stream, mutex, bodyFree, mediaFree, streamFree, irohFree>>

Routes == {"upload", "mirror", "media"}
HttpPcs == {"idle", "admit", "body", "verify", "reserve", "fetch", "process", "store"}
StreamPcs == {"idle", "header", "preflight", "upload", "body", "dispatch", "respond"}

\* units: permits of the body budget; bytes: what is in memory; media: whether
\* the request itself holds a media permit.
NoRequest == [pc |-> "idle", route |-> "upload", declared |-> 0, units |-> 0, bytes |-> 0,
              media |-> FALSE]
NoStream == [pc |-> "idle", units |-> 0]

Init ==
    /\ http = [h \in Http |-> NoRequest]
    /\ worker = [w \in Worker |-> None]
    /\ stream = [s \in Stream |-> NoStream]
    /\ mutex = None
    /\ bodyFree = Budget /\ mediaFree = MediaPermits
    /\ streamFree = StreamPermits /\ irohFree = IrohBudget

-----------------------------------------------------------------------------
(* HTTP requests that carry a body.                                        *)

\* The request goes, and what it owns with it.  A worker that was spawned for it
\* keeps its permit and its copy of the body.
Finish(h) ==
    /\ http' = [http EXCEPT ![h] = NoRequest]
    /\ bodyFree' = bodyFree + http[h].units
    /\ mediaFree' = IF http[h].media THEN mediaFree + 1 ELSE mediaFree

Detached(h) == [w \in Worker |-> IF worker[w] # None /\ worker[w].request = h
                                   THEN [worker[w] EXCEPT !.request = None] ELSE worker[w]]

\* declared = 0: no Content-Length.
HttpArrives(h, route, declared) ==
    /\ http[h] = NoRequest
    /\ http' = [http EXCEPT ![h].pc = "admit", ![h].route = route, ![h].declared = declared]
    /\ UNCHANGED <<worker, stream, mutex, bodyFree, mediaFree, streamFree, irohFree>>

\* What the route lets a body have: mirror requests are small documents.
LimitOf(route) == IF route = "mirror" THEN 1 ELSE BodyLimit

\* Mutant: a body of unknown length reserves one unit.
ReservationOne(h) == IF http[h].declared = 0 THEN 1 ELSE http[h].declared

Reservation(h) == IF http[h].declared = 0 THEN LimitOf(http[h].route) ELSE http[h].declared

\* The checks under the lock pass; a media upload takes a permit; the body's
\* reservation is taken.  Nothing in between waits.
Admit(h) ==
    /\ http[h].pc = "admit" /\ mutex = None
    /\ LimitOf(http[h].route) <= Budget /\ http[h].declared <= LimitOf(http[h].route)
    /\ bodyFree >= Reservation(h)
    /\ http[h].route = "media" => mediaFree > 0
    /\ bodyFree' = bodyFree - Reservation(h)
    /\ mediaFree' = IF http[h].route = "media" THEN mediaFree - 1 ELSE mediaFree
    /\ http' = [http EXCEPT ![h].pc = "body", ![h].units = Reservation(h),
                            ![h].media = http[h].route = "media"]
    /\ UNCHANGED <<worker, stream, mutex, streamFree, irohFree>>

\* Authorization, the limits or the semaphores say no.
Refuse(h) ==
    /\ http[h].pc = "admit" /\ mutex = None
    /\ Finish(h)
    /\ UNCHANGED <<worker, stream, mutex, streamFree, irohFree>>

\* to_bytes: Content-Length is exact, a chunked body has at most the limit.
ReadBody(h) ==
    /\ http[h].pc = "body"
    /\ \E n \in 1..LimitOf(http[h].route) :
         /\ http[h].declared \in {0, n}
         /\ http' = [http EXCEPT ![h].pc = "verify", ![h].bytes = n, ![h].declared = 0]
    /\ UNCHANGED <<worker, stream, mutex, bodyFree, mediaFree, streamFree, irohFree>>

\* The upload is verified, stored and answered.
StoreUpload(h) ==
    /\ http[h].pc = "verify" /\ http[h].route = "upload" /\ mutex = None
    /\ Finish(h)
    /\ UNCHANGED <<worker, stream, mutex, streamFree, irohFree>>

\* A mirror request is verified and gives its reservation back.  Its document of
\* at most 64 KB stays in memory and is no longer counted.
VerifyMirror(h) ==
    /\ http[h].pc = "verify" /\ http[h].route = "mirror" /\ mutex = None
    /\ http' = [http EXCEPT ![h].pc = "reserve", ![h].units = 0, ![h].bytes = 0]
    /\ bodyFree' = bodyFree + http[h].units
    /\ UNCHANGED <<worker, stream, mutex, mediaFree, streamFree, irohFree>>

\* Under the lock again it learns max_size, and takes a reservation of that size.
ReserveMirror(h) ==
    /\ http[h].pc = "reserve" /\ mutex = None
    /\ IF MirrorSize <= Budget /\ MirrorSize <= bodyFree
         THEN /\ bodyFree' = bodyFree - MirrorSize
              /\ http' = [http EXCEPT ![h].pc = "fetch", ![h].units = MirrorSize]
              /\ UNCHANGED mediaFree
         ELSE Finish(h)
    /\ UNCHANGED <<worker, stream, mutex, streamFree, irohFree>>

\* fetch_mirror_blob stops at max_bytes.
MirrorFetched(h) ==
    /\ http[h].pc = "fetch"
    /\ \E n \in 1..MirrorSize : http' = [http EXCEPT ![h].pc = "store", ![h].bytes = n]
    /\ UNCHANGED <<worker, stream, mutex, bodyFree, mediaFree, streamFree, irohFree>>

\* Each of at most four requests to the source has a deadline of 60 s.
MirrorFails(h) ==
    /\ http[h].pc = "fetch"
    /\ Finish(h)
    /\ UNCHANGED <<worker, stream, mutex, streamFree, irohFree>>

\* A copy of the body and the permit move into the task.
SpawnMedia(h) ==
    /\ http[h].pc = "verify" /\ http[h].route = "media" /\ mutex = None
    /\ \E w \in Worker : worker[w] = None
    /\ worker' = [worker EXCEPT ![CHOOSE w \in Worker : worker[w] = None] =
                     [request |-> h, bytes |-> http[h].bytes, started |-> FALSE]]
    /\ http' = [http EXCEPT ![h].pc = "process", ![h].media = FALSE]
    /\ UNCHANGED <<stream, mutex, bodyFree, mediaFree, streamFree, irohFree>>

MediaStarts(w) ==
    /\ worker[w] # None /\ ~worker[w].started
    /\ worker' = [worker EXCEPT ![w].started = TRUE]
    /\ UNCHANGED <<http, stream, mutex, bodyFree, mediaFree, streamFree, irohFree>>

\* The closure exits, with a result, an error or a panic.
MediaExits(w) ==
    /\ worker[w] # None /\ worker[w].started
    /\ worker' = [worker EXCEPT ![w] = None]
    /\ mediaFree' = mediaFree + 1
    /\ http' = IF worker[w].request = None THEN http
               ELSE [http EXCEPT ![worker[w].request].pc = "store"]
    /\ UNCHANGED <<stream, mutex, bodyFree, streamFree, irohFree>>

\* Mutant: the deadline frees the permit of a task that runs on.
DeadlineFreesPermit(h) ==
    /\ http[h].pc = "process"
    /\ http' = [http EXCEPT ![h] = NoRequest]
    /\ worker' = Detached(h)
    /\ bodyFree' = bodyFree + http[h].units
    /\ mediaFree' = mediaFree + 1
    /\ UNCHANGED <<stream, mutex, streamFree, irohFree>>

\* MEDIA_PROCESS_TIMEOUT: the answer is 408; the abort takes back a task that has
\* not started, and does nothing to one that has.
MediaDeadline(h) ==
    /\ http[h].pc = "process"
    /\ \E w \in Worker :
         /\ worker[w] # None /\ worker[w].request = h
         /\ IF worker[w].started
              THEN worker' = Detached(h) /\ mediaFree' = mediaFree
              ELSE worker' = [worker EXCEPT ![w] = None] /\ mediaFree' = mediaFree + 1
    /\ http' = [http EXCEPT ![h] = NoRequest]
    /\ bodyFree' = bodyFree + http[h].units
    /\ UNCHANGED <<stream, mutex, streamFree, irohFree>>

\* The mirrored or processed blob is stored and answered, or not.
StoreResult(h) ==
    /\ http[h].pc = "store" /\ mutex = None
    /\ Finish(h)
    /\ UNCHANGED <<worker, stream, mutex, streamFree, irohFree>>

\* The client goes away, or the body is refused; the future is dropped where it
\* waits.  A task is not aborted then, even if it has not started.
HttpLeaves(h) ==
    /\ http[h].pc # "idle"
    /\ Finish(h) /\ worker' = Detached(h)
    /\ UNCHANGED <<stream, mutex, streamFree, irohFree>>

-----------------------------------------------------------------------------
(* iroh streams.                                                           *)

FinishStream(s) ==
    /\ stream' = [stream EXCEPT ![s] = NoStream]
    /\ streamFree' = streamFree + 1
    /\ irohFree' = irohFree + stream[s].units
    /\ mutex' = IF mutex = s THEN None ELSE mutex
    /\ UNCHANGED <<http, worker, bodyFree, mediaFree>>

\* Without a permit the stream is dropped.
AcceptStream(s) ==
    /\ stream[s] = NoStream /\ streamFree > 0
    /\ stream' = [stream EXCEPT ![s].pc = "header"]
    /\ streamFree' = streamFree - 1
    /\ UNCHANGED <<http, worker, mutex, bodyFree, mediaFree, irohFree>>

\* The header line is complete; an operation that only reads needs no preflight.
ReadHeader(s) ==
    /\ stream[s].pc = "header"
    /\ \E pc \in {"dispatch", "preflight", "upload"} : stream' = [stream EXCEPT ![s].pc = pc]
    /\ UNCHANGED <<http, worker, mutex, bodyFree, mediaFree, streamFree, irohFree>>

PreflightMutation(s) ==
    /\ stream[s].pc = "preflight" /\ mutex = None
    /\ stream' = [stream EXCEPT ![s].pc = "dispatch"]
    /\ UNCHANGED <<http, worker, mutex, bodyFree, mediaFree, streamFree, irohFree>>

\* After the checks under the lock an upload reserves the n units it announced.
PreflightUpload(s) ==
    /\ stream[s].pc = "upload" /\ mutex = None
    /\ \E n \in 1..IrohMax :
         /\ n <= irohFree
         /\ irohFree' = irohFree - n
         /\ stream' = [stream EXCEPT ![s].pc = "body", ![s].units = n]
    /\ UNCHANGED <<http, worker, mutex, bodyFree, mediaFree, streamFree>>

ReadStreamBody(s) ==
    /\ stream[s].pc = "body"
    /\ stream' = [stream EXCEPT ![s].pc = "dispatch"]
    /\ UNCHANGED <<http, worker, mutex, bodyFree, mediaFree, streamFree, irohFree>>

\* The operation runs under the mutex, which is kept until the peer has taken
\* the answer.
Dispatch(s) ==
    /\ stream[s].pc = "dispatch" /\ mutex = None
    /\ mutex' = s
    /\ stream' = [stream EXCEPT ![s].pc = "respond"]
    /\ UNCHANGED <<http, worker, bodyFree, mediaFree, streamFree, irohFree>>

Respond(s) == stream[s].pc = "respond" /\ FinishStream(s)

\* A refusal, or the peer is gone.
StreamLeaves(s) == stream[s].pc \notin {"idle", "respond"} /\ FinishStream(s)

\* Mutant: the time limit covers reading the request only.
TimeoutBeforeDispatch(s) == stream[s].pc \notin {"idle", "respond"} /\ FinishStream(s)

\* STREAM_TIMEOUT.
StreamTimeout(s) == stream[s].pc # "idle" /\ FinishStream(s)

LockStep(h) ==
    \/ Admit(h) \/ Refuse(h) \/ StoreUpload(h) \/ VerifyMirror(h) \/ ReserveMirror(h)
    \/ SpawnMedia(h) \/ StoreResult(h)

Next ==
    \/ \E h \in Http :
         \/ \E route \in Routes, declared \in 0..BodyLimit : HttpArrives(h, route, declared)
         \/ LockStep(h)
         \/ ReadBody(h) \/ MirrorFetched(h) \/ MirrorFails(h) \/ MediaDeadline(h) \/ HttpLeaves(h)
    \/ \E w \in Worker : MediaStarts(w) \/ MediaExits(w)
    \/ \E s \in Stream :
         \/ AcceptStream(s) \/ ReadHeader(s) \/ PreflightMutation(s) \/ PreflightUpload(s) \/ ReadStreamBody(s) \/ Dispatch(s)
         \/ Respond(s) \/ StreamLeaves(s) \/ StreamTimeout(s)

\* Timers fire, and the mutex serves in the order of arrival.  Nothing is
\* assumed of clients, peers and media processors.
Fairness ==
    /\ \A h \in Http : SF_vars(LockStep(h)) /\ WF_vars(MediaDeadline(h)) /\ WF_vars(MirrorFails(h))
    /\ \A s \in Stream : WF_vars(StreamTimeout(s))

Spec == Init /\ [][Next]_vars /\ Fairness

-----------------------------------------------------------------------------
(* Properties.                                                             *)

TypeOK ==
    /\ http \in [Http -> [pc : HttpPcs, route : Routes, declared : 0..BodyLimit,
                          units : 0..Budget, bytes : Nat, media : BOOLEAN]]
    /\ worker \in [Worker -> [request : Http \cup {None}, bytes : Nat, started : BOOLEAN] \cup {None}]
    /\ stream \in [Stream -> [pc : StreamPcs, units : 0..IrohBudget]]
    /\ mutex \in Stream \cup {None}
    /\ bodyFree \in 0..Budget /\ mediaFree \in 0..MediaPermits
    /\ streamFree \in 0..StreamPermits /\ irohFree \in 0..IrohBudget

\* The units that the members of a set hold, f[x] of them for x.
Units(f) == UNION {{x} \X (1..f[x]) : x \in DOMAIN f}
Tasks == {w \in Worker : worker[w] # None}

\* Wherever requests, streams and tasks are cut off, every permit is either free
\* or held by exactly one of them: nothing is lost and nothing is given back twice,
\* although a mirror swaps its reservation and a media permit changes its owner.
PermitsConserved ==
    /\ bodyFree + Cardinality(Units([h \in Http |-> http[h].units])) = Budget
    /\ mediaFree + Cardinality(Tasks) + Cardinality({h \in Http : http[h].media}) = MediaPermits
    /\ streamFree + Cardinality({s \in Stream : stream[s].pc # "idle"}) = StreamPermits
    /\ irohFree + Cardinality(Units([s \in Stream |-> stream[s].units])) = IrohBudget
    /\ \A s \in Stream : mutex = s <=> stream[s].pc = "respond"

\* The bodies of all requests in progress fit the budget, declared lengths or
\* not, and what media tasks hold beyond it, some of them long after their
\* request was answered, is at most one body per permit.
MemoryBounded ==
    /\ \A h \in Http : http[h].bytes <= http[h].units
    /\ Cardinality(Units([h \in Http |-> http[h].bytes])) <= Budget
    /\ Cardinality(Units([w \in Tasks |-> worker[w].bytes])) <= MediaPermits * BodyLimit

\* Peers that never read their answer hold the server state meanwhile, sources and
\* media processors may never return: still a request is admitted or refused, a
\* request whose body has arrived is answered, and a stream gives up all it holds.
EveryoneIsServed ==
    /\ \A h \in Http : http[h].pc \notin {"idle", "body"} ~> http[h].pc \in {"idle", "body"}
    /\ \A s \in Stream : stream[s].pc # "idle" ~> stream[s].pc = "idle"
=============================================================================
