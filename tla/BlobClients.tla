---------------------------- MODULE BlobClients ----------------------------
(***************************************************************************)
(* The client side: the HTTP client that walks a list of servers, the iroh *)
(* client that speaks to one peer, the client that routes every operation  *)
(* over the two of them, and the batch upload with its semaphore. All      *)
(* calls are about one blob, so that an upload, a delete and a download of *)
(* it interleave.                                                          *)
(*                                                                         *)
(* One attempt is one step: the server acts on the request (or never sees  *)
(* it) and the client reads the answer (or an error). A request or an      *)
(* answer may be lost, and an answer may be unusable; between two attempts *)
(* of a call the other calls, and other users of the servers, move.        *)
(***************************************************************************)
EXTENDS Integers, Sequences, Functions, FiniteSets

CONSTANTS
    HttpServers,    \* BlossomClient.servers, in order
    Peer,           \* IrohBlossomClient's peer (iroh_addr)
    Clients,        \* the configurations of MultiTransportClient
    Task,           \* concurrent calls of the application
    MaxConcurrent,  \* permits of upload_batch_concurrent
    MaxOthers       \* bound: what other users of the servers do

Target == Range(HttpServers) \cup {Peer}
Transport == {"Http", "Iroh"}
Op == {"upload", "upload_lfs", "upload_file", "download", "exists", "delete", "list"}
Uploads == {"upload", "upload_lfs", "upload_file"}

ASSUME ClientsAssumption ==
    /\ HttpServers \in Seq(Range(HttpServers)) /\ HttpServers # <<>>
    /\ Peer \notin Range(HttpServers)
    /\ Clients \subseteq [iroh : BOOLEAN, up : Transport, down : Transport]
    /\ MaxConcurrent \in Nat \ {0} /\ MaxOthers \in Nat

VARIABLES
    client,   \* the configuration, fixed by the builder
    held,     \* what each server holds: nothing, the blob, or damaged bytes
    call,     \* the state of every call
    permits,  \* the batch's semaphore
    others    \* steps of other users so far

vars == <<client, held, call, permits, others>>

Held == {"absent", "good", "bad"}
Result == {"none", "err", "true", "false", "data", "damaged", "descriptor"}

\* A call: where it stands, the transports it may still use (the current one
\* first), the servers left on the current one, its result, and (history)
\* whom it asked and whether somebody's success could not be used.
Call == [st : {"idle", "queued", "running", "done"}, op : Op, batch : BOOLEAN,
         route : Seq(Transport), left : Seq(Target), res : Result,
         asked : SUBSET Target, unusable : BOOLEAN]
Idle == [st |-> "idle", op |-> "list", batch |-> FALSE, route |-> <<>>, left |-> <<>>,
         res |-> "none", asked |-> {}, unusable |-> FALSE]

----------------------------------------------------------------------------
(* Routing: the transports an operation goes through while each fails.     *)

RouteUpload == IF client.up = "Iroh" /\ client.iroh THEN <<"Iroh", "Http">>
               ELSE IF client.up = "Http" /\ client.iroh THEN <<"Http", "Iroh">> ELSE <<"Http">>

\* After HTTP and then iroh failed, HTTP is asked a second time.
RouteDownload == CASE ~client.iroh -> <<"Http">>
                   [] client.iroh /\ client.down = "Iroh" -> <<"Iroh">>
                   [] OTHER -> <<"Http", "Iroh", "Http">>

RouteExists == IF client.down = "Iroh" /\ client.iroh THEN <<"Iroh", "Http">>
               ELSE IF client.down = "Http" /\ client.iroh THEN <<"Http", "Iroh">> ELSE <<"Http">>

\* The fallback taken only when there is no first choice.
RouteDeleteNoFallback == IF client.iroh THEN <<"Iroh">> ELSE <<"Http">>
RouteDelete == IF client.iroh THEN <<"Iroh", "Http">> ELSE <<"Http">>
RouteList == <<"Http">>

Route(op) == CASE op \in Uploads -> RouteUpload [] op = "download" -> RouteDownload
               [] op = "exists" -> RouteExists [] op = "delete" -> RouteDelete
               [] op = "list" -> RouteList

\* The servers of one transport.
Servers(tr) == IF tr = "Http" THEN HttpServers ELSE <<Peer>>

----------------------------------------------------------------------------
(* The server's side of an attempt.                                        *)

\* What the request may do to the server that executes it. Storing is
\* insert-if-absent, and a delete leaves a blob that has other owners.
Effects(op, h) == CASE op \in Uploads /\ h = "absent" -> {"good"}
                    [] op = "delete" -> {"absent", h}
                    [] OTHER -> {h}

\* The answer of a server that executes the request.
Reply(op, h) == IF op \in {"download", "exists", "delete"} /\ h = "absent"
                THEN "notfound" ELSE "ok"

\* The outcomes of an attempt: what the server holds afterwards and what the
\* client gets. A request may be lost or refused, an answer lost, and the body
\* of a success may be cut short or name another blob. HEAD and DELETE have no body.
Outcomes(op, h) ==
    {[after |-> h, answer |-> a] : a \in {"error", "refused"}}
    \cup [after : Effects(op, h), answer : {"error", Reply(op, h)}]
    \cup IF op \notin {"exists", "delete"} /\ Reply(op, h) = "ok"
         THEN [after : Effects(op, h), answer : {"unusable"}] ELSE {}

----------------------------------------------------------------------------
(* What the client makes of an answer: a result, "err" (this transport has *)
(* failed) or "next" (the next server of this transport).                  *)

\* The value of a success; a damaged download is caught by its hash.
UnverifiedValue(op, h) == CASE op \in Uploads \cup {"list"} -> "descriptor"
                            [] op \in {"exists", "delete"} -> "true"
                            [] op = "download" -> IF h = "good" THEN "data" ELSE "damaged"
Value(op, h) == CASE op \in Uploads \cup {"list"} -> "descriptor"
                  [] op \in {"exists", "delete"} -> "true"
                  [] op = "download" -> IF h = "good" THEN "data" ELSE "err"

\* HTTP: an unusable success ends the transport, any other failure moves on;
\* a delete stops at the first 404.
OnHttp(op, answer, h) ==
    CASE answer = "ok" -> Value(op, h)
      [] answer = "unusable" -> "err"
      [] answer = "notfound" /\ op = "delete" -> "false"
      [] OTHER -> "next"

\* iroh: one peer; an exists or delete answered with any other status than Ok
\* is Ok(false).
OnIroh(op, answer, h) ==
    CASE answer = "ok" -> Value(op, h)
      [] answer \in {"notfound", "refused"} /\ op \in {"exists", "delete"} -> "false"
      [] OTHER -> "err"

\* HTTP's answer when no server is left: exists alone does not fail.
Exhausted(op) == IF op = "exists" THEN "false" ELSE "err"

\* The verdict on the current transport, "next" if it has another server.
Verdict(c, answer, h) ==
    LET v == IF Head(c.route) = "Http" THEN OnHttp(c.op, answer, h) ELSE OnIroh(c.op, answer, h)
    IN  IF v = "next" /\ Len(c.left) = 1 THEN Exhausted(c.op) ELSE v

\* The next server, the next transport, or the end of the call.
Continue(c, v) ==
    CASE v = "next" -> [c EXCEPT !.left = Tail(c.left)]
      [] v = "err" /\ Len(c.route) > 1 ->
            [c EXCEPT !.route = Tail(c.route), !.left = Servers(c.route[2])]
      [] OTHER -> [c EXCEPT !.st = "done", !.res = v]

----------------------------------------------------------------------------
Init ==
    /\ client \in Clients
    /\ held \in [Target -> {"absent", "good"}]
    /\ call = [t \in Task |-> Idle]
    /\ permits = MaxConcurrent
    /\ others = 0

Begun(op, batch) == [Idle EXCEPT !.st = "running", !.op = op, !.batch = batch,
                                 !.route = Route(op), !.left = Servers(Head(Route(op)))]

\* The application calls an operation of the client.
Invoke(t, op) ==
    /\ call[t].st = "idle"
    /\ call' = [call EXCEPT ![t] = Begun(op, FALSE)]
    /\ UNCHANGED <<client, held, permits, others>>

\* upload_batch_concurrent spawns a task per file, which waits for a permit.
Spawn(t) ==
    /\ call[t].st = "idle"
    /\ call' = [call EXCEPT ![t] = [Idle EXCEPT !.st = "queued", !.op = "upload_file", !.batch = TRUE]]
    /\ UNCHANGED <<client, held, permits, others>>

Acquire(t) ==
    /\ call[t].st = "queued" /\ permits > 0
    /\ permits' = permits - 1
    /\ call' = [call EXCEPT ![t] = Begun("upload_file", TRUE)]
    /\ UNCHANGED <<client, held, others>>

\* Permits given back: never (a mutant); at the end of a batch task.
ReleasedNever(c, next) == 0
Released(c, next) == IF c.batch /\ next.st = "done" THEN 1 ELSE 0

\* One request to the next server, and what the client does with the answer;
\* the permit of a batch task is dropped when its upload has ended.
Attempt(t) ==
    /\ call[t].st = "running"
    /\ LET c == call[t] target == Head(c.left) h == held[target] IN
       \E o \in Outcomes(c.op, h) :
          LET tried == [c EXCEPT !.asked = @ \cup {target},
                                 !.unusable = @ \/ o.answer = "unusable"
                                                \/ (c.op = "download" /\ o.answer = "ok" /\ h = "bad")]
              next == Continue(tried, Verdict(c, o.answer, h))
          IN  /\ held' = [held EXCEPT ![target] = o.after]
              /\ call' = [call EXCEPT ![t] = next]
              /\ permits' = permits + Released(c, next)
              /\ UNCHANGED <<client, others>>

\* Other users of a server store or delete the blob, or its bytes are damaged.
Others(target) ==
    /\ others < MaxOthers
    /\ \E h \in Held \ {held[target]} :
          /\ held[target] = "absent" => h = "good"
          /\ held[target] = "bad" => h = "absent"
          /\ held' = [held EXCEPT ![target] = h]
    /\ others' = others + 1
    /\ UNCHANGED <<client, call, permits>>

Next == \/ \E t \in Task : \/ \E op \in Op : Invoke(t, op)
                           \/ Spawn(t) \/ Acquire(t) \/ Attempt(t)
        \/ \E target \in Target : Others(target)

\* A request is answered, refused or timed out (reqwest's 30 seconds, the
\* server's stream timeout and the idle timeout of QUIC), and a permit that is
\* free goes to a waiting task.
Spec == Init /\ [][Next]_vars /\ \A t \in Task : WF_vars(Attempt(t)) /\ WF_vars(Acquire(t))

----------------------------------------------------------------------------
(* Properties.                                                             *)

\* The state has its type.
TypeOK ==
    /\ client \in Clients
    /\ held \in [Target -> Held]
    /\ call \in [Task -> Call]
    /\ permits \in 0..MaxConcurrent /\ others \in 0..MaxOthers

\* A call that ends with a success says the truth about the server it asked
\* last, whichever servers and transports failed before it and whatever was
\* lost on the way: an uploaded blob is held there, a download has the right
\* bytes, and what exists or was deleted was there.
SuccessIsTrue ==
    [][\A t \in Task : call[t].st = "running" /\ call'[t].st = "done" =>
        LET c == call[t] last == Head(c.left) res == call'[t].res IN
            /\ res # "damaged"
            /\ res = "data" => held[last] = "good"
            /\ res = "true" => held[last] # "absent"
            /\ res = "descriptor" /\ c.op \in Uploads => held'[last] # "absent"]_vars

\* An upload or a delete that fails was offered to every HTTP server and, if
\* there is one, to the peer, unless a server reported a success that could not
\* be used. A download falls back likewise, except that a client that prefers
\* iroh for downloads asks the peer only.
FailureIsExhaustive ==
    \A t \in Task :
        LET c == call[t]
            all == Range(HttpServers) \cup (IF client.iroh THEN {Peer} ELSE {})
            peerOnly == c.op = "download" /\ client.iroh /\ client.down = "Iroh"
        IN  (c.st = "done" /\ c.res = "err" /\ c.op # "list") =>
                \/ c.unusable
                \/ c.asked = IF peerOnly THEN {Peer} ELSE all

\* Every call ends: no answer, and no order of answers, makes the fallbacks
\* chase each other, and every task of a batch gets its permit.
EveryCallReturns ==
    \A t \in Task : (call[t].st \in {"queued", "running"}) ~> (call[t].st = "done")
=============================================================================
