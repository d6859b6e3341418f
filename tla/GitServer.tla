------------------------------ MODULE GitServer ------------------------------
(***************************************************************************)
(* The GRASP git server, for one repository: pushes, fetches and ref       *)
(* advertisements over HTTP.  A push or fetch holds the one body permit    *)
(* from its body to its answer; the first push creates the repository with *)
(* git init; once the repository has branches a push is checked against    *)
(* the announcement and the newest state event in the relay's database;    *)
(* git receive-pack then moves the refs one by one.  Authorization is in   *)
(* ReplayCache.                                                            *)
(***************************************************************************)
EXTENDS Naturals, FiniteSets

CONSTANTS
    Author,       \* keys that publish events
    Owner,        \* the owner of the repository
    Branch, Tag,  \* refs under refs/heads and under refs/tags
    Oid,          \* object ids
    Client,       \* pushes and fetches in progress at one time
    Visitor,      \* ref advertisements in progress at one time
    GitProcesses, \* git processes at one time (8)
    Updates,      \* the ref updates of a push: functions to <<old, new>>
    StateRefs,    \* what a state event may declare: [Ref -> Oid or Null]
    Maintainers,  \* what an announcement may declare: sets of authors
    MaxCreatedAt, \* bound on the timestamps of state events
    Null          \* the null oid; also: no event, no permit

Ref == Branch \cup Tag
\* What a push may ask for: <<old, new>> for some of the refs.
RefUpdates == UNION {[D -> (Oid \cup {Null}) \X (Oid \cup {Null})] : D \in SUBSET Ref}

ASSUME GitAssumption ==
    /\ Owner \in Author
    /\ GitProcesses \in Nat \ {0}
    /\ Null \notin Oid /\ Null \notin Client /\ Client \cap Visitor = {}
    /\ Updates \subseteq RefUpdates
    /\ StateRefs \subseteq [Ref -> Oid \cup {Null}]
    /\ Maintainers \subseteq SUBSET Author

VARIABLES
    announcement, \* the maintainers of the owner's announcement, or Null
    states,       \* states[k]: the newest state event of author k, or Null
    declared,     \* every <<ref, oid>> that a state event has declared
    repo,         \* "none", "partial" (git init has written HEAD), "ready"
    inits,        \* clients whose git init runs
    refs,         \* refs[r]: the oid of r, or Null
    packed,       \* refs that git keeps in packed-refs only
    permit,       \* the client that holds GIT_BODY_BUFFER_LIMIT, or Null
    client,       \* client[c]: the request of c
    visit,        \* visit[v]: the ref advertisement of v
    running       \* who has a permit of GIT_PROCESS_LIMIT

gitVars == <<announcement, states, declared, repo, inits, refs, packed, permit,
             client, visit, running>>

Pcs == {"idle", "body", "init", "check", "announcement", "state", "git", "receive", "upload"}
Idle == [pc |-> "idle", updates |-> <<>>, maintainers |-> {}]

GitInit ==
    /\ announcement = Null /\ states = [k \in Author |-> Null] /\ declared = {}
    /\ repo = "none" /\ inits = {}
    /\ refs = [r \in Ref |-> Null] /\ packed = {}
    /\ permit = Null /\ running = {}
    /\ client = [c \in Client |-> Idle]
    /\ visit = [v \in Visitor |-> "idle"]

-----------------------------------------------------------------------------
(* Events that the relay has admitted; it keeps the newest of an author.   *)

StoreAnnouncement(ms) ==
    /\ announcement' = ms
    /\ UNCHANGED <<states, declared, repo, inits, refs, packed, permit, client, visit, running>>

StoreState(k, at, rs) ==
    /\ states[k] # Null => at > states[k].at
    /\ states' = [states EXCEPT ![k] = [at |-> at, refs |-> rs]]
    /\ declared' = declared \cup {<<r, rs[r]>> : r \in {q \in Ref : rs[q] # Null}}
    /\ UNCHANGED <<announcement, repo, inits, refs, packed, permit, client, visit, running>>

-----------------------------------------------------------------------------
(* Requests.                                                               *)

Goto(c, pc) == client' = [client EXCEPT ![c].pc = pc]

\* Every return of the handler, and the end of the connection: the permits are
\* dropped and a git process is killed.  git init is not.
Leave(c) ==
    /\ client' = [client EXCEPT ![c] = Idle]
    /\ permit' = Null
    /\ running' = running \ {c}

\* The event is signed by the owner; its age, URL, method and body hash are the
\* request's own, and that it is used once is ReplayCache's subject.
VerifyPushAuth(k) == k = Owner

\* Mutant: bodies are not limited.
PushArrivesUnlimited(c, k, u) ==
    /\ VerifyPushAuth(k)
    /\ client[c] = Idle /\ c \notin inits
    /\ client' = [client EXCEPT ![c] = [Idle EXCEPT !.pc = "body", !.updates = u]]
    /\ permit' = c
    /\ UNCHANGED <<announcement, states, declared, repo, inits, refs, packed, visit, running>>

\* receive_pack up to its first await: the claims hold, and the permit is free.
PushArrives(c, k, u) ==
    /\ VerifyPushAuth(k)
    /\ client[c] = Idle /\ c \notin inits
    /\ permit = Null
    /\ client' = [client EXCEPT ![c] = [Idle EXCEPT !.pc = "body", !.updates = u]]
    /\ permit' = c
    /\ UNCHANGED <<announcement, states, declared, repo, inits, refs, packed, visit, running>>

\* upload_pack: the repository must exist.
FetchArrives(c) ==
    /\ client[c] = Idle /\ c \notin inits
    /\ repo # "none" /\ permit = Null
    /\ client' = [client EXCEPT ![c].pc = "upload"]
    /\ permit' = c
    /\ UNCHANGED <<announcement, states, declared, repo, inits, refs, packed, visit, running>>

\* The body is complete and its event is spent; create_bare_repo returns early
\* when HEAD exists.
BodyRead(c) ==
    /\ client[c].pc = "body"
    /\ IF repo = "none"
         THEN Goto(c, "init") /\ inits' = inits \cup {c}
         ELSE Goto(c, "check") /\ UNCHANGED inits
    /\ UNCHANGED <<announcement, states, declared, repo, refs, packed, permit, visit, running>>

GitInitHead(c) ==
    /\ c \in inits /\ repo = "none"
    /\ repo' = "partial"
    /\ UNCHANGED <<announcement, states, declared, inits, refs, packed, permit, client, visit, running>>

GitInitDone(c) ==
    /\ c \in inits /\ repo # "none"
    /\ repo' = "ready" /\ inits' = inits \ {c}
    /\ IF client[c].pc = "init" THEN Goto(c, "check") ELSE UNCHANGED client
    /\ UNCHANGED <<announcement, states, declared, refs, packed, permit, visit, running>>

\* Mutant: a failing git init keeps the permit.
GitInitFailsLeaks(c) ==
    /\ c \in inits
    /\ inits' = inits \ {c}
    /\ client' = [client EXCEPT ![c] = Idle]
    /\ UNCHANGED <<announcement, states, declared, repo, refs, packed, visit, permit, running>>

GitInitFails(c) ==
    /\ c \in inits
    /\ inits' = inits \ {c}
    /\ IF client[c].pc = "init" THEN Leave(c) ELSE UNCHANGED <<client, permit, running>>
    /\ UNCHANGED <<announcement, states, declared, repo, refs, packed, visit>>

\* refs/heads is missing or an empty directory: a ref in packed-refs has no file.
IsEmptyRepo == \A r \in Branch : refs[r] = Null \/ r \in packed

\* The updates are parsed, and whether they need validation is decided.
CheckEmpty(c) ==
    /\ client[c].pc = "check"
    /\ Goto(c, IF IsEmptyRepo THEN "git" ELSE "announcement")
    /\ UNCHANGED <<announcement, states, declared, repo, inits, refs, packed, permit, visit, running>>

\* The first query of validate_push.
FindAnnouncement(c) ==
    /\ client[c].pc = "announcement"
    /\ IF announcement = Null THEN Leave(c)
       ELSE /\ client' = [client EXCEPT ![c].pc = "state", ![c].maintainers = announcement]
            /\ UNCHANGED <<permit, running>>
    /\ UNCHANGED <<announcement, states, declared, repo, inits, refs, packed, visit>>

\* Mutant: an update that does not create its ref is not compared.
CheckCreatesOnly(update, expected) ==
    update[1] = Null => expected = Null \/ update[2] = expected

CheckRefUpdate(update, expected) ==
    IF expected # Null THEN update[2] = expected
    ELSE update[2] = Null \/ update[1] = Null

\* The newest state event of the owner and the maintainers.
NewestState(ms) ==
    {states[k] : k \in {a \in ms \cup {Owner} :
        /\ states[a] # Null
        /\ \A b \in ms \cup {Owner} : states[b] # Null => states[b].at <= states[a].at}}

Matches(updates, s) == \A r \in DOMAIN updates : CheckRefUpdate(updates[r], s.refs[r])

\* The second query, and the comparison; one wrong update refuses the push.
FindState(c) ==
    /\ client[c].pc = "state"
    /\ LET found == NewestState(client[c].maintainers) IN
         \/ /\ \E s \in found : Matches(client[c].updates, s)
            /\ Goto(c, "git") /\ UNCHANGED <<permit, running>>
         \/ /\ found = {} \/ \E s \in found : ~Matches(client[c].updates, s)
            /\ Leave(c)
    /\ UNCHANGED <<announcement, states, declared, repo, inits, refs, packed, visit>>

\* run_bounded waits for one of the process permits, in the order of arrival.
StartGit(c) ==
    /\ client[c].pc \in {"git", "upload"}
    /\ c \notin running /\ Cardinality(running) < GitProcesses
    /\ running' = running \cup {c}
    /\ IF client[c].pc = "git" THEN Goto(c, "receive") ELSE UNCHANGED client
    /\ UNCHANGED <<announcement, states, declared, repo, inits, refs, packed, permit, visit>>

\* git receive-pack moves one ref, unless its old oid is not the current one.
ReceiveRef(c, r) ==
    /\ client[c].pc = "receive" /\ repo = "ready"
    /\ r \in DOMAIN client[c].updates
    /\ LET u == client[c].updates[r] IN
         IF refs[r] = u[1]
           THEN refs' = [refs EXCEPT ![r] = u[2]] /\ packed' = packed \ {r}
           ELSE UNCHANGED <<refs, packed>>
    /\ client' = [client EXCEPT ![c].updates = [q \in DOMAIN @ \ {r} |-> @[q]]]
    /\ UNCHANGED <<announcement, states, declared, repo, inits, permit, visit, running>>

\* The git process is done: no ref is left to move, or the repository is no
\* repository yet, or it was a fetch.
GitDone(c) ==
    /\ c \in running
    /\ client[c].pc = "receive" /\ repo = "ready" => client[c].updates = <<>>
    /\ Leave(c)
    /\ UNCHANGED <<announcement, states, declared, repo, inits, refs, packed, visit>>

\* GIT_TIMEOUT kills the process, whatever refs it has moved.
GitTimeout(c) ==
    /\ c \in running
    /\ Leave(c)
    /\ UNCHANGED <<announcement, states, declared, repo, inits, refs, packed, visit>>

\* The handler ends early: the body is too large, is not what the event says or
\* does not parse, the event was used before, or a query fails.  The client may
\* also go away, at any time.
Abort(c) ==
    /\ client[c].pc # "idle"
    /\ Leave(c)
    /\ UNCHANGED <<announcement, states, declared, repo, inits, refs, packed, visit>>

\* info_refs.
InfoRefs(v) ==
    /\ visit[v] = "idle" /\ repo # "none"
    /\ visit' = [visit EXCEPT ![v] = "waiting"]
    /\ UNCHANGED <<announcement, states, declared, repo, inits, refs, packed, permit, client, running>>

AdvertiseRefs(v) ==
    /\ visit[v] = "waiting" /\ Cardinality(running) < GitProcesses
    /\ visit' = [visit EXCEPT ![v] = "git"]
    /\ running' = running \cup {v}
    /\ UNCHANGED <<announcement, states, declared, repo, inits, refs, packed, permit, client>>

AdvertiseDone(v) ==
    /\ visit[v] # "idle"
    /\ visit' = [visit EXCEPT ![v] = "idle"]
    /\ running' = running \ {v}
    /\ UNCHANGED <<announcement, states, declared, repo, inits, refs, packed, permit, client>>

\* git maintenance, which receive-pack starts from time to time, packs the refs.
PackRefs ==
    /\ repo = "ready" /\ packed # {r \in Ref : refs[r] # Null}
    /\ packed' = {r \in Ref : refs[r] # Null}
    /\ UNCHANGED <<announcement, states, declared, repo, inits, refs, permit, client, visit, running>>

\* The server ends with its git processes, and starts again.
GitRestart ==
    /\ inits' = {} /\ permit' = Null /\ running' = {}
    /\ client' = [c \in Client |-> Idle]
    /\ visit' = [v \in Visitor |-> "idle"]
    /\ UNCHANGED <<announcement, states, declared, repo, refs, packed>>

\* Steps of the server and of git.
Progress(c) ==
    \/ GitInitHead(c) \/ GitInitDone(c) \/ GitInitFails(c)
    \/ CheckEmpty(c) \/ FindAnnouncement(c) \/ FindState(c)
    \/ \E r \in Ref : ReceiveRef(c, r)
    \/ GitDone(c) \/ GitTimeout(c)

\* Steps of the client: the body arrives, or the connection ends.
SendOrLeave(c) == client[c].pc = "body" /\ (BodyRead(c) \/ Abort(c))

GitStep ==
    \/ \E c \in Client :
         \/ \E k \in Author, u \in Updates : PushArrives(c, k, u)
         \/ FetchArrives(c) \/ BodyRead(c) \/ StartGit(c) \/ Progress(c) \/ Abort(c)
    \/ \E v \in Visitor : InfoRefs(v) \/ AdvertiseRefs(v) \/ AdvertiseDone(v)
    \/ PackRefs

\* A client sends its body or leaves (the server sets it no time limit), git
\* init ends, any other git process ends within GIT_TIMEOUT, and the process
\* semaphore serves in the order of arrival.
GitFairness ==
    /\ \A c \in Client : /\ WF_gitVars(SendOrLeave(c)) /\ WF_gitVars(Progress(c))
                         /\ SF_gitVars(StartGit(c))
    /\ \A v \in Visitor : WF_gitVars(AdvertiseDone(v))

-----------------------------------------------------------------------------
(* Properties.                                                             *)

GitTypeOK ==
    /\ announcement \in (SUBSET Author) \cup {Null}
    /\ states \in [Author -> [at : 1..MaxCreatedAt, refs : StateRefs] \cup {Null}]
    /\ declared \subseteq Ref \X Oid
    /\ repo \in {"none", "partial", "ready"} /\ inits \subseteq Client
    /\ refs \in [Ref -> Oid \cup {Null}] /\ packed \subseteq {r \in Ref : refs[r] # Null}
    /\ permit \in Client \cup {Null} /\ running \subseteq Client \cup Visitor
    /\ client \in [Client -> [pc : Pcs, updates : RefUpdates, maintainers : SUBSET Author]]
    /\ visit \in [Visitor -> {"idle", "waiting", "git"}]

\* One pack is held in memory at a time, and no more git processes run than the
\* limit, however requests end: every request in progress holds the permit, and
\* every process belongs to a request in progress.
OnePackBuffered ==
    /\ \A c \in Client : client[c].pc # "idle" => permit = c
    /\ Cardinality(running) <= GitProcesses
    /\ \A c \in Client \cap running : client[c].pc \in {"receive", "upload"}

\* When git is about to take a push into a repository that shows a branch, every
\* ref the push moves goes to an oid that some state event has declared for it.
\* Between the check of the push and this moment other requests may not have
\* given the repository its first branch: two first pushes cannot both find it
\* empty, since a push keeps the permit from its check to its last ref.
MovesFollowStateEvents ==
    \A c \in Client : client[c].pc = "git" /\ ~IsEmptyRepo =>
        \A r \in DOMAIN client[c].updates :
            LET u == client[c].updates[r] IN
            Null \in {u[1], u[2]} \/ <<r, u[2]>> \in declared

\* What the comment in receive_pack says: once refs exist, a push that reaches
\* git has been compared with the relay's state.
ValidatedOnceRefsExist ==
    [][ \A c \in Client :
          (client[c].pc = "check" /\ client'[c].pc = "git") => \A r \in Ref : refs[r] = Null ]_gitVars

\* The permit comes back: neither a stuck git nor a queue of ref
\* advertisements keeps every later push and fetch out.
PermitComesBack == permit # Null ~> permit = Null
=============================================================================
