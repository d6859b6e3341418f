----------------------------- MODULE RelayPolicy -----------------------------
(***************************************************************************)
(* The write policy of the NIP-34 relay: the live lists that every event   *)
(* is checked against, the relay_policy table they are loaded from, the    *)
(* admin endpoints that change both, and the per-address event rate.       *)
(* An endpoint changes the live list first and writes the table after an   *)
(* await, ignoring what the database answers.                              *)
(***************************************************************************)
EXTENDS Naturals, FiniteSets

CONSTANTS
    Key,        \* public keys
    Addr,       \* client addresses
    Kind,       \* event kinds
    AdminReq,   \* admin requests in progress at one time
    Configs,    \* configurations considered
    MaxTracked, \* addresses in event_rates before stale ones are pruned (10 000)
    MaxMinute,  \* bound on the clock
    None

Category == {"admin", "whitelist", "blacklist"}
Entry == Category \X Key

Requests == [pc : {"body", "save"}, op : {"add", "remove"}, entry : Entry, by : Key]
Rates == [window : Nat, count : Nat]

ASSUME PolicyAssumption ==
    /\ MaxTracked \in Nat /\ MaxMinute \in Nat
    /\ None \notin Requests /\ None \notin Rates
    /\ Configs \subseteq [lists : SUBSET Entry, allowed : SUBSET Kind,
                          disallowed : SUBSET Kind, rate : Nat,
                          admins : SUBSET AdminReq,    \* requests that come
                          managed : SUBSET Entry]      \* entries they are about

VARIABLES
    config,    \* the configuration in force
    policy,    \* the live lists
    table,     \* the rows of relay_policy
    request,   \* request[r]: an admin request in progress, or None
    unsaved,   \* entries whose live and stored state may differ, see below
    minute,    \* the clock, in minutes
    rates,     \* event_rates: the window and count of an address, or None
    admitted   \* events admitted from an address in this minute

policyVars == <<config, policy, table, request, unsaved, minute, rates, admitted>>

\* The configured entries are put in at every start, then the rows.
LoadInto(c, rows) == c.lists \cup rows

PolicyInit ==
    /\ config \in Configs
    /\ table = {} /\ policy = LoadInto(config, table)
    /\ request = [r \in AdminReq |-> None]
    /\ unsaved = {}
    /\ minute = 0
    /\ rates = [a \in Addr |-> None] /\ admitted = [a \in Addr |-> 0]

-----------------------------------------------------------------------------
(* Events.                                                                 *)

Listed(cat) == {k \in Key : <<cat, k>> \in policy}

CheckEvent(k, kind, fits) ==
    \/ k \in Listed("admin")
    \/ /\ k \notin Listed("blacklist")
       /\ Listed("whitelist") = {} \/ k \in Listed("whitelist")
       /\ fits
       /\ kind \notin config.disallowed
       /\ config.allowed = {} \/ kind \in config.allowed

Tracked == {a \in Addr : rates[a] # None}

\* Mutant: a full map is emptied.
PruneAll == IF Cardinality(Tracked) >= MaxTracked THEN [a \in Addr |-> None] ELSE rates

Prune ==
    IF Cardinality(Tracked) >= MaxTracked
      THEN [a \in Addr |-> IF rates[a] # None /\ rates[a].window = minute THEN rates[a] ELSE None]
      ELSE rates

Count(a) == LET e == Prune[a] IN IF e = None \/ e.window # minute THEN 0 ELSE e.count

WithinRate(a) == config.rate = 0 \/ Count(a) < config.rate

\* The event counts before it is checked, and an admin's event counts too.
CountEvent(a) ==
    rates' = IF config.rate = 0 THEN rates
             ELSE [Prune EXCEPT ![a] = [window |-> minute,
                                        count |-> Count(a) + (IF WithinRate(a) THEN 1 ELSE 0)]]

\* What the relay does with an event before it stores it.
Admit(a, k, kind, fits) ==
    /\ WithinRate(a) /\ CheckEvent(k, kind, fits)
    /\ CountEvent(a)
    /\ admitted' = IF config.rate = 0 THEN admitted ELSE [admitted EXCEPT ![a] = @ + 1]
    /\ UNCHANGED <<config, policy, table, request, unsaved, minute>>

Reject(a, k, kind, fits) ==
    /\ ~(WithinRate(a) /\ CheckEvent(k, kind, fits))
    /\ CountEvent(a)
    /\ UNCHANGED <<config, policy, table, request, unsaved, minute, admitted>>

NextMinute ==
    /\ config.rate # 0 /\ minute < MaxMinute
    /\ minute' = minute + 1
    /\ admitted' = [a \in Addr |-> 0]
    /\ UNCHANGED <<config, policy, table, request, unsaved, rates>>

-----------------------------------------------------------------------------
(* The admin endpoints.  There is none that removes an admin.              *)

\* The signature, the age, the URL, the method and the body hash are the
\* request's own; what can change is the list.
VerifyAdminEvent(k) == k \in Listed("admin")

RequireRelayAdmin(r, op, e, k) ==
    /\ r \in config.admins /\ e \in config.managed /\ request[r] = None
    /\ VerifyAdminEvent(k)
    /\ e[1] = "admin" => op = "add"
    /\ request' = [request EXCEPT ![r] = [pc |-> "body", op |-> op, entry |-> e, by |-> k]]
    /\ UNCHANGED <<config, policy, table, unsaved, minute, rates, admitted>>

\* Requests on the same entry whose rows are not written yet.
Rivals(r) == {q \in AdminReq \ {r} : /\ request[q] # None /\ request[q].pc = "save"
                                     /\ request[q].entry = request[r].entry
                                     /\ request[q].op # request[r].op}

\* add_admin, add_blacklist, remove_blacklist, add_whitelist, remove_whitelist.
Edited(op, e) == IF op = "add" THEN policy \cup {e} ELSE policy \ {e}

\* The body is there and the event is verified again; the handler up to the
\* write of the table.
ChangePolicy(r) ==
    /\ request[r] # None /\ request[r].pc = "body"
    /\ VerifyAdminEvent(request[r].by)
    /\ LET e == request[r].entry IN
         /\ policy' = Edited(request[r].op, e)
         /\ unsaved' = IF Rivals(r) # {} \/ (request[r].op = "remove" /\ e \in config.lists)
                         THEN unsaved \cup {e} ELSE unsaved
    /\ request' = [request EXCEPT ![r].pc = "save"]
    /\ UNCHANGED <<config, table, minute, rates, admitted>>

\* Mutant: the row of a removed key stays.
KeepRow(r) == IF request[r].op = "add" THEN table \cup {request[r].entry} ELSE table

\* INSERT OR IGNORE, or DELETE.
Row(r) == IF request[r].op = "add" THEN table \cup {request[r].entry}
                                   ELSE table \ {request[r].entry}

SavePolicy(r) ==
    /\ request[r] # None /\ request[r].pc = "save"
    /\ table' = Row(r)
    /\ request' = [request EXCEPT ![r] = None]
    /\ UNCHANGED <<config, policy, unsaved, minute, rates, admitted>>

\* The database fails, and the answer is 200 all the same; or the body or the
\* event is refused; or the client goes away and the handler with it.
GiveUp(r) ==
    /\ request[r] # None
    /\ unsaved' = IF request[r].pc = "save" THEN unsaved \cup {request[r].entry} ELSE unsaved
    /\ request' = [request EXCEPT ![r] = None]
    /\ UNCHANGED <<config, policy, table, minute, rates, admitted>>

PolicyRestart ==
    /\ policy' = LoadInto(config, table)
    /\ request' = [r \in AdminReq |-> None]
    /\ unsaved' = {}
    /\ rates' = [a \in Addr |-> None]
    /\ admitted' = [a \in Addr |-> 0]
    /\ UNCHANGED <<config, table, minute>>

AdminStep ==
    \E r \in AdminReq :
      \/ \E op \in {"add", "remove"}, e \in Entry, k \in Key : RequireRelayAdmin(r, op, e, k)
      \/ ChangePolicy(r) \/ SavePolicy(r) \/ GiveUp(r)

-----------------------------------------------------------------------------
(* Properties.                                                             *)

PolicyTypeOK ==
    /\ config \in Configs /\ policy \subseteq Entry /\ table \subseteq Entry
    /\ request \in [AdminReq -> Requests \cup {None}]
    /\ unsaved \subseteq Entry /\ minute \in 0..MaxMinute
    /\ rates \in [Addr -> Rates \cup {None}]
    /\ \A a \in Addr : rates[a] # None => rates[a].window <= minute /\ rates[a].count <= config.rate
    /\ admitted \in [Addr -> Nat]

\* An entry that no endpoint is writing is live exactly when a restart would
\* bring it back.  The code breaks this in three ways, which unsaved collects: the
\* database refuses the write or the client leaves before it, two admins add
\* and remove the same key at once, or a key of the configuration is removed.
PolicySurvivesRestart ==
    \A e \in Entry \ unsaved :
        (\A r \in AdminReq : request[r] # None => request[r].entry # e \/ request[r].pc # "save")
            => (e \in policy <=> e \in LoadInto(config, table))

\* However windows turn and stale addresses are pruned, no address has more
\* events admitted in one minute, since the server started, than the
\* configuration says.
EventRateHeld == config.rate # 0 => \A a \in Addr : admitted[a] <= config.rate
=============================================================================
