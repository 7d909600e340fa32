---------------------------- MODULE CorpusServer ----------------------------
(* A process that mounts corpora and serves them over HTTP: http-server/src over the registry. The   *)
(* host (the program that embeds handler and registry) mounts at boot, may swap a release in, and    *)
(* gives the handler one engine for good; other processes write the bundles.                       *)
EXTENDS CorpusRegistry

CONSTANTS
    Bundles,      \* path -> what a compiler, or an accident, may leave there
    FirstDisks,   \* the disks a process may start on
    Boots,        \* how a process may be started: [requests, source, settings]
    Swaps,        \* mount requests its host may swap in later
    Calls,        \* identities of HTTP calls
    HttpRequests, \* call -> what it may ask: [path, verb, authorization, body, namespace, release, unit]
    Cleared,      \* principal -> the units of the engine's graph it is cleared for
    MaxWrites, MaxSwaps

VARIABLES
    folders,      \* path -> bundle
    registry,
    serving,   \* the settings of the listening process, or Absent
    calls,     \* call -> [request, at, answer, span, principal]
    log,       \* every change of an active release, oldest first (history)
    writes     \* bundles written and releases swapped so far

serverVars == <<folders, registry, serving, calls, log, writes>>

NoCall == [request |-> Absent, at |-> "new", answer |-> Absent, span |-> "none", principal |-> Absent]

-----------------------------------------------------------------------------
\* Boot. No credential, a short or a shared token, or an address beyond this machine that nobody
\* acknowledged, and the process does not listen.
MinTokenLength == 32
CredentialsConfigure(credentials) ==
    /\ credentials # {}
    /\ \A c \in credentials : c.length >= MinTokenLength /\ c.principal # Absent
    /\ \A c, d \in credentials : c.token = d.token => c = d
Bindable(settings) == settings.hostname = "loopback" \/ settings.acknowledged

\* authenticate: a principal for a header, or the status of the refusal.
Authenticated(settings, authorization) ==
    LET known == {c \in settings.credentials : authorization = c.token}
    IN IF authorization \in {Absent, "basic"} THEN [status |-> 401, principal |-> Absent]
       ELSE IF known = {} THEN [status |-> 403, principal |-> Absent]
       ELSE [status |-> 200, principal |-> (CHOOSE c \in known : TRUE).principal]

Activations(before, after) ==
    {n \in DOMAIN after.active : ActiveRelease(before, n) # after.active[n]}
Entry(before, after, n) ==
    [namespace |-> n, release |-> after.active[n], previous |-> ActiveRelease(before, n),
     mount |-> after.mounts[<<n, after.active[n]>>]]
\* The namespaces a boot activates are independent of each other: any order of theirs is an order of events.
LogOf(before, after) ==
    LET switched == SetToSeq(Activations(before, after))
    IN [i \in DOMAIN switched |-> Entry(before, after, switched[i])]

Boot(requests, source, settings) ==
    /\ serving = Absent /\ registry = NoRegistry
    /\ CredentialsConfigure(settings.credentials) /\ Bindable(settings)
    /\ registry' = From(requests, folders, source)
    /\ log' = LogOf(NoRegistry, registry')
    /\ serving' = settings
    /\ UNCHANGED <<folders, calls, writes>>

Write(path, bundle) ==
    /\ writes.bundles < MaxWrites
    /\ folders' = [folders EXCEPT ![path] = bundle]
    /\ writes' = [writes EXCEPT !.bundles = @ + 1]
    /\ UNCHANGED <<registry, serving, calls, log>>

\* CorpusRegistry.swap, called by the host: a bundle that fails its checks changes nothing.
Swap(request, source) ==
    /\ serving # Absent /\ writes.swaps < MaxSwaps
    /\ writes' = [writes EXCEPT !.swaps = @ + 1]
    /\ IF MountError(folders[request.path], request, source) = ""
       THEN LET mount == MountOf(folders[request.path], request, source)
            IN /\ registry' = Swapped(registry, mount)
               /\ log' = log \o LogOf(registry, registry')
       ELSE UNCHANGED <<registry, log>>
    /\ UNCHANGED <<folders, serving, calls>>

-----------------------------------------------------------------------------
\* The handler: authentication before routing, a span over everything but the liveness probe.
Ended(c, answer) ==
    [c EXCEPT !.at = "done", !.answer = answer, !.span = IF c.span = "open" THEN "ended" ELSE "ended twice"]
Answer(q, status, release) ==
    calls' = [calls EXCEPT ![q] = Ended(calls[q], [status |-> status, previous |-> release])]

Verb(path) == IF path \in {"plan", "query", "activate"} THEN "POST" ELSE "GET"
Known == {"snapshot", "plan", "query", "resources", "resource", "corpora", "activate"}
Registers == {"corpora", "activate"}  \* 404 in a deployment that hands the handler no registry

\* What route() answers before it awaits anything, or 0 when it awaits.
RoutedAtOnce(r, principal, hasRegistry) ==
    IF r.path \notin Known THEN 404
    ELSE IF r.verb # Verb(r.path) THEN 405
    ELSE IF r.path \in Registers /\ ~hasRegistry THEN 404
    ELSE IF r.path = "resource" THEN
        (IF r.unit = "malformed" THEN 500 ELSE IF r.unit \in Cleared[principal] THEN 200 ELSE 404)
    ELSE IF r.path \in {"resources", "corpora"} THEN 200
    ELSE 0

Probe(q, r) ==
    /\ serving # Absent /\ calls[q].at = "new" /\ r.path = "healthz"
    /\ calls' = [calls EXCEPT ![q] =
           [request |-> r, at |-> "done", span |-> "none", principal |-> Absent,
            answer |-> [status |-> IF r.verb = "GET" THEN 200 ELSE 405, previous |-> Absent]]]
    /\ UNCHANGED <<folders, registry, serving, log, writes>>

Receive(q, r) ==
    /\ serving # Absent /\ calls[q].at = "new" /\ r.path # "healthz"
    /\ LET auth == Authenticated(serving, r.authorization)
           status == IF auth.status # 200 THEN auth.status ELSE RoutedAtOnce(r, auth.principal, serving.registry)
       IN calls' = [calls EXCEPT ![q] =
              [request |-> r, principal |-> auth.principal,
               at |-> IF status # 0 THEN "done" ELSE IF r.path = "snapshot" THEN "engine" ELSE "body",
               span |-> IF status # 0 THEN "ended" ELSE "open",
               answer |-> IF status # 0 THEN [status |-> status, previous |-> Absent] ELSE Absent]]
    /\ UNCHANGED <<folders, registry, serving, log, writes>>

\* readJsonBody and decodeQueryRequest: a body that is not JSON, not an object, that names what the
\* server owns, or a field it does not accept.
Accepted(body) == body = "accepted"

ReadBody(q) ==
    /\ calls[q].at = "body"
    /\ LET r == calls[q].request
       IN IF ~Accepted(r.body) THEN Answer(q, 400, Absent) /\ UNCHANGED <<registry, log>>
          ELSE IF r.path # "activate" THEN calls' = [calls EXCEPT ![q] = [calls[q] EXCEPT !.at = "engine"]]
               /\ UNCHANGED <<registry, log>>
          ELSE IF ~CanActivate(registry, r.namespace, r.release)
               THEN Answer(q, 409, Absent) /\ UNCHANGED <<registry, log>>
          ELSE /\ registry' = Pointed(registry, r.namespace, r.release)
               /\ Answer(q, 200, ActiveRelease(registry, r.namespace))
               /\ log' = log \o LogOf(registry, registry')
    /\ UNCHANGED <<folders, serving, writes>>

\* The transport settles: a result, a request the model cannot satisfy, or anything else that throws.
EngineSettles(q, status) ==
    /\ calls[q].at = "engine"
    /\ Answer(q, status, Absent)
    /\ UNCHANGED <<folders, registry, serving, log, writes>>

-----------------------------------------------------------------------------
ServerInit ==
    /\ folders \in FirstDisks
    /\ registry = NoRegistry
    /\ serving = Absent
    /\ calls = [q \in Calls |-> NoCall]
    /\ log = << >>
    /\ writes = [bundles |-> 0, swaps |-> 0]

ServerNext ==
    \/ \E b \in Boots : Boot(b.requests, b.source, b.settings)
    \/ \E path \in DOMAIN Bundles : \E bundle \in Bundles[path] : Write(path, bundle)
    \/ \E request \in Swaps : Swap(request, "declaration")
    \/ \E q \in Calls : \E r \in HttpRequests[q] : Probe(q, r) \/ Receive(q, r)
    \/ \E q \in Calls : ReadBody(q) \/ \E status \in {200, 400, 500} : EngineSettles(q, status)

ServerSpec == ServerInit /\ [][ServerNext]_serverVars

-----------------------------------------------------------------------------
\* A run recorded under a release can be replayed: whatever was active is still mounted, with the
\* snapshot it had then (CorpusRegistry.add, swap).
ReplaysWhatItServed ==
    \A i \in DOMAIN log :
        LET found == Resolve(registry, log[i].namespace, log[i].release)
        IN found = <<log[i].mount>>

\* Before the entry at i, the last change of the namespace is the one at j.
IsLast(entries, i, namespace, j) ==
    /\ j \in 1..(i - 1) /\ entries[j].namespace = namespace
    /\ \A k \in (j + 1)..(i - 1) : entries[k].namespace # namespace
Follows(entries, i) ==
    LET n == entries[i].namespace
    IN \/ entries[i].previous = Absent /\ \A j \in 1..(i - 1) : entries[j].namespace # n
       \/ \E j \in 1..(i - 1) : IsLast(entries, i, n, j) /\ entries[i].previous = entries[j].release

\* The changes of a namespace form one chain, from nothing to what is active now, and an answer to an
\* activation names the release the change really displaced, however its body was delayed
\* (handler.ts route, corpus.ts switchRelease).
SwitchesChain ==
    /\ \A n \in DOMAIN registry.active :
        \E j \in DOMAIN log : IsLast(log, Len(log) + 1, n, j) /\ log[j].release = registry.active[n]
    /\ \A i \in DOMAIN log : Follows(log, i)
    /\ \A q \in Calls :
        LET c == calls[q]
        IN c.at = "done" /\ c.request.path = "activate" /\ c.answer.status = 200 =>
           \/ c.answer.previous = c.request.release
           \/ \E i \in DOMAIN log : /\ log[i].namespace = c.request.namespace
                                    /\ log[i].release = c.request.release
                                    /\ log[i].previous = c.answer.previous

\* Who is not recognised learns nothing of the routes, and a span is ended once, with its answer
\* (handler.ts createRequestHandler).
CallsAreTraced ==
    \A q \in Calls :
        LET c == calls[q]
        IN /\ c.at \in {"body", "engine"} => c.span = "open" /\ c.principal # Absent
           /\ c.at = "done" /\ c.request.path # "healthz" =>
              /\ c.span = "ended"
              /\ c.principal = Absent => c.answer.status \in {401, 403}

\* The three together: what the registry says it served, it served.
ServesItsHistory == ReplaysWhatItServed /\ SwitchesChain /\ CallsAreTraced
=============================================================================
