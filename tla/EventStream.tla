----------------------------- MODULE EventStream -----------------------------
(***************************************************************************)
(* How the page of a project learns of results: tasks commit rows and then *)
(* publish an event on the project's Redis channel                         *)
(* (llm/pipeline/stream.py), the SSE endpoint forwards the channel or      *)
(* polls the database (api/v1/events.py), and the page refetches its       *)
(* queries on an event, or from a timer while it is disconnected           *)
(* (hooks/useSSE.ts).                                                      *)
(*                                                                         *)
(* A topic is a query of the page: one of the four result lists, or        *)
(* "status", the project detail.  Its version counts the commits that      *)
(* changed it.  An event is the set of topics it makes the page refetch.   *)
(***************************************************************************)
EXTENDS Naturals, Sequences, FiniteSets

CONSTANTS
    Topic,       \* the page's queries
    MaxVersion,  \* bound: commits per topic
    MaxFailures  \* bound: outages, lost connections, failed requests, remounts

ASSUME StreamAssumption ==
    /\ Topic \subseteq {"analyses", "fuzz_results", "audit_results", "reports", "status"}
    /\ "status" \in Topic
    /\ MaxVersion \in Nat
    /\ MaxFailures \in Nat

VARIABLES
    committed,   \* version of each topic in the database
    unannounced, \* topics of tasks between their commit and their event
    redis,       \* whether Redis answers
    handler,     \* progress of the SSE handler of the current connection
    subscribed,  \* the handler's subscription is alive
    seen,        \* the counts a polling handler compares with
    wire,        \* events on their way to the browser
    source,      \* state of the EventSource
    timer,       \* disconnectTimer: off, or waiting 15 s
    polling,     \* the fallback interval runs
    asked,       \* topics whose request the server has not answered
    reply,       \* the version read for a topic whose answer is on its way
    replied,     \* the topics with such an answer
    failed,      \* queries in error
    shown,       \* the version the page shows
    loaded,      \* queries that had an answer: they have data
    missed,      \* history: queries whose first answer was on its way, and out of
                 \* date, when an event came, and that were not read since
    told,        \* the last version an event was sent for
    failures     \* failures so far

backend == <<committed, unannounced, redis>>
stream == <<handler, subscribed, seen, wire>>
browser == <<source, timer, polling>>
queries == <<asked, reply, replied, failed, shown, loaded, missed>>
vars == <<backend, stream, browser, queries, told, failures>>

\* Mutant: the fallback leaves out the audit results.
PolledTooLittle == Topic \ {"fuzz_results", "audit_results"}

\* What the fallback interval refetches: not the fuzz results.
Polled == Topic \ {"fuzz_results"}

\* Mutant: the event names a query the page does not have.
UnknownQuery(k) == {k, "project_status"}

\* EVENT_CONFIG: the topic of the event, and always the project detail.
EventOn(k) == {k, "status"}

Zero == [k \in Topic |-> 0]

Init ==
    /\ committed = Zero /\ unannounced = {} /\ redis = TRUE
    /\ handler = "none" /\ subscribed = FALSE /\ seen = Zero /\ wire = <<>>
    /\ source = "connecting" /\ timer = "off" /\ polling = FALSE
    /\ asked = Topic /\ reply = Zero /\ replied = {} /\ failed = {} /\ shown = Zero
    /\ loaded = {} /\ missed = {}
    /\ told = Zero
    /\ failures = 0

Fails == failures < MaxFailures /\ failures' = failures + 1

-----------------------------------------------------------------------------
(* Tasks and Redis *)

Commit(k) ==
    /\ committed[k] < MaxVersion
    /\ k \notin unannounced
    /\ committed' = [committed EXCEPT ![k] = @ + 1]
    /\ unannounced' = unannounced \cup {k}
    /\ UNCHANGED <<redis, stream, browser, queries, told, failures>>

\* _publish_sync: a publication reaches a live subscription, or nobody; a
\* failure is logged.
Announce(k) ==
    /\ k \in unannounced
    /\ unannounced' = unannounced \ {k}
    /\ IF redis /\ subscribed
       THEN /\ wire' = Append(wire, EventOn(k))
            /\ told' = [told EXCEPT ![k] = committed[k]]
       ELSE UNCHANGED <<wire, told>>
    /\ UNCHANGED <<committed, redis, handler, subscribed, seen, browser, queries, failures>>

\* The worker process dies between the commit and the publication.
DieSilently(k) ==
    /\ Fails
    /\ k \in unannounced
    /\ unannounced' = unannounced \ {k}
    /\ UNCHANGED <<committed, redis, stream, browser, queries, told>>

RedisFails ==
    /\ Fails
    /\ redis
    /\ redis' = FALSE
    /\ subscribed' = FALSE
    /\ UNCHANGED <<committed, unannounced, handler, seen, wire, browser, queries, told>>

RedisRecovers ==
    /\ ~redis
    /\ redis' = TRUE
    /\ UNCHANGED <<committed, unannounced, stream, browser, queries, told, failures>>

-----------------------------------------------------------------------------
(* The SSE endpoint *)

\* Mutant: onopen leaves the fallback running.
ForgetsFallback == UNCHANGED <<timer, polling>>

\* onopen
StopFallback == timer' = "off" /\ polling' = FALSE

\* project_events answers: it will listen to the channel if the health check
\* finds Redis, and poll the database if not.  The browser calls onopen.
Accept ==
    /\ source = "connecting" /\ handler = "none"
    /\ handler' \in IF redis THEN {"to_listen"} ELSE {"to_poll"}
    /\ source' = "open"
    /\ StopFallback
    /\ UNCHANGED <<backend, subscribed, seen, wire, queries, told, failures>>

\* Mutant: the snapshot makes the page refetch its project detail only.
StatusSnapshot == {"status"}

\* What the page refetches on a snapshot.
SnapshotTopics == Topic

\* _snapshot_first sends the snapshot, and only then iterates the generator.
SendSnapshot ==
    /\ handler \in {"to_listen", "to_poll"}
    /\ wire' = Append(wire, SnapshotTopics)
    /\ told' = committed
    /\ handler' = IF handler = "to_listen" THEN "subscribing" ELSE "counting"
    /\ UNCHANGED <<backend, subscribed, seen, browser, queries, failures>>

\* subscribe: an error ends the generator.
Subscribe ==
    /\ handler = "subscribing"
    /\ handler' = "listening"
    /\ subscribed' = redis
    /\ UNCHANGED <<backend, seen, wire, browser, queries, told, failures>>

\* The polling generator takes its first counts.
StartPolling ==
    /\ handler = "counting"
    /\ handler' = "polling"
    /\ seen' = committed
    /\ UNCHANGED <<backend, subscribed, wire, browser, queries, told, failures>>

Changed == {k \in Topic : seen[k] # committed[k]}

\* One round of the polling generator that finds a difference.
Poll ==
    /\ handler = "polling"
    /\ Changed # {}
    /\ wire' = Append(wire, UNION {EventOn(k) : k \in Changed})
    /\ told' = [k \in Topic |-> IF k \in Changed THEN committed[k] ELSE told[k]]
    /\ seen' = committed
    /\ UNCHANGED <<backend, handler, subscribed, browser, queries, failures>>

-----------------------------------------------------------------------------
(* The EventSource *)

\* onerror: unless the timer is set, or has fired.
StartTimer == timer' = IF polling THEN timer ELSE "set"

Disconnects(next) ==
    /\ handler' = "none" /\ subscribed' = FALSE /\ seen' = Zero /\ wire' = <<>>
    /\ source' = next
    /\ UNCHANGED <<backend, queries, told>>

\* The subscription is gone: the response ends after what it has sent, and the
\* browser connects anew by itself.
StreamEnds ==
    /\ handler = "listening" /\ ~subscribed
    /\ wire = <<>>
    /\ Disconnects("connecting")
    /\ StartTimer
    /\ UNCHANGED <<polling, failures>>

\* The network or the API process fails.
ConnectionLost ==
    /\ Fails
    /\ source = "open"
    /\ Disconnects("connecting")
    /\ StartTimer
    /\ UNCHANGED polling

\* The answer to a connection attempt is an HTTP error: the EventSource gives up.
Rejected ==
    /\ Fails
    /\ source = "connecting" /\ handler = "none"
    /\ Disconnects("closed")
    /\ StartTimer
    /\ UNCHANGED polling

\* The effect is cleaned up and runs again: a new EventSource.
Remount ==
    /\ Fails
    /\ Disconnects("connecting")
    /\ timer' = "off" /\ polling' = FALSE

-----------------------------------------------------------------------------
(* The page *)

\* Mutant: the queries are reset instead of invalidated.
ResetQueries(topics) ==
    /\ asked' = asked \cup topics
    /\ replied' = replied \ topics
    /\ shown' = [k \in Topic |-> IF k \in topics THEN 0 ELSE shown[k]]
    /\ loaded' = loaded \ topics
    /\ UNCHANGED <<reply, failed, missed>>

\* invalidateQueries: a request under way is cancelled and sent again if the
\* query has data.  Otherwise the invalidation joins it, and whatever that first
\* request answers counts as fresh.
Invalidate(topics) ==
    LET joined == topics \cap (replied \ loaded)
    IN  /\ asked' = asked \cup (topics \ joined)
        /\ replied' = replied \ (topics \ joined)
        /\ missed' = missed \cup {k \in joined : reply[k] < committed[k]}
        /\ UNCHANGED <<reply, failed, shown, loaded>>

Deliver ==
    /\ source = "open" /\ wire # <<>>
    /\ Invalidate(Head(wire))
    /\ wire' = Tail(wire)
    /\ UNCHANGED <<backend, handler, subscribed, seen, browser, told, failures>>

\* 15 s after the connection was lost.
TimerFires ==
    /\ timer = "set"
    /\ timer' = "off"
    /\ polling' = TRUE
    /\ UNCHANGED <<backend, stream, source, queries, told, failures>>

\* Every 10 s: a refetch takes less, while a query's first request may be slower.
FallbackPoll ==
    /\ polling
    /\ Polled \cap (asked \cup replied) \cap loaded = {}
    /\ Invalidate(Polled)
    /\ UNCHANGED <<backend, stream, browser, told, failures>>

Read(k) ==
    /\ k \in asked
    /\ asked' = asked \ {k}
    /\ replied' = replied \cup {k}
    /\ reply' = [reply EXCEPT ![k] = committed[k]]
    /\ missed' = missed \ {k}
    /\ UNCHANGED <<failed, shown, loaded, backend, stream, browser, told, failures>>

Show(k) ==
    /\ k \in replied
    /\ replied' = replied \ {k}
    /\ shown' = [shown EXCEPT ![k] = reply[k]]
    /\ reply' = [reply EXCEPT ![k] = 0]
    /\ failed' = failed \ {k}
    /\ loaded' = loaded \cup {k}
    /\ UNCHANGED <<asked, missed, backend, stream, browser, told, failures>>

\* The request and its one retry fail: the query keeps what it showed.
RequestFails(k) ==
    /\ Fails
    /\ k \in asked
    /\ asked' = asked \ {k}
    /\ failed' = failed \cup {k}
    /\ UNCHANGED <<reply, replied, shown, loaded, missed, backend, stream, browser, told>>

-----------------------------------------------------------------------------
Tasks ==
    \/ RedisFails \/ RedisRecovers
    \/ \E k \in Topic : Commit(k) \/ Announce(k) \/ DieSilently(k)

Serve == Accept \/ SendSnapshot \/ Subscribe \/ StartPolling \/ Poll \/ StreamEnds

Page ==
    \/ Deliver \/ TimerFires \/ FallbackPoll
    \/ \E k \in Topic : Read(k) \/ Show(k)

Disturb ==
    \/ ConnectionLost \/ Rejected \/ Remount
    \/ \E k \in Topic : RequestFails(k)

Next == Tasks \/ Serve \/ Page \/ Disturb

Spec == Init /\ [][Next]_vars

\* The event loop of the API, the browser and the network make progress.
FairSpec ==
    /\ Spec
    /\ WF_vars(Accept) /\ WF_vars(SendSnapshot) /\ WF_vars(Subscribe)
    /\ WF_vars(StartPolling) /\ WF_vars(Poll) /\ WF_vars(StreamEnds)
    /\ WF_vars(Deliver) /\ WF_vars(TimerFires) /\ WF_vars(FallbackPoll)
    /\ \A k \in Topic : WF_vars(Read(k)) /\ WF_vars(Show(k))

-----------------------------------------------------------------------------
(* Properties *)

TypeOK ==
    /\ \A f \in {committed, seen, reply, shown, told} : f \in [Topic -> 0..MaxVersion]
    /\ \A S \in {unannounced, asked, replied, failed, loaded, missed} : S \subseteq Topic
    /\ redis \in BOOLEAN /\ subscribed \in BOOLEAN /\ polling \in BOOLEAN
    /\ handler \in {"none", "to_listen", "to_poll", "subscribing", "counting",
                    "listening", "polling"}
    /\ wire \in Seq(SUBSET Topic)
    /\ source \in {"connecting", "open", "closed"}
    /\ timer \in {"off", "set"}
    /\ failures \in 0..MaxFailures

\* The page is connected and has handled every event and every request.
Quiet(k) ==
    /\ source = "open" /\ handler \in {"listening", "polling"}
    /\ handler = "listening" => subscribed
    /\ wire = <<>>
    /\ k \notin asked \cup replied \cup failed

\* Whatever the endpoint sent an event for is shown: no reconnection, remount,
\* outage or overlap of an event with a refetch makes the page drop an update it
\* was told of, and what happened while it was disconnected it learns from the
\* snapshot.  The exception is an event that is handled while the answer to the
\* query's first request is on its way: react-query lets that older answer stand.
ToldIsShown == \A k \in Topic : Quiet(k) /\ k \notin missed => shown[k] >= told[k]

\* The page never goes back to an older version.
NeverOlder == [][\A k \in Topic : shown'[k] >= shown[k]]_vars

\* The fallback only runs while the EventSource is not connected, although its
\* timer races with the browser's own reconnection.
FallbackOnlyOffline == source = "open" => timer = "off" /\ ~polling

\* useSSE.ts: results committed while the page is disconnected, or while its
\* handler polls, reach it in the end: by the snapshot of a new connection, by
\* the handler, or by the fallback when the EventSource has given up; unless the
\* query's request failed, or the notice came while its first answer was on its
\* way.  (Fuzz results are not part of the fallback: only a new connection brings
\* them.)
OfflineCatchesUp ==
    \A k \in Topic \ {"fuzz_results"} : \A n \in 1..MaxVersion :
        (committed[k] = n /\ (source # "open" \/ (handler = "polling" /\ seen[k] < n)))
            ~> (shown[k] >= n \/ k \in failed \cup missed)

\* events.py: the snapshot bridges the window before the subscription, if the page
\* refetches what it is told of.
SnapshotBridges ==
    \A k \in Topic : Quiet(k) /\ k \notin unannounced \cup missed => shown[k] = committed[k]
=============================================================================
