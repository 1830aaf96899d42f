------------------------- MODULE EventStream_proofs -------------------------
(***************************************************************************)
(* What the page was told of is shown, unless it joined a query's first    *)
(* request, and nothing older is shown, for every set of queries, any      *)
(* number of commits and any number of failures.                           *)
(***************************************************************************)
EXTENDS EventStream, TLAPS

(***************************************************************************)
(* Where the last version told for a query is, once the snapshot of the    *)
(* connection was sent: in an event that has not been handled, in a        *)
(* request that has not been answered, in an answer on its way, or on the  *)
(* page, unless the query is in error or its event joined a first request  *)
(* whose answer was out of date.                                           *)
(***************************************************************************)
Queued(k) == \E i \in 1 .. Len(wire) : k \in wire[i]

OnItsWay(k) ==
    \/ Queued(k)
    \/ k \in asked
    \/ k \in missed
    \/ k \in replied /\ reply[k] >= told[k]
    \/ k \notin replied /\ (k \in failed \/ shown[k] >= told[k])

Connected == handler \in {"subscribing", "counting", "listening", "polling"}

NothingLost == Connected => \A k \in Topic : OnItsWay(k)

\* A query is not asked again before the last request is answered or cancelled.
OneRequest == asked \cap replied = {}

\* The page is behind the answers under way, which are behind the database; so
\* are the events.
VersionsInOrder ==
    \A k \in Topic : /\ shown[k] <= committed[k] /\ told[k] <= committed[k]
                     /\ k \in replied => shown[k] <= reply[k] /\ reply[k] <= committed[k]

\* TypeOK, variable by variable.
Typed ==
    /\ committed \in [Topic -> 0 .. MaxVersion] /\ seen \in [Topic -> 0 .. MaxVersion]
    /\ reply \in [Topic -> 0 .. MaxVersion] /\ shown \in [Topic -> 0 .. MaxVersion]
    /\ told \in [Topic -> 0 .. MaxVersion]
    /\ unannounced \subseteq Topic /\ asked \subseteq Topic
    /\ replied \subseteq Topic /\ failed \subseteq Topic
    /\ loaded \subseteq Topic /\ missed \subseteq Topic
    /\ redis \in BOOLEAN /\ subscribed \in BOOLEAN /\ polling \in BOOLEAN
    /\ handler \in {"none", "to_listen", "to_poll", "subscribing", "counting",
                    "listening", "polling"}
    /\ wire \in Seq(SUBSET Topic)
    /\ source \in {"connecting", "open", "closed"}
    /\ timer \in {"off", "set"}
    /\ failures \in 0 .. MaxFailures

Inv == Typed /\ NothingLost /\ OneRequest /\ VersionsInOrder /\ FallbackOnlyOffline

-----------------------------------------------------------------------------
(* Events on the wire *)

LEMMA EventTopics ==
    ASSUME NEW k \in Topic
    PROVE  EventOn(k) \in SUBSET Topic /\ k \in EventOn(k)
    BY StreamAssumption DEF EventOn

LEMMA AppendQueues ==
    ASSUME NEW S \in SUBSET Topic, wire \in Seq(SUBSET Topic), wire' = Append(wire, S)
    PROVE  /\ wire' \in Seq(SUBSET Topic)
           /\ \A k \in Topic : Queued(k) \/ k \in S => Queued(k)'
<1>1. wire' \in Seq(SUBSET Topic) /\ Len(wire') = Len(wire) + 1 /\ wire'[Len(wire) + 1] = S
      /\ Len(wire) \in Nat
    OBVIOUS
<1>2. \A i \in 1 .. Len(wire) : wire'[i] = wire[i]
    OBVIOUS
<1>3. ASSUME NEW k \in Topic, Queued(k)
      PROVE  Queued(k)'
    BY <1>1, <1>2, <1>3 DEF Queued
<1>4. ASSUME NEW k \in Topic, k \in S
      PROVE  Queued(k)'
    BY <1>1, <1>4 DEF Queued
<1> QED  BY <1>1, <1>3, <1>4

LEMMA HandlingDequeues ==
    ASSUME wire \in Seq(SUBSET Topic), wire # <<>>, wire' = Tail(wire)
    PROVE  /\ wire' \in Seq(SUBSET Topic) /\ Head(wire) \in SUBSET Topic
           /\ \A k \in Topic : Queued(k) => k \in Head(wire) \/ Queued(k)'
<1>1. /\ wire' \in Seq(SUBSET Topic) /\ Head(wire) \in SUBSET Topic
      /\ Len(wire) \in Nat /\ Len(wire') = Len(wire) - 1 /\ Head(wire) = wire[1]
    OBVIOUS
<1>2. \A i \in 1 .. Len(wire') : wire'[i] = wire[i + 1]
    OBVIOUS
<1>3. ASSUME NEW k \in Topic, Queued(k), k \notin Head(wire)
      PROVE  Queued(k)'
    <2>1. PICK i \in 1 .. Len(wire) : k \in wire[i]
        BY <1>3 DEF Queued
    <2>2. i - 1 \in 1 .. Len(wire') /\ wire'[i - 1] = wire[i]
        BY <1>1, <1>2, <1>3, <2>1
    <2> QED  BY <2>1, <2>2 DEF Queued
<1> QED  BY <1>1, <1>3

-----------------------------------------------------------------------------
(* The steps *)

LEMMA ZeroIsVersions == Zero \in [Topic -> 0 .. MaxVersion]
    BY StreamAssumption DEF Zero

LEMMA InitInv ==
    ASSUME Init
    PROVE  Inv
<1>2. 0 \in 0 .. MaxFailures /\ << >> \in Seq(SUBSET Topic)
    BY StreamAssumption
<1>4. Typed
    BY ZeroIsVersions, <1>2 DEF Init, Typed
<1>3. NothingLost /\ OneRequest /\ VersionsInOrder /\ FallbackOnlyOffline
    BY StreamAssumption
    DEF Init, NothingLost, Connected, OneRequest, VersionsInOrder, FallbackOnlyOffline, Zero
<1> QED  BY <1>3, <1>4 DEF Inv

LEMMA FailsInBound ==
    ASSUME failures \in 0 .. MaxFailures, Fails
    PROVE  failures' \in 0 .. MaxFailures
    BY StreamAssumption DEF Fails

\* Steps of tasks and of Redis.
LEMMA TasksInv ==
    ASSUME Inv, Tasks
    PROVE  Inv'
<1> USE StreamAssumption
<1>1. CASE RedisFails
    BY <1>1, FailsInBound DEF RedisFails, Inv, Typed, NothingLost, Connected, OnItsWay, Queued,
                OneRequest, VersionsInOrder, FallbackOnlyOffline, browser, queries
<1>2. CASE RedisRecovers
    BY <1>2 DEF RedisRecovers, Inv, Typed, NothingLost, Connected, OnItsWay, Queued,
                OneRequest, VersionsInOrder, FallbackOnlyOffline, stream, browser, queries
<1>3. ASSUME NEW k \in Topic, Commit(k)
      PROVE  Inv'
    <2>1. committed' \in [Topic -> 0 .. MaxVersion] /\ \A j \in Topic : committed[j] <= committed'[j]
        <3>1. committed[k] + 1 \in 0 .. MaxVersion /\ committed[k] \in Nat
            BY <1>3 DEF Commit, Inv, Typed
        <3>2. \A j \in Topic : committed[j] \in Nat /\ committed[j] \in 0 .. MaxVersion
            BY DEF Inv, Typed
        <3>3. committed' = [committed EXCEPT ![k] = committed[k] + 1]
            BY <1>3 DEF Commit
        <3>4. committed' \in [Topic -> 0 .. MaxVersion]
            BY <3>1, <3>3 DEF Inv, Typed
        <3>5. \A j \in Topic : committed'[j] = IF j = k THEN committed[k] + 1 ELSE committed[j]
            BY <3>3 DEF Inv, Typed
        <3> QED  BY <3>2, <3>4, <3>5
    <2>2. Typed'
        BY <1>3, <2>1 DEF Commit, Inv, Typed, stream, browser, queries
    <2>3. VersionsInOrder'
        <3>1. \A j \in Topic : /\ committed[j] \in Nat /\ committed'[j] \in Nat /\ reply[j] \in Nat
                              /\ shown[j] \in Nat /\ told[j] \in Nat
            BY <2>1 DEF Inv, Typed
        <3>2. shown' = shown /\ told' = told /\ reply' = reply /\ replied' = replied
            BY <1>3 DEF Commit, queries
        <3> QED  BY <2>1, <3>1, <3>2 DEF Inv, VersionsInOrder
    <2> QED  BY <1>3, <2>2, <2>3 DEF Commit, Inv, NothingLost, Connected, OnItsWay, Queued,
                                     OneRequest, FallbackOnlyOffline, stream, browser, queries
<1>4. ASSUME NEW k \in Topic, Announce(k)
      PROVE  Inv'
    <2>1. CASE redis /\ subscribed
        <3>1. wire' = Append(wire, EventOn(k)) /\ told' = [told EXCEPT ![k] = committed[k]]
            BY <1>4, <2>1 DEF Announce
        <3>2. /\ wire' \in Seq(SUBSET Topic)
              /\ \A j \in Topic : Queued(j) \/ j = k => Queued(j)'
            BY <3>1, EventTopics, AppendQueues DEF Inv, Typed
        <3>3. told' \in [Topic -> 0 .. MaxVersion] /\ \A j \in Topic \ {k} : told'[j] = told[j]
            BY <3>1 DEF Inv, Typed
        <3>4. Typed' /\ VersionsInOrder'
            BY <1>4, <3>1, <3>2, <3>3
            DEF Announce, Inv, Typed, VersionsInOrder, browser, queries
        <3>5. NothingLost'
            BY <1>4, <3>2, <3>3 DEF Announce, Inv, NothingLost, Connected, OnItsWay, queries
        <3> QED  BY <1>4, <3>4, <3>5
                 DEF Announce, Inv, OneRequest, FallbackOnlyOffline, browser, queries
    <2>2. CASE ~(redis /\ subscribed)
        BY <1>4, <2>2 DEF Announce, Inv, Typed, NothingLost, Connected, OnItsWay, Queued,
                OneRequest, VersionsInOrder, FallbackOnlyOffline, browser, queries
    <2> QED  BY <2>1, <2>2
<1>5. ASSUME NEW k \in Topic, DieSilently(k)
      PROVE  Inv'
    BY <1>5, FailsInBound DEF DieSilently, Inv, Typed, NothingLost, Connected, OnItsWay, Queued,
                OneRequest, VersionsInOrder, FallbackOnlyOffline, stream, browser, queries
<1> QED  BY <1>1, <1>2, <1>3, <1>4, <1>5 DEF Tasks

\* Steps of the endpoint.
LEMMA ServeInv ==
    ASSUME Inv, Serve
    PROVE  Inv'
<1> USE StreamAssumption
<1>1. CASE Accept
    BY <1>1 DEF Accept, StopFallback, Inv, Typed, NothingLost, Connected,
                OneRequest, VersionsInOrder, FallbackOnlyOffline, backend, queries
<1>2. CASE SendSnapshot
    <2>1. SnapshotTopics \in SUBSET Topic /\ wire' = Append(wire, SnapshotTopics)
        BY <1>2 DEF SendSnapshot, SnapshotTopics
    <2>2. wire' \in Seq(SUBSET Topic) /\ \A k \in Topic : Queued(k)'
        BY <2>1, AppendQueues DEF Inv, Typed, SnapshotTopics
    <2>3. Typed' /\ VersionsInOrder'
        BY <1>2, <2>2 DEF SendSnapshot, Inv, Typed, VersionsInOrder, backend, browser, queries
    <2> QED  BY <1>2, <2>2, <2>3 DEF SendSnapshot, Inv, NothingLost, OnItsWay,
                                     OneRequest, FallbackOnlyOffline, browser, queries
<1>3. CASE Subscribe
    BY <1>3 DEF Subscribe, Inv, Typed, NothingLost, Connected, OnItsWay, Queued,
                OneRequest, VersionsInOrder, FallbackOnlyOffline, backend, browser, queries
<1>4. CASE StartPolling
    BY <1>4 DEF StartPolling, Inv, Typed, NothingLost, Connected, OnItsWay, Queued,
                OneRequest, VersionsInOrder, FallbackOnlyOffline, backend, browser, queries
<1>5. CASE Poll
    <2> DEFINE event == UNION {EventOn(k) : k \in Changed}
    <2>1. event \in SUBSET Topic /\ \A k \in Changed : k \in event
        BY EventTopics DEF Changed
    <2>2. /\ wire' \in Seq(SUBSET Topic)
          /\ \A k \in Topic : Queued(k) \/ k \in Changed => Queued(k)'
        BY <1>5, <2>1, AppendQueues DEF Poll, Inv, Typed
    <2>3. told' = [k \in Topic |-> IF k \in Changed THEN committed[k] ELSE told[k]]
        BY <1>5 DEF Poll
    <2>4. Typed' /\ VersionsInOrder'
        BY <1>5, <2>2, <2>3 DEF Poll, Inv, Typed, VersionsInOrder, backend, browser, queries
    <2>5. NothingLost'
        BY <1>5, <2>2, <2>3 DEF Poll, Inv, NothingLost, Connected, OnItsWay, queries
    <2> QED  BY <1>5, <2>4, <2>5 DEF Poll, Inv, OneRequest, FallbackOnlyOffline, browser, queries
<1>6. CASE StreamEnds
    <2>1. wire' \in Seq(SUBSET Topic)
        BY <1>6 DEF StreamEnds, Disconnects
    <2> QED  BY <1>6, <2>1, ZeroIsVersions DEF StreamEnds, Disconnects, StartTimer, Inv, Typed, NothingLost,
                Connected, OneRequest, VersionsInOrder, FallbackOnlyOffline, backend, queries
<1> QED  BY <1>1, <1>2, <1>3, <1>4, <1>5, <1>6 DEF Serve

\* What an invalidation has to show: the events it handles leave the wire.
LEMMA InvalidateInv ==
    ASSUME Inv, NEW S \in SUBSET Topic, Invalidate(S),
           wire' \in Seq(SUBSET Topic), \A k \in Topic : Queued(k) => k \in S \/ Queued(k)',
           UNCHANGED <<backend, handler, subscribed, seen, browser, told, failures>>
    PROVE  Inv'
<1> DEFINE joined == S \cap (replied \ loaded)
<1>4. /\ asked' = asked \cup (S \ joined) /\ replied' = replied \ (S \ joined)
      /\ missed' = missed \cup {k \in joined : reply[k] < committed[k]}
      /\ reply' = reply /\ failed' = failed /\ shown' = shown /\ loaded' = loaded
    BY DEF Invalidate
<1>1. Typed' /\ OneRequest'
    BY <1>4 DEF Inv, Typed, OneRequest, backend, browser
<1>2. VersionsInOrder' /\ FallbackOnlyOffline'
    BY <1>4 DEF Inv, VersionsInOrder, FallbackOnlyOffline, backend, browser
<1>3. NothingLost'
    <2> SUFFICES ASSUME Connected, NEW k \in Topic
                 PROVE  OnItsWay(k)'
        BY DEF NothingLost, Connected
    <2>1. OnItsWay(k) /\ told' = told
        BY DEF Inv, NothingLost
    <2>2. /\ reply[k] \in Nat /\ committed[k] \in Nat /\ told[k] \in Nat
          /\ told[k] <= committed[k]
        BY StreamAssumption DEF Inv, Typed, VersionsInOrder
    <2>3. CASE k \in joined
        <3>1. k \in replied' /\ (reply[k] < committed[k] => k \in missed')
            BY <1>4, <2>3
        <3>2. reply[k] < committed[k] \/ reply'[k] >= told'[k]
            BY <1>4, <2>1, <2>2
        <3> QED  BY <3>1, <3>2 DEF OnItsWay
    <2>4. CASE k \in S \ joined
        BY <1>4, <2>4 DEF OnItsWay
    <2>5. CASE k \notin S
        <3>1. /\ k \in asked' <=> k \in asked
              /\ k \in replied' <=> k \in replied
              /\ k \in missed => k \in missed'
              /\ Queued(k) => Queued(k)'
            BY <1>4, <2>5
        <3> QED  BY <1>4, <2>1, <3>1 DEF OnItsWay
    <2> QED  BY <2>3, <2>4, <2>5
<1> QED  BY <1>1, <1>2, <1>3 DEF Inv

\* Steps of the page.
LEMMA PageInv ==
    ASSUME Inv, Page
    PROVE  Inv'
<1> USE StreamAssumption
<1>1. CASE Deliver
    <2>1. /\ wire' \in Seq(SUBSET Topic) /\ Head(wire) \in SUBSET Topic
          /\ \A k \in Topic : Queued(k) => k \in Head(wire) \/ Queued(k)'
        BY <1>1, HandlingDequeues DEF Deliver, Inv, Typed
    <2> QED  BY <1>1, <2>1, InvalidateInv DEF Deliver
<1>2. CASE TimerFires
    BY <1>2 DEF TimerFires, Inv, Typed, NothingLost, Connected, OnItsWay, Queued,
                OneRequest, VersionsInOrder, FallbackOnlyOffline, backend, stream, queries
<1>3. CASE FallbackPoll
    <2>1. Polled \in SUBSET Topic /\ wire' = wire
        BY <1>3 DEF FallbackPoll, Polled, stream
    <2>2. wire' \in Seq(SUBSET Topic) /\ \A k \in Topic : Queued(k) => Queued(k)'
        BY <2>1 DEF Inv, Typed, Queued
    <2> QED  BY <1>3, <2>1, <2>2, InvalidateInv DEF FallbackPoll, stream
<1>4. ASSUME NEW k \in Topic, Read(k)
      PROVE  Inv'
    <2>1. /\ reply' \in [Topic -> 0 .. MaxVersion] /\ reply'[k] = committed[k]
          /\ \A j \in Topic \ {k} : reply'[j] = reply[j]
        BY <1>4 DEF Read, Inv, Typed
    <2>2. Typed'
        BY <1>4, <2>1 DEF Read, Inv, Typed, backend, stream, browser
    <2>3. OneRequest' /\ VersionsInOrder'
        BY <1>4, <2>1 DEF Read, Inv, OneRequest, VersionsInOrder, backend
    <2>4. NothingLost'
        BY <1>4, <2>1
        DEF Read, Inv, Typed, NothingLost, Connected, OnItsWay, Queued, VersionsInOrder, stream
    <2> QED  BY <1>4, <2>2, <2>3, <2>4 DEF Read, Inv, FallbackOnlyOffline, browser
<1>5. ASSUME NEW k \in Topic, Show(k)
      PROVE  Inv'
    <2>1. /\ reply' \in [Topic -> 0 .. MaxVersion] /\ shown' \in [Topic -> 0 .. MaxVersion]
          /\ shown'[k] = reply[k]
          /\ \A j \in Topic \ {k} : reply'[j] = reply[j] /\ shown'[j] = shown[j]
        BY <1>5 DEF Show, Inv, Typed
    <2>2. Typed'
        BY <1>5, <2>1 DEF Show, Inv, Typed, backend, stream, browser
    <2>3. OneRequest' /\ VersionsInOrder'
        BY <1>5, <2>1 DEF Show, Inv, OneRequest, VersionsInOrder, backend
    <2>4. NothingLost'
        BY <1>5, <2>1 DEF Show, Inv, NothingLost, Connected, OnItsWay, Queued, stream
    <2> QED  BY <1>5, <2>2, <2>3, <2>4 DEF Show, Inv, FallbackOnlyOffline, browser
<1> QED  BY <1>1, <1>2, <1>3, <1>4, <1>5 DEF Page

\* Lost connections, remounts and failed requests.
LEMMA DisturbInv ==
    ASSUME Inv, Disturb
    PROVE  Inv'
<1> USE StreamAssumption
<1>0. << >> \in Seq(SUBSET Topic)
    OBVIOUS
<1>1. CASE ConnectionLost
    BY <1>0, <1>1, FailsInBound, ZeroIsVersions DEF ConnectionLost, Disconnects, StartTimer, Inv, Typed, NothingLost,
                Connected, OneRequest, VersionsInOrder, FallbackOnlyOffline, backend, queries
<1>2. CASE Rejected
    BY <1>0, <1>2, FailsInBound, ZeroIsVersions DEF Rejected, Disconnects, StartTimer, Inv, Typed, NothingLost,
                Connected, OneRequest, VersionsInOrder, FallbackOnlyOffline, backend, queries
<1>3. CASE Remount
    BY <1>0, <1>3, FailsInBound, ZeroIsVersions DEF Remount, Disconnects, Inv, Typed, NothingLost,
                Connected, OneRequest, VersionsInOrder, FallbackOnlyOffline, backend, queries
<1>4. ASSUME NEW k \in Topic, RequestFails(k)
      PROVE  Inv'
    <2>1. Typed'
        BY <1>4, FailsInBound DEF RequestFails, Inv, Typed, backend, stream, browser
    <2>2. NothingLost'
        BY <1>4 DEF RequestFails, Inv, NothingLost, Connected, OnItsWay, Queued, OneRequest, stream
    <2> QED  BY <1>4, <2>1, <2>2 DEF RequestFails, Inv, OneRequest, VersionsInOrder,
                                     FallbackOnlyOffline, backend, browser
<1> QED  BY <1>1, <1>2, <1>3, <1>4 DEF Disturb

LEMMA NextInv ==
    ASSUME Inv, [Next]_vars
    PROVE  Inv'
<1>1. CASE UNCHANGED vars
    BY <1>1 DEF vars, backend, stream, browser, queries, Inv, Typed, NothingLost, Connected,
                OnItsWay, Queued, OneRequest, VersionsInOrder, FallbackOnlyOffline
<1> QED  BY <1>1, TasksInv, ServeInv, PageInv, DisturbInv DEF Next

LEMMA InvAlways == Spec => []Inv
<1> QED  BY InitInv, NextInv, PTL DEF Spec

-----------------------------------------------------------------------------
(* The results *)

\* Every variable keeps its type, for every set of queries and all bounds.
THEOREM TypeCorrect == Spec => []TypeOK
<1>1. Inv => TypeOK
    BY DEF Inv, Typed, TypeOK
<1> QED  BY <1>1, InvAlways, PTL

\* A connected page at rest shows everything it was told of (EventStream.tla,
\* ToldIsShown), whatever is lost on the way, except what it was told of while a
\* query's first answer was on its way: the endpoint's snapshot, useSSE's
\* invalidations and react-query's cancellation of overtaken refetches suffice.
THEOREM ToldIsShownOnceLoaded == Spec => []ToldIsShown
<1>1. ASSUME Inv
      PROVE  ToldIsShown
    <2> SUFFICES ASSUME NEW k \in Topic, Quiet(k), k \notin missed
                 PROVE  shown[k] >= told[k]
        BY DEF ToldIsShown
    <2>1. Connected /\ ~Queued(k) /\ k \notin asked \cup replied \cup failed
        BY DEF Quiet, Connected, Queued
    <2> QED  BY <1>1, <2>1 DEF Inv, NothingLost, OnItsWay
<1> QED  BY <1>1, InvAlways, PTL

\* The interval of useSSE never runs, and its timer is never set, while the
\* EventSource is open.
THEOREM FallbackIsOffline == Spec => []FallbackOnlyOffline
<1>1. Inv => FallbackOnlyOffline
    BY DEF Inv
<1> QED  BY <1>1, InvAlways, PTL

\* No answer that was overtaken by an event takes the page back.
THEOREM PageNeverGoesBack == Spec => NeverOlder
<1>1. ASSUME Inv, [Next]_vars
      PROVE  [\A k \in Topic : shown'[k] >= shown[k]]_vars
    <2> SUFFICES ASSUME NEW j \in Topic
                 PROVE  shown'[j] >= shown[j]
        OBVIOUS
    <2>1. shown[j] \in Nat /\ reply[j] \in Nat
        BY <1>1, StreamAssumption DEF Inv, Typed
    <2>2. CASE shown' = shown
        BY <2>1, <2>2
    <2>3. ASSUME NEW k \in Topic, Show(k)
          PROVE  shown'[j] >= shown[j]
        BY <1>1, <2>1, <2>3 DEF Show, Inv, Typed, VersionsInOrder
    <2>4. shown' = shown \/ \E k \in Topic : Show(k)
        BY <1>1 DEF Next, Tasks, Serve, Page, Disturb, vars, queries, stream, browser, backend,
             RedisFails, RedisRecovers, Commit, Announce, DieSilently, Accept, SendSnapshot,
             Subscribe, StartPolling, Poll, StreamEnds, Disconnects, Deliver, Invalidate,
             TimerFires, FallbackPoll, Read, ConnectionLost, Rejected, Remount, RequestFails
    <2> QED  BY <2>2, <2>3, <2>4
<1> QED  BY <1>1, InvAlways, PTL DEF Spec, NeverOlder
=============================================================================
