---------------------------- MODULE KnowledgeBase ----------------------------
(***************************************************************************)
(* The SWC knowledge base and one retrieval from it.  sync_swc writes the  *)
(* entries to Postgres in one transaction and then embeds them one by one  *)
(* into Chroma; several of these tasks may run at once.  Meanwhile a file  *)
(* worker of an audit embeds its functions in chunks and asks Chroma for   *)
(* the nearest entries.  The embedding provider is read from the           *)
(* configuration by every attempt, and may change at any time.             *)
(***************************************************************************)
EXTENDS Selection

CONSTANTS
    Task,        \* deliveries of sync_swc
    EntryCount,  \* EXPECTED_ENTRIES
    Edition,     \* the texts an entry may have
    Snapshot,    \* the one that ships with the program
    Provider,    \* embedding providers the configuration may name
    DimensionOf, \* the length of a provider's vectors; none if its api is not supported
    Local,       \* the providers with api local
    TextCount,   \* functions of the file that is audited
    BatchLimit,  \* _BATCH_LIMIT
    MaxAttempts, \* stop_after_attempt of get_embedding and get_embedding_batch
    Absent,      \* no row, no vector, nothing found
    MaxChanges   \* bound: changes of the embedding provider

ASSUME KnowledgeBaseAssumption ==
    /\ IsFiniteSet(Task) /\ EntryCount \in Nat \ {0}
    /\ Snapshot \in Edition
    /\ Absent \notin Edition /\ Absent \notin [text : Edition, provider : Provider]
    /\ DimensionOf \in [Provider -> Nat] /\ Local \subseteq Provider
    /\ \A p \in Local : DimensionOf[p] # 0
    /\ {TextCount, BatchLimit, MaxAttempts} \subseteq Nat \ {0}
    /\ MaxChanges \in Nat

VARIABLES
    rows,       \* vulnerability_entries, as committed
    vectors,    \* the collection in Chroma: text and provider of each vector
    dimension,  \* length of its vectors, 0 while it is empty
    provider,   \* what _resolve_embedding_provider returns now
    changes,    \* changes of the configuration so far
    sync,       \* the tasks
    alone,      \* history: tasks that neither overlapped another nor lost an entry
    synced,     \* history: what the latest task wrote, if it ended and was alone
    retrieval   \* the file worker

storeVars == <<rows, vectors, dimension>>
configVars == <<provider, changes>>
historyVars == <<alone, synced>>
vars == <<storeVars, configVars, sync, historyVars, retrieval>>

-----------------------------------------------------------------------------
Entry == 1 .. EntryCount
Text == 1 .. TextCount
Supported(p) == DimensionOf[p] # 0
Fits(p) == dimension \in {0, DimensionOf[p]}

InTransaction == {"read", "flush", "commit"}
Running == {"fetch", "embed", "upsert"} \cup InTransaction

Fresh == [at |-> "queued", entries |-> <<>>, pos |-> 1, change |-> "none",
          written |-> <<>>, vector |-> Absent]

NoRetrieval == [at |-> "idle", asked |-> Absent, got |-> <<>>, attempt |-> 0, pos |-> 1,
                context |-> [i \in Text |-> Absent]]

Init ==
    /\ rows = [e \in Entry |-> Absent]
    /\ vectors = [e \in Entry |-> Absent]
    /\ dimension = 0
    /\ provider \in Provider
    /\ changes = 0
    /\ sync = [t \in Task |-> Fresh]
    /\ alone = {}
    /\ synced = Absent
    /\ retrieval = NoRetrieval

\* The configuration is changed; get_config reloads it.
ChangeProvider(p) ==
    /\ changes < MaxChanges /\ p # provider
    /\ provider' = p
    /\ changes' = changes + 1
    /\ UNCHANGED <<storeVars, sync, historyVars, retrieval>>

-----------------------------------------------------------------------------
(* sync_swc: the rows *)

At(t, place) == sync[t].at = place

Others(t) == {u \in Task \ {t} : sync[u].at \in Running}

Start(t) ==
    /\ At(t, "queued")
    /\ sync' = [sync EXCEPT ![t].at = "fetch"]
    /\ alone' = IF Others(t) = {} THEN alone \cup {t} ELSE alone \ Others(t)
    /\ synced' = Absent
    /\ UNCHANGED <<storeVars, configVars, retrieval>>

\* validate_entries: the expected number of entries, each of them complete.
Valid(entries) == DOMAIN entries = Entry

Loaded(t, entries) ==
    /\ At(t, "fetch")
    /\ Valid(entries)
    /\ sync' = [sync EXCEPT ![t].at = "read", ![t].entries = entries]
    /\ UNCHANGED <<storeVars, configVars, historyVars, retrieval>>

LoadSnapshot(t) == Loaded(t, [e \in Entry |-> Snapshot])

\* refresh=True: one request per entry, so upstream may change in between.
Fetch(t) == \E listed \in SUBSET Entry : \E entries \in [listed -> Edition] : Loaded(t, entries)

\* The task raises, or its process dies: Postgres rolls an open transaction back,
\* Chroma keeps what it has.
Raises(t) ==
    /\ sync' = [sync EXCEPT ![t] = [Fresh EXCEPT !.at = "failed"]]
    /\ alone' = alone \ {t}
    /\ UNCHANGED <<storeVars, configVars, synced, retrieval>>

\* A request, the database or the progress update fails, what was fetched is not
\* valid, or the worker is killed.
SyncFails(t) == sync[t].at \in Running /\ Raises(t)

\* The SELECT of one entry.  What is committed meanwhile is seen by the next one;
\* an entry with the same text is not written.
ReadRow(t) ==
    LET s == sync[t] IN
    /\ At(t, "read")
    /\ sync' = [sync EXCEPT ![t].at = "flush",
                  ![t].change = IF rows[s.pos] = Absent THEN "insert"
                                ELSE IF rows[s.pos] # s.entries[s.pos] THEN "update" ELSE "none"]
    /\ UNCHANGED <<storeVars, configVars, historyVars, retrieval>>

Unlocked(t) == \A u \in Task \ {t} : sync[t].pos \notin DOMAIN sync[u].written

\* Mutant: every entry is committed on its own.
CommitsEach(t) ==
    LET s == sync[t] IN
    /\ At(t, "flush")
    /\ s.change = "none" \/ Unlocked(t)
    /\ s.change = "insert" => rows[s.pos] = Absent
    /\ rows' = [rows EXCEPT ![s.pos] = s.entries[s.pos]]
    /\ sync' = [sync EXCEPT ![t].at = IF s.pos = EntryCount THEN "commit" ELSE "read",
                            ![t].pos = IF s.pos = EntryCount THEN 1 ELSE s.pos + 1]
    /\ UNCHANGED <<vectors, dimension, configVars, historyVars, retrieval>>

\* Its INSERT or UPDATE, sent before the next SELECT or the commit; it waits for
\* a transaction that wrote the same entry.
FlushRow(t) ==
    LET s == sync[t] IN
    /\ At(t, "flush")
    /\ s.change = "none" \/ Unlocked(t)
    /\ s.change = "insert" => rows[s.pos] = Absent
    /\ sync' = [sync EXCEPT
          ![t].at = IF s.pos = EntryCount THEN "commit" ELSE "read",
          ![t].pos = IF s.pos = EntryCount THEN 1 ELSE s.pos + 1,
          ![t].written = [e \in DOMAIN s.written \cup (IF s.change = "none" THEN {} ELSE {s.pos})
                            |-> s.entries[e]]]
    /\ UNCHANGED <<storeVars, configVars, historyVars, retrieval>>

\* Another task has inserted the entry since it was looked for: the unique
\* constraint on swc_id makes this one raise.
InsertConflicts(t) ==
    /\ At(t, "flush")
    /\ sync[t].change = "insert" /\ Unlocked(t) /\ rows[sync[t].pos] # Absent
    /\ Raises(t)

\* Mutant: an entry whose row was not changed is not embedded again.
SkipsUnchanged(t) ==
    LET s == sync[t] IN
    /\ At(t, "commit")
    /\ rows' = [e \in Entry |-> IF e \in DOMAIN s.written THEN s.written[e] ELSE rows[e]]
    /\ IF s.written = <<>>
       THEN /\ sync' = [sync EXCEPT ![t] = [Fresh EXCEPT !.at = "done"]]
            /\ synced' = IF t \in alone THEN s.entries ELSE synced
       ELSE /\ sync' = [sync EXCEPT ![t].at = "embed", ![t].written = <<>>]
            /\ UNCHANGED synced
    /\ UNCHANGED <<vectors, dimension, configVars, alone, retrieval>>

Commit(t) ==
    LET s == sync[t] IN
    /\ At(t, "commit")
    /\ rows' = [e \in Entry |-> IF e \in DOMAIN s.written THEN s.written[e] ELSE rows[e]]
    /\ sync' = [sync EXCEPT ![t].at = "embed", ![t].written = <<>>]
    /\ UNCHANGED <<vectors, dimension, configVars, historyVars, retrieval>>

-----------------------------------------------------------------------------
(* sync_swc: the vectors *)

\* The loop goes on with the next entry, or the task returns.
NextEntry(t, lone) ==
    LET s == sync[t] IN
    /\ sync' = IF s.pos < EntryCount
               THEN [sync EXCEPT ![t].at = "embed", ![t].pos = s.pos + 1, ![t].vector = Absent]
               ELSE [sync EXCEPT ![t] = [Fresh EXCEPT !.at = "done"]]
    /\ alone' = lone
    /\ synced' = IF s.pos = EntryCount /\ t \in lone THEN s.entries ELSE synced

\* get_embedding, with its retries; the attempt that succeeds resolved the provider.
Embed(t) ==
    /\ At(t, "embed")
    /\ Supported(provider)
    /\ sync' = [sync EXCEPT ![t].at = "upsert", ![t].vector = provider]
    /\ UNCHANGED <<storeVars, configVars, historyVars, retrieval>>

Upsert(t) ==
    LET s == sync[t] IN
    /\ At(t, "upsert")
    /\ Fits(s.vector)
    /\ vectors' = [vectors EXCEPT ![s.pos] = [text |-> s.entries[s.pos], provider |-> s.vector]]
    /\ dimension' = DimensionOf[s.vector]
    /\ NextEntry(t, alone)
    /\ UNCHANGED <<rows, configVars, retrieval>>

\* An unsupported api, an API that answers nothing usable three times, a vector
\* of another length than the collection's, or a store that refuses: a warning.
EntryIsLost(t) ==
    /\ sync[t].at \in {"embed", "upsert"}
    /\ NextEntry(t, alone \ {t})
    /\ UNCHANGED <<storeVars, configVars, retrieval>>

SyncStep(t) ==
    \/ Start(t) \/ LoadSnapshot(t) \/ Fetch(t) \/ ReadRow(t) \/ FlushRow(t) \/ Commit(t)
    \/ Embed(t) \/ Upsert(t)
    \/ SyncFails(t) \/ InsertConflicts(t) \/ EntryIsLost(t)

-----------------------------------------------------------------------------
(* Retrieval for one file *)

Kept == <<storeVars, configVars, sync, historyVars>>

\* An attempt of get_embedding_batch starts from nothing.
Attempt(n) == [NoRetrieval EXCEPT !.at = "batch", !.asked = provider, !.attempt = n]

StartRetrieval ==
    /\ retrieval.at = "idle"
    /\ retrieval' = Attempt(1)
    /\ UNCHANGED Kept

\* Mutant: the end of the chunk is not held to the end of the list.
NotClamped == (Len(retrieval.got) + 1) .. (Len(retrieval.got) + BatchLimit)

\* The texts of the chunk that is next.
Chunk == LET start == Len(retrieval.got)
             end == start + BatchLimit
         IN  (start + 1) .. (IF end < TextCount THEN end ELSE TextCount)

\* Mutant: the items are taken in the order of the response.
AsAnswered(items) == items

ByIndex(items) == InOrder(ToSet(items))

\* An item of the response carries the index of its text, and the items may come
\* in any order.
EmbedChunk ==
    /\ retrieval.at = "batch" /\ Chunk # {}
    /\ Supported(retrieval.asked) /\ retrieval.asked \notin Local
    /\ \E items \in SetToSeqs(Chunk) :
          retrieval' = [retrieval EXCEPT !.got = @ \o ByIndex(items)]
    /\ UNCHANGED Kept

\* The local model encodes all texts in one call.
EmbedLocally ==
    /\ retrieval.at = "batch" /\ retrieval.got = <<>>
    /\ retrieval.asked \in Local
    /\ retrieval' = [retrieval EXCEPT !.got = [i \in Text |-> i]]
    /\ UNCHANGED Kept

\* A failing request starts the batch again, with the provider of the moment.
RetryBatch ==
    /\ retrieval.at = "batch" /\ Chunk # {}
    /\ Supported(retrieval.asked) /\ retrieval.asked \notin Local
    /\ retrieval.attempt < MaxAttempts
    /\ retrieval' = Attempt(retrieval.attempt + 1)
    /\ UNCHANGED Kept

\* RetryError, in the batch or in a single call, or the local model cannot be
\* loaded: neither handler expects that, and the file is given up.
GiveUp ==
    /\ \/ /\ retrieval.at = "batch" /\ Chunk # {}
          /\ Supported(retrieval.asked)
          /\ retrieval.asked \in Local \/ retrieval.attempt = MaxAttempts
       \/ /\ retrieval.at = "single" /\ retrieval.pos <= TextCount
          /\ Supported(provider)
    /\ retrieval' = [NoRetrieval EXCEPT !.at = "gave_up"]
    /\ UNCHANGED Kept

\* The api is not supported, a response has the wrong number of items or an item
\* without a vector, or the connection breaks in a way that is not retried.  The
\* texts are embedded one by one.
FallBack ==
    /\ retrieval.at = "batch" /\ Chunk # {} /\ retrieval.asked \notin Local
    /\ retrieval' = [NoRetrieval EXCEPT !.at = "single"]
    /\ UNCHANGED Kept

\* Chroma finds something for a vector of provider p: an empty collection has
\* nothing, and a vector of the wrong length is an error.
Finds(p) == dimension # 0 /\ dimension = DimensionOf[p]

\* A query that fails three times counts as one that finds nothing.
Answered(down) ==
    [NoRetrieval EXCEPT !.at = "done",
       !.context = [i \in Text |->
           IF Finds(retrieval.asked) /\ ~down THEN retrieval.got[i] ELSE Absent]]

QueryBatch ==
    /\ retrieval.at = "batch" /\ Chunk = {}
    /\ \E down \in BOOLEAN : retrieval' = Answered(down)
    /\ UNCHANGED Kept

\* One text on its own; a ValueError is counted and leaves it without context.
EmbedSingle ==
    LET i == retrieval.pos IN
    /\ retrieval.at = "single" /\ i <= TextCount
    /\ \E found \in {Absent} \cup (IF Finds(provider) THEN {i} ELSE {}) :
          retrieval' = [retrieval EXCEPT !.context[i] = found, !.pos = i + 1]
    /\ UNCHANGED Kept

EndSingles ==
    /\ retrieval.at = "single" /\ retrieval.pos > TextCount
    /\ retrieval' = [retrieval EXCEPT !.at = "done"]
    /\ UNCHANGED Kept

RetrievalStep ==
    \/ StartRetrieval \/ EmbedChunk \/ EmbedLocally \/ RetryBatch \/ GiveUp \/ FallBack
    \/ QueryBatch \/ EmbedSingle \/ EndSingles

-----------------------------------------------------------------------------
Next ==
    \/ \E p \in Provider : ChangeProvider(p)
    \/ \E t \in Task : SyncStep(t)
    \/ RetrievalStep

Spec == Init /\ [][Next]_vars

-----------------------------------------------------------------------------
(* Properties *)

\* Every variable has its type.
TypeOK ==
    /\ rows \in [Entry -> Edition \cup {Absent}]
    /\ vectors \in [Entry -> [text : Edition, provider : Provider] \cup {Absent}]
    /\ dimension \in Nat /\ provider \in Provider /\ changes \in Nat
    /\ \A t \in Task :
          /\ sync[t].at \in Running \cup {"queued", "failed", "done"}
          /\ sync[t].pos \in Entry
          /\ DOMAIN sync[t].written \subseteq Entry
    /\ alone \subseteq Task
    /\ retrieval.at \in {"idle", "batch", "single", "done", "gave_up"}
    /\ Len(retrieval.got) \in 0 .. TextCount
    /\ retrieval.context \in [Text -> Text \cup {Absent}]

\* Who reads the knowledge base finds all of it or nothing, whatever fails or
\* overlaps (sync_swc commits once; validate_entries refuses incomplete sets).
WholeOrNothing == {e \in Entry : rows[e] # Absent} \in {{}, Entry}

\* A sync that overlapped no other and lost no entry leaves both stores with what
\* it loaded, also when earlier ones failed half way or mixed their rows
\* (sync_swc: every entry is written and embedded again each time).
CleanSyncAgrees ==
    synced # Absent => \A e \in Entry : /\ rows[e] = synced[e]
                                        /\ vectors[e] # Absent /\ vectors[e].text = synced[e]

\* A function is shown to the model with entries retrieved for itself, whatever
\* the order of the answers, the retries and the fallback
\* (get_embedding_batch, execute_single_file).
ContextIsOwn == \A i \in Text : retrieval.context[i] \in {i, Absent}
=============================================================================
