-------------------------- MODULE AuditInputs_proofs --------------------------
(***************************************************************************)
(* What an audit is given to look at: the background retrieved from the    *)
(* knowledge base, for any documents and any interleaving of loads and     *)
(* queries, and the functions an incremental audit selects, for any        *)
(* source, edit and order of the files in the diff.                        *)
(***************************************************************************)
EXTENDS KnowledgeBase, IncrementalPlan, Selection_proofs

(***************************************************************************)
(* What a task knows of an entry it has passed: while it writes rows, that *)
(* it has written the entry or found it in the table; a task alone, that   *)
(* the row it found has its own text; while it embeds, that the vectors    *)
(* behind it are its own.                                                  *)
(***************************************************************************)
Places == Running \cup {"queued", "failed", "done"}

SyncRecord ==
    [at : Places, entries : {<<>>} \cup [Entry -> Edition], pos : Entry,
     change : {"none", "insert", "update"},
     written : UNION {[S -> Edition] : S \in SUBSET Entry},
     vector : Provider \cup {Absent}]

Shape(s) ==
    /\ s.at \in {"queued", "fetch", "commit"} => s.pos = 1
    /\ s.at \in {"queued", "fetch"} => DOMAIN s.written = {}
    /\ s.at \in InTransaction \cup {"embed", "upsert"} => s.entries \in [Entry -> Edition]
    /\ \A e \in DOMAIN s.written : s.written[e] = s.entries[e]
    /\ s.at = "upsert" => s.vector \in Provider

\* The rows behind a task in its transaction.
Passed(s) == CASE s.at \in {"read", "flush"} -> {e \in Entry : e < s.pos}
               [] s.at = "commit"            -> Entry
               [] OTHER                      -> {}

Accounted(s, table) ==
    /\ \A e \in Passed(s) : e \in DOMAIN s.written \/ table[e] # Absent
    /\ s.at = "flush" /\ s.change # "insert" => table[s.pos] # Absent

Agrees(s, table, store) ==
    /\ \A e \in Passed(s) : e \in DOMAIN s.written \/ table[e] = s.entries[e]
    /\ s.at = "flush" /\ s.change = "none" => table[s.pos] = s.entries[s.pos]
    /\ s.at \in {"embed", "upsert"} =>
         /\ \A e \in Entry : table[e] = s.entries[e]
         /\ \A e \in Entry : e < s.pos => store[e] # Absent /\ store[e].text = s.entries[e]

Typed ==
    /\ rows \in [Entry -> Edition \cup {Absent}]
    /\ vectors \in [Entry -> [text : Edition, provider : Provider] \cup {Absent}]
    /\ provider \in Provider
    /\ sync \in [Task -> SyncRecord]
    /\ alone \subseteq Task

TasksInv == \A t \in Task : Shape(sync[t]) /\ Accounted(sync[t], rows)

AloneInv ==
    \A t \in alone :
        /\ sync[t].at # "queued"
        /\ sync[t].at \in Running => Others(t) = {} /\ Agrees(sync[t], rows, vectors)

SyncedInv == synced # Absent => \A t \in Task : sync[t].at \notin Running

Inv == Typed /\ TasksInv /\ AloneInv /\ SyncedInv /\ WholeOrNothing /\ CleanSyncAgrees

-----------------------------------------------------------------------------
(* Steps of one task *)

LEMMA FreshTask ==
    ASSUME NEW place \in {"queued", "failed", "done"}
    PROVE  /\ [Fresh EXCEPT !.at = place] \in SyncRecord
           /\ Shape([Fresh EXCEPT !.at = place])
           /\ \A table : Accounted([Fresh EXCEPT !.at = place], table)
<1>1. <<>> \in [{} -> Edition] /\ {} \in SUBSET Entry /\ 1 \in Entry
    BY KnowledgeBaseAssumption DEF Entry
<1>2. <<>> \in UNION {[S -> Edition] : S \in SUBSET Entry}
    BY <1>1
<1>3. [Fresh EXCEPT !.at = place] =
         [at |-> place, entries |-> <<>>, pos |-> 1, change |-> "none",
          written |-> <<>>, vector |-> Absent]
    BY DEF Fresh
<1>4. [Fresh EXCEPT !.at = place] \in SyncRecord
    BY <1>1, <1>2, <1>3 DEF SyncRecord, Places
<1>5. Shape([Fresh EXCEPT !.at = place])
    BY <1>1, <1>3 DEF Shape, InTransaction
<1>6. \A table : Accounted([Fresh EXCEPT !.at = place], table)
    BY <1>3 DEF Accounted, Passed
<1> QED
    BY <1>4, <1>5, <1>6

\* The others keep what they know as long as no row is taken away, and a task
\* that is alone has no other beside it to keep anything.
LEMMA RunningTaskStep ==
    ASSUME Inv, NEW t \in Task, NEW r \in SyncRecord,
           sync[t].at \in Running, sync' = [sync EXCEPT ![t] = r],
           Shape(r), Accounted(r, rows'), r.at # "queued",
           rows' \in [Entry -> Edition \cup {Absent}],
           \A e \in Entry : rows[e] # Absent => rows'[e] # Absent,
           vectors' \in [Entry -> [text : Edition, provider : Provider] \cup {Absent}],
           provider' = provider,
           alone' \subseteq alone,
           t \in alone' /\ r.at \in Running => Agrees(r, rows', vectors')
    PROVE  Typed' /\ TasksInv' /\ AloneInv'
<1> USE DEF Inv
<1>1. sync'[t] = r /\ \A u \in Task \ {t} : sync'[u] = sync[u]
    BY DEF Typed
<1>2. Typed'
    BY DEF Typed
<1>3. ASSUME NEW u \in Task PROVE Shape(sync'[u]) /\ Accounted(sync'[u], rows')
    <2>1. CASE u = t
        BY <1>1, <2>1
    <2>2. CASE u # t
        <3>1. Shape(sync[u]) /\ Accounted(sync[u], rows) /\ sync[u] \in SyncRecord
            BY DEF TasksInv, Typed
        <3>2. Passed(sync[u]) \subseteq Entry /\ sync[u].pos \in Entry
            BY <3>1 DEF Passed, SyncRecord
        <3>3. Accounted(sync[u], rows')
            BY <3>1, <3>2 DEF Accounted
        <3> QED
            BY <1>1, <2>2, <3>1, <3>3
    <2> QED
        BY <2>1, <2>2
<1>4. ASSUME NEW u \in alone'
      PROVE  /\ sync'[u].at # "queued"
             /\ sync'[u].at \in Running =>
                   {v \in Task \ {u} : sync'[v].at \in Running} = {}
                   /\ Agrees(sync'[u], rows', vectors')
    <2>1. u \in alone /\ u \in Task /\ sync[u].at # "queued"
        BY DEF Typed, AloneInv
    <2>2. CASE u = t
        <3>1. Others(t) = {}
            BY <2>1, <2>2 DEF AloneInv
        <3> QED
            BY <1>1, <2>2, <3>1 DEF Others
    <2>3. CASE u # t
        <3>1. t \in Others(u)
            BY <2>3 DEF Others
        <3>2. sync[u].at \notin Running
            BY <2>1, <3>1 DEF AloneInv
        <3> QED
            BY <1>1, <2>1, <2>3, <3>2
    <2> QED
        BY <2>2, <2>3
<1> QED
    BY <1>2, <1>3, <1>4 DEF TasksInv, AloneInv, Others

\* Nothing was synced yet when a task is running.
LEMMA NothingSynced ==
    ASSUME Inv, NEW t \in Task, sync[t].at \in Running
    PROVE  synced = Absent
    BY DEF Inv, SyncedInv

LEMMA StartInv ==
    ASSUME Inv, NEW t \in Task, Start(t)
    PROVE  Inv'
<1> USE DEF Inv
<1> DEFINE r == [sync[t] EXCEPT !.at = "fetch"]
<1>1. /\ sync' = [sync EXCEPT ![t] = r]
      /\ sync[t] \in SyncRecord /\ sync[t].at = "queued" /\ Shape(sync[t])
      /\ UNCHANGED <<rows, vectors, provider>> /\ synced' = Absent
    BY DEF Start, At, Typed, TasksInv, storeVars, configVars
<1>2. r \in SyncRecord /\ r.at = "fetch" /\ Shape(r) /\ Accounted(r, rows)
    BY <1>1 DEF SyncRecord, Places, Running, Shape, InTransaction, Accounted, Passed
<1> HIDE DEF r
<1>3. sync'[t] = r /\ \A u \in Task \ {t} : sync'[u] = sync[u]
    BY <1>1 DEF Typed
<1>4. Typed'
    <2>1. alone' \subseteq Task
        BY DEF Start, Typed
    <2> QED
        BY <1>1, <1>2, <2>1 DEF Typed
<1>5. TasksInv'
    BY <1>1, <1>2, <1>3 DEF TasksInv
<1>6. ASSUME NEW u \in alone'
      PROVE  /\ sync'[u].at # "queued"
             /\ sync'[u].at \in Running =>
                   {v \in Task \ {u} : sync'[v].at \in Running} = {}
                   /\ Agrees(sync'[u], rows', vectors')
    <2>1. t \notin alone
        BY <1>1 DEF AloneInv
    <2>2. CASE u = t
        <3>1. Others(t) = {}
            BY <2>1, <2>2 DEF Start
        <3>2. Agrees(r, rows', vectors')
            BY <1>2 DEF Agrees, Passed
        <3> QED
            BY <1>2, <1>3, <2>2, <3>1, <3>2 DEF Others
    <2>3. CASE u # t
        <3>1. u \in alone /\ (Others(t) = {} \/ u \notin Others(t))
            BY <2>3 DEF Start
        <3>2. u \in Task /\ sync[u].at \notin Running /\ sync[u].at # "queued"
            BY <2>3, <3>1 DEF Others, Typed, AloneInv
        <3> QED
            BY <1>3, <2>3, <3>2
    <2> QED
        BY <2>2, <2>3
<1>7. AloneInv'
    BY <1>6 DEF AloneInv, Others
<1> QED
    BY <1>1, <1>4, <1>5, <1>7 DEF SyncedInv, CleanSyncAgrees, WholeOrNothing

-----------------------------------------------------------------------------
(* The transaction *)

\* What all of these steps share: neither the vectors nor the history change.
LEMMA QuietTaskStep ==
    ASSUME Inv, NEW t \in Task, NEW r \in SyncRecord,
           sync[t].at \in Running, sync' = [sync EXCEPT ![t] = r],
           Shape(r), Accounted(r, rows), r.at # "queued",
           UNCHANGED <<storeVars, provider, synced>>,
           alone' \subseteq alone,
           t \in alone' /\ r.at \in Running => Agrees(r, rows, vectors)
    PROVE  Inv'
<1>1. UNCHANGED <<rows, vectors>>
    BY DEF storeVars
<1>2. Typed' /\ TasksInv' /\ AloneInv'
    BY <1>1, RunningTaskStep DEF Inv, Typed
<1>3. synced' = Absent
    BY NothingSynced
<1> QED
    BY <1>1, <1>2, <1>3 DEF Inv, SyncedInv, CleanSyncAgrees, WholeOrNothing

\* The facts about a task that its next step starts from.
LEMMA TaskKnows ==
    ASSUME Inv, NEW t \in Task
    PROVE  /\ sync[t] \in SyncRecord /\ Shape(sync[t]) /\ Accounted(sync[t], rows)
           /\ t \in alone /\ sync[t].at \in Running =>
                 Others(t) = {} /\ Agrees(sync[t], rows, vectors)
           /\ sync[t].pos \in Entry
    BY DEF Inv, Typed, TasksInv, AloneInv, SyncRecord

LEMMA RaisesInv ==
    ASSUME Inv, NEW t \in Task, sync[t].at \in Running, Raises(t)
    PROVE  Inv'
<1> DEFINE r == [Fresh EXCEPT !.at = "failed"]
<1>1. r \in SyncRecord /\ Shape(r) /\ Accounted(r, rows)
    BY FreshTask
<1>2. r.at = "failed" /\ "failed" \notin Running
    BY DEF Fresh, Running, InTransaction
<1> HIDE DEF r
<1>3. /\ sync' = [sync EXCEPT ![t] = r] /\ alone' \subseteq alone
      /\ UNCHANGED <<storeVars, provider, synced>>
    BY DEF Raises, configVars, r
<1> QED
    BY <1>1, <1>2, <1>3, QuietTaskStep

LEMMA LoadedInv ==
    ASSUME Inv, NEW t \in Task, NEW entries, entries \in [DOMAIN entries -> Edition],
           Loaded(t, entries)
    PROVE  Inv'
<1> DEFINE r == [sync[t] EXCEPT !.at = "read", !.entries = entries]
<1>1. sync[t].at = "fetch" /\ sync[t].at \in Running
    BY DEF Loaded, At, Running
<1>2. entries \in [Entry -> Edition]
    BY DEF Loaded, Valid
<1>3. sync[t] \in SyncRecord /\ sync[t].pos = 1 /\ DOMAIN sync[t].written = {}
    BY <1>1, TaskKnows DEF Shape
<1>4. /\ r \in SyncRecord /\ r.at = "read" /\ r.pos = 1 /\ r.entries = entries
      /\ r.written = sync[t].written
    BY <1>2, <1>3 DEF SyncRecord, Places, Running, InTransaction
<1>5. /\ sync' = [sync EXCEPT ![t] = r] /\ alone' = alone
      /\ UNCHANGED <<storeVars, provider, synced>>
    BY <1>3 DEF Loaded, configVars, historyVars
<1> HIDE DEF r
<1>6. Passed(r) = {}
    BY <1>4, KnowledgeBaseAssumption DEF Passed, Entry
<1>7. Shape(r) /\ Accounted(r, rows) /\ Agrees(r, rows, vectors)
    BY <1>2, <1>3, <1>4, <1>6 DEF Shape, Accounted, Agrees, InTransaction
<1> QED
    BY <1>1, <1>4, <1>5, <1>7, QuietTaskStep

LEMMA ReadRowInv ==
    ASSUME Inv, NEW t \in Task, ReadRow(t)
    PROVE  Inv'
<1> DEFINE s == sync[t]
           c == IF rows[s.pos] = Absent THEN "insert"
                ELSE IF rows[s.pos] # s.entries[s.pos] THEN "update" ELSE "none"
           r == [s EXCEPT !.at = "flush", !.change = c]
<1>1. s.at = "read" /\ s.at \in Running
    BY DEF ReadRow, At, Running, InTransaction
<1>2. /\ s \in SyncRecord /\ Shape(s) /\ Accounted(s, rows)
      /\ t \in alone => Agrees(s, rows, vectors)
    BY <1>1, TaskKnows
<1>3. /\ r \in SyncRecord /\ r.at = "flush" /\ r.change = c
      /\ r.pos = s.pos /\ r.entries = s.entries /\ r.written = s.written
    BY <1>2 DEF SyncRecord, Places, Running, InTransaction
<1>4. /\ sync' = [sync EXCEPT ![t] = r] /\ alone' = alone
      /\ UNCHANGED <<storeVars, provider, synced>>
    BY DEF ReadRow, configVars, historyVars
<1>5. /\ c # "insert" => rows[s.pos] # Absent
      /\ c = "none" => rows[s.pos] = s.entries[s.pos]
    OBVIOUS
<1> HIDE DEF s, c, r
<1>6. Passed(r) = Passed(s)
    BY <1>1, <1>3 DEF Passed
<1>7. Shape(r)
    BY <1>1, <1>2, <1>3 DEF Shape, InTransaction
<1>8. Accounted(r, rows) /\ (t \in alone => Agrees(r, rows, vectors))
    BY <1>2, <1>3, <1>5, <1>6 DEF Accounted, Agrees
<1> QED
    BY <1>1, <1>3, <1>4, <1>7, <1>8, QuietTaskStep DEF s

LEMMA FlushRowInv ==
    ASSUME Inv, NEW t \in Task, FlushRow(t)
    PROVE  Inv'
<1> DEFINE s == sync[t]
           place == IF s.pos = EntryCount THEN "commit" ELSE "read"
           next == IF s.pos = EntryCount THEN 1 ELSE s.pos + 1
           dom == DOMAIN s.written \cup (IF s.change = "none" THEN {} ELSE {s.pos})
           done == [e \in dom |-> s.entries[e]]
           r == [s EXCEPT !.at = place, !.pos = next, !.written = done]
<1>1. s.at = "flush" /\ s.at \in Running
    BY DEF FlushRow, At, Running, InTransaction
<1>2. /\ s \in SyncRecord /\ Shape(s) /\ Accounted(s, rows) /\ s.pos \in Entry
      /\ t \in alone => Agrees(s, rows, vectors)
    BY <1>1, TaskKnows
<1>3. s.entries \in [Entry -> Edition] /\ DOMAIN s.written \in SUBSET Entry
    BY <1>1, <1>2 DEF Shape, InTransaction, SyncRecord
<1>4. place \in {"commit", "read"} /\ next \in Entry /\ dom \in SUBSET Entry
    BY <1>2, <1>3, KnowledgeBaseAssumption DEF Entry
<1>5. done \in [dom -> Edition]
    BY <1>3, <1>4
<1>6. done \in UNION {[S -> Edition] : S \in SUBSET Entry}
    BY <1>4, <1>5
<1>7. sync' = [sync EXCEPT ![t] = r] /\ alone' = alone
      /\ UNCHANGED <<storeVars, provider, synced>>
    BY DEF FlushRow, configVars, historyVars
<1>8. s.change # "none" \/ s.pos \in DOMAIN s.written \/ rows[s.pos] # Absent
    BY <1>1, <1>2 DEF Accounted
<1>9. \A e \in Entry : e \notin dom => e \notin DOMAIN s.written /\ (s.change # "none" => e # s.pos)
    OBVIOUS
<1> HIDE DEF place, next, done, dom
<1>10. /\ r \in SyncRecord /\ r.at = place /\ r.pos = next /\ r.written = done
       /\ r.entries = s.entries
    BY <1>2, <1>4, <1>6 DEF SyncRecord, Places, Running, InTransaction
<1> HIDE DEF r
<1>11. \A e \in Passed(r) : e \in Entry /\ (e \in Passed(s) \/ e = s.pos)
    <2>1. CASE s.pos = EntryCount
        <3>1. Passed(r) = Entry
            BY <1>10, <2>1 DEF Passed, place
        <3>2. Passed(s) = {e \in Entry : e < EntryCount}
            BY <1>1, <2>1 DEF Passed
        <3> QED
            BY <2>1, <3>1, <3>2, KnowledgeBaseAssumption DEF Entry
    <2>2. CASE s.pos # EntryCount
        <3>1. Passed(r) = {e \in Entry : e < s.pos + 1}
            BY <1>10, <2>2 DEF Passed, place, next
        <3>2. Passed(s) = {e \in Entry : e < s.pos}
            BY <1>1 DEF Passed
        <3> QED
            BY <1>2, <3>1, <3>2, KnowledgeBaseAssumption DEF Entry
    <2> QED
        BY <2>1, <2>2
<1>12. DOMAIN r.written = dom /\ \A e \in dom : r.written[e] = r.entries[e]
    BY <1>10 DEF done
<1>13. Shape(r)
    BY <1>3, <1>4, <1>10, <1>12 DEF Shape, InTransaction, place, next
<1>14. Accounted(r, rows)
    <2>1. \A e \in Passed(r) : e \in dom \/ rows[e] # Absent
        BY <1>2, <1>8, <1>9, <1>11 DEF Accounted
    <2> QED
        BY <1>4, <1>10, <1>12, <2>1 DEF Accounted
<1>15. ASSUME t \in alone PROVE Agrees(r, rows, vectors)
    <2>1. \A e \in Passed(r) : e \in dom \/ rows[e] = s.entries[e]
        BY <1>1, <1>2, <1>9, <1>11, <1>15 DEF Agrees
    <2> QED
        BY <1>4, <1>10, <1>12, <2>1 DEF Agrees
<1> QED
    BY <1>1, <1>4, <1>7, <1>10, <1>13, <1>14, <1>15, QuietTaskStep DEF s

\* The commit fills the table: every entry was written or is there already.
LEMMA CommitInv ==
    ASSUME Inv, NEW t \in Task, Commit(t)
    PROVE  Inv'
<1> DEFINE s == sync[t]
           r == [s EXCEPT !.at = "embed", !.written = <<>>]
<1>1. s.at = "commit" /\ s.at \in Running
    BY DEF Commit, At, Running, InTransaction
<1>2. /\ s \in SyncRecord /\ Shape(s) /\ Accounted(s, rows) /\ s.pos \in Entry
      /\ t \in alone => Agrees(s, rows, vectors)
    BY <1>1, TaskKnows
<1>3. /\ s.entries \in [Entry -> Edition] /\ s.pos = 1 /\ Passed(s) = Entry
      /\ \A e \in DOMAIN s.written : s.written[e] = s.entries[e]
    BY <1>1, <1>2 DEF Shape, InTransaction, Passed
<1>4. /\ rows' = [e \in Entry |-> IF e \in DOMAIN s.written THEN s.written[e] ELSE rows[e]]
      /\ sync' = [sync EXCEPT ![t] = r] /\ alone' = alone
      /\ UNCHANGED <<vectors, provider, synced>>
    BY DEF Commit, configVars, historyVars
<1>5. rows \in [Entry -> Edition \cup {Absent}] /\ vectors' = vectors /\ provider' = provider
    BY <1>4 DEF Inv, Typed
<1>6. /\ rows' \in [Entry -> Edition \cup {Absent}]
      /\ \A e \in Entry : rows'[e] # Absent
    <2>1. ASSUME NEW e \in Entry
          PROVE  rows'[e] \in Edition
        <3>1. CASE e \in DOMAIN s.written
            BY <1>3, <1>4, <3>1
        <3>2. CASE e \notin DOMAIN s.written
            BY <1>2, <1>3, <1>4, <1>5, <3>2 DEF Accounted
        <3> QED
            BY <3>1, <3>2
    <2> QED
        BY <1>4, <2>1, KnowledgeBaseAssumption
<1>7. ASSUME t \in alone PROVE \A e \in Entry : rows'[e] = s.entries[e]
    BY <1>2, <1>3, <1>4, <1>7 DEF Agrees
<1>8. <<>> \in UNION {[S -> Edition] : S \in SUBSET Entry}
    <2>1. <<>> \in [{} -> Edition] /\ {} \in SUBSET Entry
        OBVIOUS
    <2> QED
        BY <2>1
<1> HIDE DEF s
<1>9. /\ r \in SyncRecord /\ r.at = "embed" /\ r.pos = 1 /\ r.entries = s.entries
      /\ DOMAIN r.written = {}
    <2>1. s \in SyncRecord /\ s.pos = 1
        BY <1>2, <1>3
    <2>2. r \in SyncRecord
        BY <1>8, <2>1 DEF SyncRecord, Places, Running
    <2>3. r.at = "embed" /\ r.pos = 1 /\ r.entries = s.entries /\ r.written = <<>>
        BY <2>1 DEF SyncRecord
    <2>4. DOMAIN <<>> = {}
        OBVIOUS
    <2> QED
        BY <2>2, <2>3, <2>4
<1> HIDE DEF r
<1>10. Shape(r) /\ Accounted(r, rows')
    BY <1>3, <1>9 DEF Shape, Accounted, Passed, InTransaction
<1>11. t \in alone => Agrees(r, rows', vectors')
    BY <1>7, <1>9, KnowledgeBaseAssumption DEF Agrees, Passed, Entry
<1>12. Typed' /\ TasksInv' /\ AloneInv'
    <2>1. vectors' \in [Entry -> [text : Edition, provider : Provider] \cup {Absent}]
        BY <1>5 DEF Inv, Typed
    <2> QED
        BY <1>1, <1>4, <1>5, <1>6, <1>9, <1>10, <1>11, <2>1, RunningTaskStep DEF s
<1>13. synced' = Absent
    BY <1>1, <1>4, NothingSynced DEF s
<1> QED
    BY <1>6, <1>12, <1>13 DEF Inv, SyncedInv, CleanSyncAgrees, WholeOrNothing

-----------------------------------------------------------------------------
(* The vectors *)

LEMMA EmbedInv ==
    ASSUME Inv, NEW t \in Task, Embed(t)
    PROVE  Inv'
<1> DEFINE s == sync[t]
           r == [s EXCEPT !.at = "upsert", !.vector = provider]
<1>1. s.at = "embed" /\ s.at \in Running
    BY DEF Embed, At, Running
<1>2. /\ s \in SyncRecord /\ Shape(s) /\ provider \in Provider
      /\ t \in alone => Agrees(s, rows, vectors)
    BY <1>1, TaskKnows DEF Inv, Typed
<1>3. /\ r \in SyncRecord /\ r.at = "upsert" /\ r.vector = provider
      /\ r.pos = s.pos /\ r.entries = s.entries /\ r.written = s.written
    BY <1>2 DEF SyncRecord, Places, Running
<1>4. /\ sync' = [sync EXCEPT ![t] = r] /\ alone' = alone
      /\ UNCHANGED <<storeVars, provider, synced>>
    BY DEF Embed, configVars, historyVars
<1> HIDE DEF s, r
<1>5. Shape(r) /\ Accounted(r, rows) /\ (t \in alone => Agrees(r, rows, vectors))
    BY <1>1, <1>2, <1>3 DEF Shape, Accounted, Agrees, Passed, InTransaction
<1> QED
    BY <1>1, <1>3, <1>4, <1>5, QuietTaskStep DEF s

\* The task goes on to its next entry, or ends; if it is alone to the last, both
\* stores hold what it loaded.
LEMMA NextEntryInv ==
    ASSUME Inv, NEW t \in Task, NEW lone \in SUBSET alone,
           sync[t].at \in {"embed", "upsert"}, NextEntry(t, lone),
           UNCHANGED <<rows, provider>>,
           vectors' \in [Entry -> [text : Edition, provider : Provider] \cup {Absent}],
           \A e \in Entry : e < sync[t].pos => vectors'[e] = vectors[e],
           t \in lone => vectors'[sync[t].pos] # Absent
                         /\ vectors'[sync[t].pos].text = sync[t].entries[sync[t].pos]
    PROVE  Inv'
<1> DEFINE s == sync[t]
<1>1. s.at \in Running /\ s.at # "queued"
    BY DEF Running, InTransaction
<1>2. /\ s \in SyncRecord /\ Shape(s) /\ Accounted(s, rows) /\ s.pos \in Entry
      /\ t \in alone => Others(t) = {} /\ Agrees(s, rows, vectors)
    BY <1>1, TaskKnows
<1>3. rows \in [Entry -> Edition \cup {Absent}] /\ rows' = rows /\ provider' = provider
    BY DEF Inv, Typed
<1>4. alone' = lone /\ synced = Absent
    BY <1>1, NothingSynced DEF NextEntry
<1>5. ASSUME t \in lone
      PROVE  \A e \in Entry : /\ rows[e] = s.entries[e]
                              /\ e <= s.pos => vectors'[e] # Absent /\ vectors'[e].text = s.entries[e]
    BY <1>2, <1>5, KnowledgeBaseAssumption DEF Agrees, Entry
<1>6. CASE s.pos < EntryCount
    <2> DEFINE r == [s EXCEPT !.at = "embed", !.pos = s.pos + 1, !.vector = Absent]
    <2>1. sync' = [sync EXCEPT ![t] = r] /\ synced' = Absent
        <3>1. s.pos # EntryCount
            BY <1>2, <1>6, KnowledgeBaseAssumption DEF Entry
        <3>2. sync' = [sync EXCEPT ![t].at = "embed", ![t].pos = s.pos + 1, ![t].vector = Absent]
            BY <1>6 DEF NextEntry
        <3> QED
            BY <1>4, <3>1, <3>2 DEF NextEntry
    <2>2. /\ r \in SyncRecord /\ r.at = "embed" /\ r.pos = s.pos + 1 /\ r.pos \in Entry
          /\ r.entries = s.entries /\ r.written = s.written
        <3>1. s.pos + 1 \in Entry
            BY <1>2, <1>6, KnowledgeBaseAssumption DEF Entry
        <3>2. s \in SyncRecord
            BY <1>2
        <3> HIDE DEF s
        <3>3. r \in SyncRecord
            BY <3>1, <3>2 DEF SyncRecord, Places, Running
        <3>4. /\ r.at = "embed" /\ r.pos = s.pos + 1
              /\ r.entries = s.entries /\ r.written = s.written
            BY <3>2 DEF SyncRecord
        <3> QED
            BY <3>1, <3>3, <3>4
    <2> HIDE DEF r, s
    <2>3. Shape(r) /\ Accounted(r, rows)
        BY <1>2, <2>2 DEF Shape, Accounted, Passed, InTransaction, s
    <2>4. t \in lone => Agrees(r, rows', vectors')
        BY <1>2, <1>3, <1>5, <2>2, KnowledgeBaseAssumption DEF Agrees, Passed, Entry
    <2>5. Typed' /\ TasksInv' /\ AloneInv'
        BY <1>1, <1>3, <1>4, <2>1, <2>2, <2>3, <2>4, RunningTaskStep DEF s
    <2> QED
        BY <1>3, <2>1, <2>5 DEF Inv, SyncedInv, CleanSyncAgrees, WholeOrNothing
<1>7. CASE ~(s.pos < EntryCount)
    <2> DEFINE r == [Fresh EXCEPT !.at = "done"]
    <2>1. s.pos = EntryCount
        BY <1>2, <1>7, KnowledgeBaseAssumption DEF Entry
    <2>2. sync' = [sync EXCEPT ![t] = r]
        BY <1>7 DEF NextEntry
    <2>3. r \in SyncRecord /\ Shape(r) /\ Accounted(r, rows)
        BY FreshTask
    <2>4. r.at = "done" /\ "done" \notin Running
        BY DEF Fresh, Running, InTransaction
    <2> HIDE DEF r, s
    <2>5. Typed' /\ TasksInv' /\ AloneInv'
        BY <1>1, <1>3, <1>4, <2>2, <2>3, <2>4, RunningTaskStep DEF s
    <2>6. CASE t \notin lone
        <3>1. synced' = Absent
            BY <1>4, <2>6 DEF NextEntry
        <3> QED
            BY <1>3, <2>5, <3>1 DEF Inv, SyncedInv, CleanSyncAgrees, WholeOrNothing
    <2>7. CASE t \in lone
        <3>1. synced' = s.entries
            BY <2>1, <2>7 DEF NextEntry, s
        <3>2. \A u \in Task : sync'[u].at \notin Running
            BY <1>2, <2>2, <2>4, <2>7 DEF Others, Inv, Typed
        <3>3. \A e \in Entry : /\ rows'[e] = synced'[e]
                               /\ vectors'[e] # Absent /\ vectors'[e].text = synced'[e]
            BY <1>3, <1>5, <2>1, <2>7, <3>1, KnowledgeBaseAssumption DEF Entry
        <3> QED
            BY <1>3, <2>5, <3>2, <3>3 DEF Inv, SyncedInv, CleanSyncAgrees, WholeOrNothing
    <2> QED
        BY <2>6, <2>7
<1> QED
    BY <1>6, <1>7

LEMMA UpsertInv ==
    ASSUME Inv, NEW t \in Task, Upsert(t)
    PROVE  Inv'
<1> DEFINE s == sync[t]
           v == [text |-> s.entries[s.pos], provider |-> s.vector]
<1>1. s.at = "upsert"
    BY DEF Upsert, At
<1>2. /\ s.entries \in [Entry -> Edition] /\ s.pos \in Entry /\ s.vector \in Provider
      /\ vectors \in [Entry -> [text : Edition, provider : Provider] \cup {Absent}]
    BY <1>1, TaskKnows DEF Shape, InTransaction, Inv, Typed
<1>3. /\ v \in [text : Edition, provider : Provider] /\ v # Absent
      /\ v.text = s.entries[s.pos]
    BY <1>2, KnowledgeBaseAssumption
<1>4. /\ vectors' = [vectors EXCEPT ![s.pos] = v] /\ NextEntry(t, alone)
      /\ UNCHANGED <<rows, provider>>
    BY DEF Upsert, configVars
<1> HIDE DEF v
<1>5. /\ vectors' \in [Entry -> [text : Edition, provider : Provider] \cup {Absent}]
      /\ vectors'[s.pos] = v
      /\ \A e \in Entry : e < s.pos => vectors'[e] = vectors[e]
    BY <1>2, <1>3, <1>4, KnowledgeBaseAssumption DEF Entry
<1> QED
    BY <1>1, <1>3, <1>4, <1>5, NextEntryInv

LEMMA EntryIsLostInv ==
    ASSUME Inv, NEW t \in Task, EntryIsLost(t)
    PROVE  Inv'
<1>1. /\ UNCHANGED <<rows, vectors, provider>> /\ sync[t].at \in {"embed", "upsert"}
      /\ NextEntry(t, alone \ {t}) /\ t \notin alone \ {t}
    BY DEF EntryIsLost, storeVars, configVars
<1>2. vectors' \in [Entry -> [text : Edition, provider : Provider] \cup {Absent}]
    BY <1>1 DEF Inv, Typed
<1> QED
    BY <1>1, <1>2, NextEntryInv

-----------------------------------------------------------------------------
(* The invariant, and what follows from it *)

LEMMA InitInv == Init => Inv
<1> SUFFICES ASSUME Init PROVE Inv
    OBVIOUS
<1>1. Fresh = [Fresh EXCEPT !.at = "queued"]
    BY DEF Fresh
<1>2. Fresh \in SyncRecord /\ Shape(Fresh) /\ Accounted(Fresh, rows)
    BY <1>1, FreshTask
<1> QED
    BY <1>2 DEF Init, Inv, Typed, TasksInv, AloneInv, SyncedInv, WholeOrNothing, CleanSyncAgrees

LEMMA SyncStepInv ==
    ASSUME Inv, NEW t \in Task, SyncStep(t)
    PROVE  Inv'
<1>1. CASE LoadSnapshot(t)
    <2>1. [e \in Entry |-> Snapshot] \in [Entry -> Edition]
        BY KnowledgeBaseAssumption
    <2> QED
        BY <1>1, <2>1, LoadedInv DEF LoadSnapshot
<1>2. CASE Fetch(t)
    <2>1. PICK listed \in SUBSET Entry : \E entries \in [listed -> Edition] : Loaded(t, entries)
        BY <1>2 DEF Fetch
    <2>2. PICK entries \in [listed -> Edition] : Loaded(t, entries)
        BY <2>1
    <2>3. entries \in [DOMAIN entries -> Edition]
        BY <2>2
    <2> QED
        BY <2>2, <2>3, LoadedInv
<1>3. CASE SyncFails(t) \/ InsertConflicts(t)
    <2>1. sync[t].at \in Running /\ Raises(t)
        BY <1>3 DEF SyncFails, InsertConflicts, At, Running, InTransaction
    <2> QED
        BY <2>1, RaisesInv
<1>4. CASE \/ Start(t) \/ ReadRow(t) \/ FlushRow(t) \/ Commit(t)
           \/ Embed(t) \/ Upsert(t) \/ EntryIsLost(t)
    BY <1>4, StartInv, ReadRowInv, FlushRowInv, CommitInv, EmbedInv, UpsertInv, EntryIsLostInv
<1> QED
    BY <1>1, <1>2, <1>3, <1>4 DEF SyncStep

LEMMA RetrievalKeeps ==
    ASSUME RetrievalStep
    PROVE  UNCHANGED <<rows, vectors, dimension, provider, changes, sync, alone, synced>>
<1>1. UNCHANGED Kept
    BY Zenon DEF RetrievalStep, StartRetrieval, EmbedChunk, EmbedLocally, RetryBatch, GiveUp,
       FallBack, QueryBatch, EmbedSingle, EndSingles
<1> QED
    BY <1>1 DEF Kept, storeVars, configVars, historyVars

LEMMA StepInv == Inv /\ [Next]_vars => Inv'
<1> SUFFICES ASSUME Inv, [Next]_vars PROVE Inv'
    OBVIOUS
<1>1. CASE \E t \in Task : SyncStep(t)
    BY <1>1, SyncStepInv
<1>2. CASE (\E p \in Provider : ChangeProvider(p)) \/ RetrievalStep \/ UNCHANGED vars
    <2>1. /\ UNCHANGED <<rows, vectors, sync, alone, synced>>
          /\ provider' \in Provider
        BY <1>2, RetrievalKeeps DEF ChangeProvider, vars, storeVars, configVars, historyVars,
             Inv, Typed
    <2> QED
        BY <2>1 DEF Inv, Typed, TasksInv, AloneInv, SyncedInv, WholeOrNothing,
             CleanSyncAgrees, Others
<1> QED
    BY <1>1, <1>2 DEF Next

THEOREM Bookkeeping == Spec => []Inv
    BY InitInv, StepInv, PTL DEF Spec

\* A reader of vulnerability_entries sees all entries or none, however syncs
\* overlap, conflict or die (the one commit of sync_swc).
THEOREM TableIsWhole == Spec => []WholeOrNothing
<1>1. Inv => WholeOrNothing
    BY DEF Inv
<1> QED
    BY <1>1, Bookkeeping, PTL

\* Postgres and Chroma hold the same entries after a sync that overlapped no
\* other and lost no entry, whatever was left there before it.
THEOREM StoresAgree == Spec => []CleanSyncAgrees
<1>1. Inv => CleanSyncAgrees
    BY DEF Inv
<1> QED
    BY <1>1, Bookkeeping, PTL

-----------------------------------------------------------------------------
(* Retrieval *)

\* What the batch has so far is an embedding for each text from the first on,
\* at the text's own place.
RetrievalRecord ==
    [at : {"idle", "batch", "single", "done", "gave_up"}, asked : Provider \cup {Absent},
     got : Seq(Nat), attempt : Nat, pos : Nat \ {0}, context : [Text -> Text \cup {Absent}]]

OwnPlace(got) == Len(got) <= TextCount /\ \A i \in 1 .. Len(got) : got[i] = i

RetrievalInv == retrieval \in RetrievalRecord /\ OwnPlace(retrieval.got) /\ ContextIsOwn

\* The index of each item is there once, so sorting puts the chunk in order.
LEMMA ChunkInOrder ==
    ASSUME NEW a \in Nat \ {0}, NEW b \in Nat, a <= b, NEW items \in SetToSeqs(a .. b)
    PROVE  ByIndex(items) = [k \in 1 .. (b - a + 1) |-> a + k - 1]
<1> DEFINE c == b - a + 1
<1>1. IsFiniteSet(a .. b) /\ Cardinality(a .. b) = c
    <2>1. IsFiniteSet(a .. b) /\ Cardinality(a .. b) = IF a > b THEN 0 ELSE b - a + 1
        BY FS_Interval
    <2> QED
        BY <2>1
<1>2. c \in Nat
    OBVIOUS
<1> HIDE DEF c
<1>3. IsFiniteSet(1 .. c) /\ Cardinality(1 .. c) = c
    <2>1. IsFiniteSet(1 .. c) /\ Cardinality(1 .. c) = IF 1 > c THEN 0 ELSE c - 1 + 1
        BY <1>2, FS_Interval
    <2> QED
        BY <1>2, <2>1
<1>4. items \in [1 .. c -> a .. b] /\ \A i, j \in 1 .. c : i # j => items[i] # items[j]
    BY <1>1 DEF SetToSeqs
<1>5. items \in Injection(1 .. c, a .. b)
    BY <1>4 DEF Injection, IsInjective
<1>6. items \in Surjection(1 .. c, a .. b)
    BY <1>1, <1>3, <1>5, FS_Injection
<1>7. ToSet(items) = a .. b
    BY <1>4, <1>6 DEF ToSet, Surjection
<1> QED
    BY <1>7, InOrderOfInterval DEF ByIndex

LEMMA Counts == TextCount \in Nat \ {0} /\ BatchLimit \in Nat \ {0}
    BY KnowledgeBaseAssumption

LEMMA NothingYet ==
    /\ NoRetrieval \in RetrievalRecord
    /\ NoRetrieval.got = <<>>
    /\ OwnPlace(<<>>)
    /\ \A i \in Text : NoRetrieval.context[i] = Absent
<1>1. [i \in Text |-> Absent] \in [Text -> Text \cup {Absent}] /\ <<>> \in Seq(Nat)
    OBVIOUS
<1>2. NoRetrieval \in RetrievalRecord
    BY <1>1 DEF NoRetrieval, RetrievalRecord
<1>3. OwnPlace(<<>>)
    BY Counts DEF OwnPlace
<1>4. NoRetrieval.context = [i \in Text |-> Absent] /\ NoRetrieval.got = <<>>
    BY DEF NoRetrieval
<1> QED
    BY <1>2, <1>3, <1>4

\* Starting, trying again, and giving up leave nothing of the batch.
LEMMA StartsOver ==
    ASSUME provider \in Provider, NEW n \in Nat
    PROVE  /\ Attempt(n) \in RetrievalRecord /\ Attempt(n).got = <<>>
           /\ Attempt(n).context = NoRetrieval.context
    BY NothingYet DEF RetrievalRecord, Attempt

LEMMA StartedOver ==
    ASSUME /\ retrieval' \in RetrievalRecord /\ retrieval'.got = <<>>
           /\ retrieval'.context = NoRetrieval.context
    PROVE  RetrievalInv'
    BY NothingYet DEF RetrievalInv, ContextIsOwn

LEMMA ChunkAppended ==
    ASSUME NEW n \in Nat, NEW got \in Seq(Nat), Len(got) = n, OwnPlace(got),
           NEW end \in Nat, n + 1 <= end, end <= TextCount,
           NEW items \in SetToSeqs((n + 1) .. end)
    PROVE  got \o ByIndex(items) \in Seq(Nat) /\ OwnPlace(got \o ByIndex(items))
<1> DEFINE c == end - n
           more == [k \in 1 .. c |-> n + k]
<1>1. c \in Nat /\ end = n + c
    OBVIOUS
<1>2. ByIndex(items) = more
    <2>1. ByIndex(items) = [k \in 1 .. (end - (n + 1) + 1) |-> (n + 1) + k - 1]
        BY ChunkInOrder
    <2>2. end - (n + 1) + 1 = c
        OBVIOUS
    <2>3. \A k \in 1 .. c : (n + 1) + k - 1 = n + k
        OBVIOUS
    <2> QED
        BY <2>1, <2>2, <2>3
<1> HIDE DEF c
<1>3. more \in [1 .. c -> Nat] /\ \A k \in 1 .. c : more[k] = n + k
    OBVIOUS
<1> HIDE DEF more
<1>4. more \in Seq(Nat) /\ Len(more) = c
    BY <1>1, <1>3
<1>5. /\ got \o more \in Seq(Nat) /\ Len(got \o more) = n + c
      /\ \A i \in 1 .. n + c : (got \o more)[i] = IF i <= n THEN got[i] ELSE more[i - n]
    BY <1>4, ConcatProperties
<1>6. ASSUME NEW i \in 1 .. n + c
      PROVE  (got \o more)[i] = i
    <2>1. CASE i <= n
        BY <1>5, <2>1 DEF OwnPlace
    <2>2. CASE ~ (i <= n)
        <3>1. i - n \in 1 .. c
            BY <1>1, <2>2
        <3>2. more[i - n] = n + (i - n)
            BY <1>3, <3>1
        <3> QED
            BY <1>5, <2>2, <3>2
    <2> QED
        BY <2>1, <2>2
<1>7. OwnPlace(got \o more)
    BY <1>1, <1>5, <1>6 DEF OwnPlace
<1> QED
    BY <1>2, <1>5, <1>7

LEMMA EmbedChunkInv ==
    ASSUME RetrievalInv, EmbedChunk
    PROVE  RetrievalInv'
<1> DEFINE end == IF Len(retrieval.got) + BatchLimit < TextCount
                  THEN Len(retrieval.got) + BatchLimit ELSE TextCount
<1>1. /\ retrieval.got \in Seq(Nat) /\ OwnPlace(retrieval.got)
      /\ Len(retrieval.got) \in Nat
    BY DEF RetrievalInv, RetrievalRecord
<1>2. Chunk = (Len(retrieval.got) + 1) .. end /\ Chunk # {}
    BY DEF EmbedChunk, Chunk
<1>3. end \in Nat /\ end <= TextCount
    BY <1>1, Counts
<1> HIDE DEF end
<1>4. Len(retrieval.got) + 1 <= end
    BY <1>1, <1>2, <1>3
<1>5. PICK items \in SetToSeqs((Len(retrieval.got) + 1) .. end) :
          retrieval' = [retrieval EXCEPT !.got = retrieval.got \o ByIndex(items)]
    BY <1>2 DEF EmbedChunk
<1> DEFINE now == retrieval.got \o ByIndex(items)
<1>6. now \in Seq(Nat) /\ OwnPlace(now)
    BY <1>1, <1>3, <1>4, ChunkAppended
<1>7. retrieval' = [retrieval EXCEPT !.got = now]
    BY <1>5
<1> HIDE DEF now
<1> QED
    BY <1>6, <1>7 DEF RetrievalInv, RetrievalRecord, ContextIsOwn

\* The query takes a batch that is complete.
LEMMA QueryBatchInv ==
    ASSUME RetrievalInv, QueryBatch
    PROVE  RetrievalInv'
<1>1. /\ retrieval.got \in Seq(Nat) /\ Len(retrieval.got) \in Nat
      /\ Len(retrieval.got) <= TextCount
      /\ \A i \in 1 .. Len(retrieval.got) : retrieval.got[i] = i
    BY DEF RetrievalInv, RetrievalRecord, OwnPlace
<1>2. Len(retrieval.got) = TextCount
    <2>1. SUFFICES ASSUME Len(retrieval.got) < TextCount PROVE FALSE
        BY <1>1, Counts
    <2>2. Len(retrieval.got) + 1 \in Chunk
        BY <1>1, <2>1, Counts DEF Chunk
    <2> QED
        BY <2>2 DEF QueryBatch
<1>3. \A i \in Text : retrieval.got[i] = i
    BY <1>1, <1>2 DEF Text
<1>4. ASSUME NEW down \in BOOLEAN
      PROVE  /\ Answered(down) \in RetrievalRecord /\ Answered(down).got = <<>>
             /\ \A i \in Text : Answered(down).context[i] \in {i, Absent}
    <2> DEFINE found == [i \in Text |->
                   IF Finds(retrieval.asked) /\ ~down THEN retrieval.got[i] ELSE Absent]
    <2>1. /\ found \in [Text -> Text \cup {Absent}]
          /\ \A i \in Text : found[i] \in {i, Absent}
        BY <1>3
    <2>2. Answered(down) = [NoRetrieval EXCEPT !.at = "done", !.context = found]
        BY DEF Answered
    <2> HIDE DEF found
    <2> QED
        BY <2>1, <2>2, NothingYet DEF RetrievalRecord
<1>5. PICK down \in BOOLEAN : retrieval' = Answered(down)
    BY DEF QueryBatch
<1> QED
    BY <1>4, <1>5, NothingYet DEF RetrievalInv, ContextIsOwn

LEMMA EmbedSingleInv ==
    ASSUME RetrievalInv, EmbedSingle
    PROVE  RetrievalInv'
<1> DEFINE i == retrieval.pos
<1>1. i \in Nat \ {0} /\ i \in Text /\ i + 1 \in Nat \ {0}
    BY Counts DEF EmbedSingle, RetrievalInv, RetrievalRecord, Text
<1>2. PICK found \in {i, Absent} :
          retrieval' = [retrieval EXCEPT !.context[i] = found, !.pos = i + 1]
    BY DEF EmbedSingle
<1>3. /\ retrieval.context \in [Text -> Text \cup {Absent}]
      /\ \A j \in Text : retrieval.context[j] \in {j, Absent}
    BY DEF RetrievalInv, RetrievalRecord, ContextIsOwn
<1> DEFINE context == [retrieval.context EXCEPT ![i] = found]
<1>4. /\ context \in [Text -> Text \cup {Absent}]
      /\ \A j \in Text : context[j] \in {j, Absent}
    BY <1>1, <1>3
<1> HIDE DEF context
<1>5. /\ retrieval' \in RetrievalRecord
      /\ retrieval'.context = context /\ retrieval'.got = retrieval.got
    <2>1. retrieval' = [retrieval EXCEPT !.context = context, !.pos = i + 1]
        BY <1>2 DEF context, RetrievalInv, RetrievalRecord
    <2> QED
        BY <1>1, <1>4, <2>1 DEF RetrievalInv, RetrievalRecord
<1> QED
    BY <1>4, <1>5 DEF RetrievalInv, ContextIsOwn

LEMMA EmbedLocallyInv ==
    ASSUME RetrievalInv, EmbedLocally
    PROVE  RetrievalInv'
<1> DEFINE all == [i \in Text |-> i]
<1>1. all \in Seq(Nat) /\ Len(all) = TextCount
    <2>1. all \in [1 .. TextCount -> Nat]
        BY Counts DEF Text
    <2> QED
        BY <2>1, Counts
<1>2. OwnPlace(all)
    BY <1>1, Counts DEF OwnPlace, Text
<1> HIDE DEF all
<1>3. retrieval' = [retrieval EXCEPT !.got = all]
    BY DEF EmbedLocally, all
<1> QED
    BY <1>1, <1>2, <1>3 DEF RetrievalInv, RetrievalRecord, ContextIsOwn

LEMMA InitRetrieval == Init => RetrievalInv
    BY NothingYet DEF Init, RetrievalInv, ContextIsOwn

LEMMA RetrievalStepInv ==
    ASSUME Typed, RetrievalInv, [Next]_vars
    PROVE  RetrievalInv'
<1>1. CASE (\E p \in Provider : ChangeProvider(p)) \/ (\E t \in Task : SyncStep(t))
           \/ UNCHANGED vars
    <2>1. ASSUME NEW t \in Task, SyncStep(t)
          PROVE  retrieval' = retrieval
        BY <2>1 DEF SyncStep, Start, LoadSnapshot, Fetch, Loaded, ReadRow,
             FlushRow, Commit, Embed, Upsert, SyncFails, InsertConflicts, EntryIsLost, Raises
    <2>2. retrieval' = retrieval
        BY <1>1, <2>1 DEF ChangeProvider, vars
    <2> QED
        BY <2>2 DEF RetrievalInv, ContextIsOwn
<1>2. CASE StartRetrieval \/ RetryBatch
    <2>1. retrieval.attempt + 1 \in Nat /\ provider \in Provider
        BY DEF Typed, RetrievalInv, RetrievalRecord
    <2>2. retrieval' = Attempt(1) \/ retrieval' = Attempt(retrieval.attempt + 1)
        BY <1>2 DEF StartRetrieval, RetryBatch
    <2> QED
        BY <2>1, <2>2, StartsOver, StartedOver
<1>3. CASE GiveUp \/ FallBack
    <2> DEFINE Ended(place) == [NoRetrieval EXCEPT !.at = place]
    <2>1. retrieval' = Ended("gave_up") \/ retrieval' = Ended("single")
        BY <1>3 DEF GiveUp, FallBack
    <2>2. \A place \in {"gave_up", "single"} :
              /\ Ended(place) \in RetrievalRecord /\ Ended(place).got = <<>>
              /\ Ended(place).context = NoRetrieval.context
        BY NothingYet DEF RetrievalRecord
    <2> HIDE DEF Ended
    <2> QED
        BY <2>1, <2>2, StartedOver
<1>4. CASE EndSingles
    BY <1>4 DEF EndSingles, RetrievalInv, RetrievalRecord, ContextIsOwn
<1> QED
    BY <1>1, <1>2, <1>3, <1>4, EmbedChunkInv, EmbedLocallyInv, QueryBatchInv, EmbedSingleInv
       DEF Next, RetrievalStep

\* The length of Chroma's vectors is that of some provider's.
Sizes == dimension \in Nat /\ changes \in Nat

LEMMA SizesStep ==
    ASSUME Inv, Sizes, [Next]_vars
    PROVE  Sizes'
<1>1. CASE \E p \in Provider : ChangeProvider(p)
    BY <1>1 DEF ChangeProvider, storeVars, Sizes
<1>2. ASSUME NEW t \in Task, SyncStep(t)
      PROVE  Sizes'
    <2>1. CASE Upsert(t)
        <3>1. sync[t].vector \in Provider
            BY <2>1 DEF Upsert, At, Inv, TasksInv, Shape
        <3>2. DimensionOf[sync[t].vector] \in Nat
            BY <3>1, KnowledgeBaseAssumption
        <3> QED
            BY <2>1, <3>2 DEF Upsert, configVars, Sizes
    <2>2. CASE ~ Upsert(t)
        BY <1>2, <2>2 DEF SyncStep, Start, LoadSnapshot, Fetch, Loaded, ReadRow, FlushRow, Commit,
             Embed, SyncFails, InsertConflicts, EntryIsLost, Raises, storeVars, configVars, Sizes
    <2> QED
        BY <2>1, <2>2
<1>3. CASE RetrievalStep \/ UNCHANGED vars
    <2>1. UNCHANGED <<dimension, changes>>
        BY <1>3, RetrievalKeeps DEF vars, storeVars, configVars
    <2> QED
        BY <2>1 DEF Sizes
<1> QED
    BY <1>1, <1>2, <1>3 DEF Next

THEOREM RetrievalBookkeeping == Spec => [](RetrievalInv /\ Sizes)
<1>1. Init => RetrievalInv /\ Sizes
    BY InitRetrieval DEF Init, Sizes
<1>2. Inv /\ RetrievalInv /\ Sizes /\ [Next]_vars => (RetrievalInv /\ Sizes)'
    BY RetrievalStepInv, SizesStep DEF Inv
<1> QED
    BY <1>1, <1>2, Bookkeeping, PTL DEF Spec

\* Every variable has its type: no more embeddings than texts, whatever is
\* retried, and a transaction writes entries only.
THEOREM TypeCorrect == Spec => []TypeOK
<1>1. Inv /\ RetrievalInv /\ Sizes => TypeOK
    <2>1. SUFFICES ASSUME Inv, RetrievalInv, Sizes PROVE TypeOK
        OBVIOUS
    <2>2. ASSUME NEW t \in Task
          PROVE  /\ sync[t].at \in Running \cup {"queued", "failed", "done"}
                 /\ sync[t].pos \in Entry
                 /\ DOMAIN sync[t].written \subseteq Entry
        <3>1. sync[t] \in SyncRecord
            BY <2>1 DEF Inv, Typed
        <3>2. PICK S \in SUBSET Entry : sync[t].written \in [S -> Edition]
            BY <3>1 DEF SyncRecord
        <3> QED
            BY <3>1, <3>2 DEF SyncRecord, Places
    <2>3. Len(retrieval.got) \in 0 .. TextCount
        <3>1. Len(retrieval.got) \in Nat /\ Len(retrieval.got) <= TextCount
            BY <2>1 DEF RetrievalInv, RetrievalRecord, OwnPlace
        <3> QED
            BY <3>1, Counts
    <2> QED
        BY <2>1, <2>2, <2>3 DEF TypeOK, Inv, Typed, Sizes, RetrievalInv, RetrievalRecord
<1> QED
    BY <1>1, Bookkeeping, RetrievalBookkeeping, PTL

\* Every function of a file is shown with entries retrieved for itself, for any
\* number of functions and any size of the batches, in whatever order the items
\* of a response come and however often the batch is tried again or given up
\* (get_embedding_batch sorts by index; execute_single_file falls back).
THEOREM OwnContext == Spec => []ContextIsOwn
<1>1. RetrievalInv => ContextIsOwn
    BY DEF RetrievalInv
<1> QED
    BY <1>1, RetrievalBookkeeping, PTL

-----------------------------------------------------------------------------
(* What the tokens of a text are within *)

LEMMA AfterIsWithin ==
    ASSUME NEW w \in Within, NEW t \in Token
    PROVE  After(w, t) \in Within
BY DEF After, Within, Begins, Quotes

LEMMA ReadingExists ==
    ASSUME NEW n \in Nat, NEW text \in [1 .. n -> Token]
    PROVE  \E f \in [1 .. n + 1 -> Within] :
              f = [i \in 1 .. n + 1 |-> IF i = 1 THEN "blank" ELSE After(f[i - 1], text[i - 1])]
<1> DEFINE Good == {m \in Nat : m <= n => \E f \in [1 .. m + 1 -> Within] :
                       /\ f[1] = "blank"
                       /\ \A i \in 1 .. m : f[i + 1] = After(f[i], text[i])}
<1>1. 0 \in Good
    <2> DEFINE f == [i \in 1 .. 0 + 1 |-> "blank"]
    <2>1. f \in [1 .. 0 + 1 -> Within] /\ f[1] = "blank"
        BY DEF Within
    <2>2. \A i \in 1 .. 0 : f[i + 1] = After(f[i], text[i])
        OBVIOUS
    <2> HIDE DEF f
    <2> QED
        BY <2>1, <2>2
<1>2. ASSUME NEW m \in Nat, m < n /\ m \in Good
      PROVE  m + 1 \in Good
    <2>1. PICK f \in [1 .. m + 1 -> Within] :
                /\ f[1] = "blank" /\ \A i \in 1 .. m : f[i + 1] = After(f[i], text[i])
        BY <1>2
    <2> DEFINE g == [i \in 1 .. (m + 1) + 1 |-> IF i = m + 2 THEN After(f[m + 1], text[m + 1]) ELSE f[i]]
    <2>2. After(f[m + 1], text[m + 1]) \in Within
        BY <1>2, <2>1, AfterIsWithin
    <2>3. g \in [1 .. (m + 1) + 1 -> Within]
        BY <2>2
    <2>4. g[1] = "blank"
        BY <2>1
    <2>5. \A i \in 1 .. m + 1 : g[i + 1] = After(g[i], text[i])
        BY <2>1
    <2> HIDE DEF g
    <2> QED
        BY <2>3, <2>4, <2>5
<1> HIDE DEF Good
<1>3. n \in Good
    BY <1>1, <1>2, UpTo
<1>4. PICK f \in [1 .. n + 1 -> Within] :
            /\ f[1] = "blank" /\ \A i \in 1 .. n : f[i + 1] = After(f[i], text[i])
    BY <1>3 DEF Good
<1>5. ASSUME NEW i \in 1 .. n + 1
      PROVE  f[i] = IF i = 1 THEN "blank" ELSE After(f[i - 1], text[i - 1])
    BY <1>4
<1>6. f = [i \in 1 .. n + 1 |-> IF i = 1 THEN "blank" ELSE After(f[i - 1], text[i - 1])]
    BY <1>5
<1> QED
    BY <1>6

LEMMA ReadingIs ==
    ASSUME NEW n \in Nat, NEW text \in [1 .. n -> Token], Len(text) = n
    PROVE  /\ Reading(text) \in [1 .. n + 1 -> Within]
           /\ Reading(text)[1] = "blank"
           /\ \A i \in 1 .. n : Reading(text)[i + 1] = After(Reading(text)[i], text[i])
<1> DEFINE Is(f) == f = [i \in 1 .. Len(text) + 1 |->
                           IF i = 1 THEN "blank" ELSE After(f[i - 1], text[i - 1])]
           r == CHOOSE g : Is(g)
<1>1. Reading(text) = r
    BY Zenon DEF Reading
<1>2. \E f : Is(f)
    <2>1. \E f \in [1 .. n + 1 -> Within] :
              f = [i \in 1 .. n + 1 |-> IF i = 1 THEN "blank" ELSE After(f[i - 1], text[i - 1])]
        BY ReadingExists
    <2> QED
        BY <2>1
<1>3. Is(r)
    BY <1>2, Zenon
<1> HIDE DEF r
<1>4. r = [i \in 1 .. n + 1 |-> IF i = 1 THEN "blank" ELSE After(r[i - 1], text[i - 1])]
    BY <1>3
<1>5. r[1] = "blank" /\ \A i \in 1 .. n : r[i + 1] = After(r[i], text[i])
    <2>1. \A i \in 1 .. n + 1 : r[i] = IF i = 1 THEN "blank" ELSE After(r[i - 1], text[i - 1])
        BY <1>4
    <2>2. \A i \in 1 .. n : i + 1 \in 1 .. n + 1 /\ i + 1 # 1 /\ (i + 1) - 1 = i
        OBVIOUS
    <2> QED
        BY <2>1, <2>2
<1> DEFINE Good == {m \in Nat : m <= n => r[m + 1] \in Within}
<1>6. 0 \in Good
    BY <1>5 DEF Within
<1>7. ASSUME NEW m \in Nat, m < n /\ m \in Good
      PROVE  m + 1 \in Good
    <2>1. m + 1 \in 1 .. n /\ r[m + 1] \in Within /\ text[m + 1] \in Token
        BY <1>7
    <2>2. r[(m + 1) + 1] \in Within
        BY <1>5, <2>1, AfterIsWithin
    <2> QED
        BY <2>2
<1> HIDE DEF Good
<1>8. ASSUME NEW i \in 1 .. n + 1
      PROVE  r[i] \in Within
    <2>1. i - 1 \in Nat /\ i - 1 <= n
        OBVIOUS
    <2>2. \A m \in Nat : m < i - 1 /\ m \in Good => m + 1 \in Good
        BY <1>7, <2>1
    <2>3. i - 1 \in Good
        BY <1>6, <2>1, <2>2, UpTo
    <2>4. r[(i - 1) + 1] \in Within /\ (i - 1) + 1 = i
        BY <2>1, <2>3 DEF Good
    <2> QED
        BY <2>4
<1>9. r \in [1 .. n + 1 -> Within]
    BY <1>8, <1>4
<1> QED
    BY <1>1, <1>5, <1>9

LEMMA CodeIs ==
    ASSUME NEW n \in Nat, NEW text \in [1 .. n -> Token], Len(text) = n
    PROVE  /\ Code(text) \in [1 .. n -> Token]
           /\ \A k \in 1 .. n : Code(text)[k] = IF Hidden(Reading(text)[k], text[k])
                                                THEN "blank" ELSE text[k]
<1>1. DOMAIN text = 1 .. n /\ "blank" \in Token
    BY DEF Token
<1> QED
    BY <1>1 DEF Code

\* The first of some positions is one of them and none is before it.
LEMMA FirstOfIs ==
    ASSUME NEW P \in SUBSET (Nat \ {0})
    PROVE  \/ FirstOf(P) = 0 /\ P = {}
           \/ FirstOf(P) \in P /\ \A p \in P : FirstOf(P) <= p
<1>1. CASE P = {}
    BY <1>1, Zenon DEF FirstOf
<1>2. CASE P # {}
    <2>1. \E m \in P : \A n \in P : m <= n
        BY <1>2, LeastNumber
    <2>2. Min(P) \in P /\ \A n \in P : Min(P) <= n
        BY <2>1, Zenon DEF Min
    <2>3. FirstOf(P) = Min(P)
        BY <1>2, Zenon DEF FirstOf
    <2> QED
        BY <2>2, <2>3
<1> QED
    BY <1>1, <1>2

\* What goes on from each position to the next holds on all of them.
Steady(r, w, a, b) == r[a] = w /\ \A k \in a .. b - 1 : r[k] = w => r[k + 1] = w

AllAlong(r, w, a, b) == \A k \in a .. b : r[k] = w

LEMMA GoesOn ==
    ASSUME NEW r, NEW w, NEW a \in Nat, NEW b \in Nat, Steady(r, w, a, b)
    PROVE  AllAlong(r, w, a, b)
<1> DEFINE Bad == {k \in a .. b : r[k] # w}
<1> SUFFICES ASSUME Bad # {}
             PROVE  FALSE
    BY DEF AllAlong
<1>1. PICK m \in Bad : \A k \in Bad : m <= k
    <2>1. Bad \in SUBSET Nat
        OBVIOUS
    <2> QED
        BY <2>1, LeastNumber
<1>2. m \in a .. b /\ r[m] # w /\ m # a
    BY <1>1 DEF Steady
<1>3. m - 1 \in a .. b - 1 /\ m - 1 \notin Bad /\ m - 1 \in a .. b /\ (m - 1) + 1 = m
    BY <1>1, <1>2
<1>4. r[m - 1] = w
    BY <1>3
<1>5. r[(m - 1) + 1] = w
    BY <1>3, <1>4 DEF Steady
<1> QED
    BY <1>2, <1>3, <1>5

\* The text before pos has lost its comments and literals, the rest is untouched, and
\* quote tells what pos is within; a line comment is left at the line end behind it.
MaskInv ==
    /\ source \in Seq(Token) /\ masked \in Seq(Token) /\ Len(masked) = Len(source)
    /\ pos \in Nat \ {0}
    /\ scan = "mask" =>
         /\ quote \in Quotes \cup {"blank"}
         /\ pos <= Len(source) =>
              \/ Reading(source)[pos] = quote
              \/ quote = "blank" /\ Reading(source)[pos] = "line_comment" /\ source[pos] = "newline"
         /\ \A k \in 1 .. Len(source) :
              masked[k] = IF k < pos THEN Code(source)[k] ELSE source[k]
    /\ scan # "mask" => masked = Code(source)

\* A step that blanks the tokens from pos to last, all of them hidden.
LEMMA BlankedFrom ==
    ASSUME MaskInv, scan = "mask", NEW last \in Nat, pos <= last,
           NEW next \in Nat, next = last + 1,
           \A k \in pos .. last : k <= Len(source) => Hidden(Reading(source)[k], source[k])
    PROVE  /\ Blank(pos, last) \in Seq(Token) /\ Len(Blank(pos, last)) = Len(source)
           /\ \A k \in 1 .. Len(source) :
                 Blank(pos, last)[k] = IF k < next THEN Code(source)[k] ELSE source[k]
<1> DEFINE n == Len(source)
<1>1. /\ n \in Nat /\ source \in [1 .. n -> Token] /\ masked \in [1 .. n -> Token]
      /\ Len(source) = n /\ pos \in Nat
    BY DEF MaskInv
<1>2. DOMAIN masked = 1 .. n
    BY <1>1
<1>3. \A k \in 1 .. n : Blank(pos, last)[k] = IF k \in pos .. last THEN "blank" ELSE masked[k]
    BY <1>2 DEF Blank
<1>4. \A k \in 1 .. n : masked[k] = IF k < pos THEN Code(source)[k] ELSE source[k]
    BY DEF MaskInv
<1>5. Blank(pos, last) \in [1 .. n -> Token]
    BY <1>1, <1>2 DEF Blank, Token
<1> HIDE DEF n
<1>6. \A k \in 1 .. n : Code(source)[k] = IF Hidden(Reading(source)[k], source[k])
                                          THEN "blank" ELSE source[k]
    BY <1>1, CodeIs
<1>7. ASSUME NEW k \in 1 .. n
      PROVE  Blank(pos, last)[k] = IF k < next THEN Code(source)[k] ELSE source[k]
    <2>1. CASE k \in pos .. last
        <3>1. Hidden(Reading(source)[k], source[k])
            BY <1>1, <2>1
        <3>2. k < next
            BY <1>1, <2>1
        <3> QED
            BY <1>3, <1>6, <2>1, <3>1, <3>2
    <2>2. CASE k \notin pos .. last
        <3>1. k < pos <=> k < next
            BY <1>1, <2>2
        <3> QED
            BY <1>3, <1>4, <2>2, <3>1
    <2> QED
        BY <2>1, <2>2
<1>8. Blank(pos, last) \in Seq(Token) /\ Len(Blank(pos, last)) = n
    BY <1>1, <1>5
<1> QED
    BY <1>1, <1>7, <1>8

\* The last token of a comment, and the reading in between: w until a token that ends it.
LEMMA WithinUntil ==
    ASSUME NEW n \in Nat, source \in [1 .. n -> Token], Len(source) = n,
           NEW i \in 1 .. n, NEW w, Reading(source)[i + 1] = w,
           NEW end \in i + 1 .. n + 1,
           \A k \in i + 1 .. end - 1 : After(w, source[k]) = w
    PROVE  AllAlong(Reading(source), w, i + 1, end)
<1> DEFINE r == Reading(source)
           a == i + 1
<1>1. \A k \in 1 .. n : r[k + 1] = After(r[k], source[k])
    BY ReadingIs
<1>2. r[a] = w
    OBVIOUS
<1> HIDE DEF r
<1>3. a \in Nat /\ end \in Nat /\ Steady(r, w, a, end)
    BY <1>1, <1>2 DEF Steady
<1> HIDE DEF a
<1>4. AllAlong(r, w, a, end)
    BY <1>3, GoesOn
<1> QED
    BY <1>4 DEF r, a

LEMMA MaskedLineComment ==
    ASSUME MaskInv, MaskLineComment
    PROVE  MaskInv'
<1> DEFINE n == Len(source)
           P == {j \in From(pos) : source[j] = "newline"}
           end == IF FirstOf(P) = 0 THEN Len(masked) + 1 ELSE FirstOf(P)
           last == end - 1
<1>1. /\ n \in Nat /\ Len(source) = n /\ Len(masked) = n /\ source \in [1 .. n -> Token]
      /\ scan = "mask" /\ pos \in 1 .. n /\ source[pos] = "line_comment" /\ quote = "blank"
      /\ masked' = Blank(pos, last) /\ pos' = end /\ UNCHANGED <<source, quote, scan>>
    BY DEF MaskInv, MaskLineComment, InCode
<1>2. Reading(source)[pos] = "blank"
    BY <1>1 DEF MaskInv
<1>3. /\ end \in Nat /\ end > pos /\ end <= n + 1
      /\ end <= n => source[end] = "newline"
      /\ \A k \in pos .. last : source[k] # "newline"
    <2>1. P \in SUBSET (Nat \ {0}) /\ \A k \in pos .. n : k \in P <=> source[k] = "newline"
        BY <1>1 DEF From
    <2>2. \A k \in P : k \in pos .. n
        BY <1>1 DEF From
    <2> HIDE DEF P
    <2>3. \/ FirstOf(P) = 0 /\ P = {}
          \/ FirstOf(P) \in P /\ \A k \in P : FirstOf(P) <= k
        BY <2>1, FirstOfIs
    <2> QED
        BY <1>1, <2>1, <2>2, <2>3
<1> HIDE DEF P, n
<1>4. last \in Nat /\ pos <= last /\ end = last + 1 /\ end \in pos + 1 .. n + 1
    BY <1>1, <1>3
<1> HIDE DEF last, end
<1>5. \A k \in 1 .. n : Reading(source)[k + 1] = After(Reading(source)[k], source[k])
    BY <1>1, ReadingIs
<1>6. Reading(source)[pos + 1] = "line_comment"
    BY <1>1, <1>2, <1>5 DEF After, Begins
<1>7. \A k \in pos + 1 .. end - 1 : After("line_comment", source[k]) = "line_comment"
    BY <1>1, <1>3, <1>4 DEF After
<1>8. \A k \in pos + 1 .. end : Reading(source)[k] = "line_comment"
    <2>1. AllAlong(Reading(source), "line_comment", pos + 1, end)
        BY <1>1, <1>4, <1>6, <1>7, WithinUntil
    <2> QED
        BY <2>1 DEF AllAlong
<1>9. \A k \in pos .. last : Hidden(Reading(source)[k], source[k])
    BY <1>1, <1>2, <1>3, <1>4, <1>8 DEF Hidden, Begins
<1>10. /\ masked' \in Seq(Token) /\ Len(masked') = n
       /\ \A k \in 1 .. n : masked'[k] = IF k < end THEN Code(source)[k] ELSE source[k]
    BY <1>1, <1>4, <1>9, BlankedFrom DEF n
<1>11. pos' <= n => Reading(source)[pos'] = "line_comment" /\ source[pos'] = "newline"
    BY <1>1, <1>3, <1>4, <1>8
<1>12. pos' \in Nat \ {0}
    BY <1>1, <1>4
<1> QED
    BY <1>1, <1>10, <1>11, <1>12 DEF MaskInv, n

LEMMA MaskedBlockComment ==
    ASSUME MaskInv, MaskBlockComment
    PROVE  MaskInv'
<1> DEFINE n == Len(source)
           P == {j \in From(pos + 1) : source[j] = "comment_close"}
           end == IF FirstOf(P) = 0 THEN Len(masked) ELSE FirstOf(P)
<1>1. /\ n \in Nat /\ Len(source) = n /\ Len(masked) = n /\ source \in [1 .. n -> Token]
      /\ scan = "mask" /\ pos \in 1 .. n /\ source[pos] = "comment_open" /\ quote = "blank"
      /\ masked' = Blank(pos, end) /\ pos' = end + 1 /\ UNCHANGED <<source, quote, scan>>
    BY DEF MaskInv, MaskBlockComment, InCode
<1>2. Reading(source)[pos] = "blank"
    BY <1>1 DEF MaskInv
<1>3. /\ end \in Nat /\ end >= pos /\ end <= n
      /\ end < n => source[end] = "comment_close" /\ end > pos
      /\ \A k \in pos + 1 .. end - 1 : source[k] # "comment_close"
    <2>1. P \in SUBSET (Nat \ {0}) /\ \A k \in pos + 1 .. n : k \in P <=> source[k] = "comment_close"
        BY <1>1 DEF From
    <2>2. \A k \in P : k \in pos + 1 .. n
        BY <1>1 DEF From
    <2> HIDE DEF P, n
    <2>3. CASE FirstOf(P) = 0 /\ P = {}
        <3>1. end = n
            BY <1>1, <2>3
        <3> QED
            BY <1>1, <2>1, <2>3, <3>1
    <2>4. CASE FirstOf(P) \in P /\ \A k \in P : FirstOf(P) <= k
        <3>1. end \in P /\ \A k \in P : end <= k
            BY <1>1, <2>1, <2>4
        <3> HIDE DEF end
        <3>2. end \in pos + 1 .. n /\ source[end] = "comment_close"
            BY <2>1, <2>2, <3>1
        <3>3. \A k \in pos + 1 .. end - 1 : k \in pos + 1 .. n /\ k \notin P
            BY <1>1, <3>1, <3>2
        <3> QED
            BY <1>1, <2>1, <3>2, <3>3
    <2> QED
        BY <2>1, <2>3, <2>4, FirstOfIs
<1> HIDE DEF P, n, end
<1>4. \A k \in 1 .. n : Reading(source)[k + 1] = After(Reading(source)[k], source[k])
    BY <1>1, ReadingIs
<1>5. Reading(source)[pos + 1] = "comment_open"
    BY <1>1, <1>2, <1>4 DEF After, Begins
<1>6. \A k \in pos + 1 .. end - 1 : After("comment_open", source[k]) = "comment_open"
    BY <1>1, <1>3 DEF After
<1>7. \A k \in pos + 1 .. end : Reading(source)[k] = "comment_open"
    <2>1. CASE end = pos
        BY <1>1, <2>1
    <2>2. CASE end # pos
        <3>1. end \in pos + 1 .. n + 1
            BY <1>1, <1>3, <2>2
        <3>2. AllAlong(Reading(source), "comment_open", pos + 1, end)
            BY <1>1, <1>5, <1>6, <3>1, WithinUntil
        <3> QED
            BY <3>2 DEF AllAlong
    <2> QED
        BY <2>1, <2>2
<1>8. \A k \in pos .. end : Hidden(Reading(source)[k], source[k])
    BY <1>1, <1>2, <1>3, <1>7 DEF Hidden, Begins
<1>9. /\ masked' \in Seq(Token) /\ Len(masked') = n
       /\ \A k \in 1 .. n : masked'[k] = IF k < end + 1 THEN Code(source)[k] ELSE source[k]
    BY <1>1, <1>3, <1>8, BlankedFrom DEF n
<1>10. pos' <= n => Reading(source)[pos'] = "blank"
    <2>1. SUFFICES ASSUME end < n
                   PROVE  Reading(source)[end + 1] = "blank"
        BY <1>1, <1>3
    <2>2. Reading(source)[end] = "comment_open" /\ source[end] = "comment_close" /\ end \in 1 .. n
        BY <1>1, <1>3, <1>7, <2>1
    <2> QED
        BY <1>4, <2>2 DEF After
<1>11. pos' \in Nat \ {0}
    BY <1>1, <1>3
<1> QED
    BY <1>1, <1>9, <1>10, <1>11 DEF MaskInv, n

LEMMA MaskedString ==
    ASSUME MaskInv, OpenString \/ InString
    PROVE  MaskInv'
<1> DEFINE n == Len(source)
           last == pos + Taken(pos) - 1
<1>1. /\ n \in Nat /\ Len(source) = n /\ Len(masked) = n /\ source \in [1 .. n -> Token]
      /\ scan = "mask" /\ pos \in 1 .. n /\ quote \in Quotes \cup {"blank"}
      /\ UNCHANGED <<source, scan>>
    BY DEF MaskInv, OpenString, InString, InCode
<1>2. \A k \in 1 .. n : Reading(source)[k + 1] = After(Reading(source)[k], source[k])
    BY <1>1, ReadingIs
<1>3. CASE OpenString
    <2>1. /\ source[pos] \in Quotes /\ quote = "blank" /\ quote' = source[pos]
          /\ masked' = Blank(pos, pos) /\ pos' = pos + 1
        BY <1>3 DEF OpenString, InCode, Quotes
    <2>2. Reading(source)[pos] = "blank"
        BY <1>1, <2>1 DEF MaskInv, Quotes
    <2>3. Hidden(Reading(source)[pos], source[pos])
        BY <2>1, <2>2 DEF Hidden, Begins
    <2>4. Reading(source)[pos + 1] = quote'
        BY <1>1, <1>2, <2>1, <2>2 DEF After, Begins
    <2>5. \A k \in pos .. pos : k = pos
        BY <1>1
    <2>6. pos \in Nat /\ pos + 1 \in Nat
        BY <1>1
    <2> HIDE DEF n
    <2>7. /\ masked' \in Seq(Token) /\ Len(masked') = n
          /\ \A k \in 1 .. n : masked'[k] = IF k < pos + 1 THEN Code(source)[k] ELSE source[k]
        BY <1>1, <2>1, <2>3, <2>5, <2>6, BlankedFrom DEF n
    <2>8. pos' \in Nat \ {0} /\ quote' \in Quotes \cup {"blank"}
        BY <2>1, <2>6
    <2> QED
        BY <1>1, <2>1, <2>4, <2>7, <2>8 DEF MaskInv, n
<1>4. CASE InString
    <2>1. /\ quote \in Quotes /\ quote' = IF source[pos] = quote THEN "blank" ELSE quote
          /\ masked' = Blank(pos, last) /\ pos' = pos + Taken(pos)
        BY <1>1, <1>4 DEF InString
    <2>2. Reading(source)[pos] = quote
        BY <1>1, <2>1 DEF MaskInv, Quotes
    <2>3. pos + 1 \in Nat /\ pos + 2 \in Nat /\ (pos + 1) + 1 = pos + 2
          /\ pos + 1 - 1 = pos /\ pos + 2 - 1 = pos + 1
        BY <1>1
    <2>4. Hidden(Reading(source)[pos], source[pos])
        BY <2>1, <2>2 DEF Hidden, Quotes
    <2>5. quote' \in Quotes \cup {"blank"}
        BY <2>1
    <2>6. CASE source[pos] = "backslash"
        <3>1. Taken(pos) = 2 /\ last = pos + 1 /\ pos' = pos + 2 /\ quote' = quote
            BY <2>1, <2>3, <2>6 DEF Taken, Quotes
        <3>2. Reading(source)[pos + 1] = IF quote = "double_quote" THEN "double_escaped"
                                                                  ELSE "single_escaped"
            BY <1>1, <1>2, <2>1, <2>2, <2>6 DEF After, Quotes
        <3>3. pos + 1 <= n => /\ Hidden(Reading(source)[pos + 1], source[pos + 1])
                              /\ Reading(source)[pos + 2] = quote
            <4>1. SUFFICES ASSUME pos + 1 \in 1 .. n
                           PROVE  /\ Hidden(Reading(source)[pos + 1], source[pos + 1])
                                  /\ Reading(source)[pos + 2] = quote
                BY <1>1
            <4>2. Reading(source)[pos + 2] = After(Reading(source)[pos + 1], source[pos + 1])
                BY <1>2, <2>3, <4>1
            <4> QED
                BY <2>1, <3>2, <4>2 DEF After, Hidden, Quotes
        <3>4. \A k \in pos .. pos + 1 : k = pos \/ k = pos + 1
            BY <1>1
        <3>5. pos \in Nat /\ pos <= pos + 1
            BY <1>1
        <3> HIDE DEF n, last
        <3>6. \A k \in pos .. pos + 1 : k <= n => Hidden(Reading(source)[k], source[k])
            BY <2>4, <3>3, <3>4
        <3>7. /\ masked' \in Seq(Token) /\ Len(masked') = n
              /\ \A k \in 1 .. n : masked'[k] = IF k < pos + 2 THEN Code(source)[k] ELSE source[k]
            BY <1>1, <2>1, <2>3, <3>1, <3>5, <3>6, BlankedFrom DEF n
        <3>8. pos' \in Nat \ {0}
            BY <2>3, <3>1, <3>5
        <3>9. pos' <= n => Reading(source)[pos'] = quote'
            BY <1>1, <3>1, <3>3
        <3> QED
            BY <1>1, <2>5, <3>1, <3>7, <3>8, <3>9 DEF MaskInv, n
    <2>7. CASE source[pos] # "backslash"
        <3>1. Taken(pos) = 1 /\ last = pos /\ pos' = pos + 1
            BY <2>1, <2>3, <2>7 DEF Taken
        <3>2. Reading(source)[pos + 1] = quote'
            BY <1>1, <1>2, <2>1, <2>2, <2>7 DEF After, Quotes
        <3>3. \A k \in pos .. pos : k = pos
            BY <1>1
        <3>4. pos \in Nat /\ pos + 1 \in Nat
            BY <1>1
        <3> HIDE DEF n, last
        <3>5. /\ masked' \in Seq(Token) /\ Len(masked') = n
              /\ \A k \in 1 .. n : masked'[k] = IF k < pos + 1 THEN Code(source)[k] ELSE source[k]
            BY <1>1, <2>1, <2>4, <3>1, <3>3, <3>4, BlankedFrom DEF n
        <3>6. pos' \in Nat \ {0}
            BY <3>1, <3>4
        <3> QED
            BY <1>1, <2>5, <3>1, <3>2, <3>5, <3>6 DEF MaskInv, n
    <2> QED
        BY <2>6, <2>7
<1> QED
    BY <1>3, <1>4

LEMMA KeptToken ==
    ASSUME MaskInv, KeepToken
    PROVE  MaskInv'
<1> DEFINE n == Len(source)
           t == source[pos]
<1>1. /\ n \in Nat /\ Len(source) = n /\ source \in [1 .. n -> Token]
      /\ scan = "mask" /\ pos \in 1 .. n /\ quote = "blank" /\ t \notin Begins
      /\ pos' = pos + 1 /\ UNCHANGED <<source, masked, quote, scan>>
    BY DEF MaskInv, KeepToken, InCode, Begins, Quotes
<1>2. /\ Reading(source)[pos + 1] = After(Reading(source)[pos], t)
      /\ Code(source)[pos] = IF Hidden(Reading(source)[pos], t) THEN "blank" ELSE t
    BY <1>1, ReadingIs, CodeIs
<1>3. \/ Reading(source)[pos] = "blank"
      \/ Reading(source)[pos] = "line_comment" /\ t = "newline"
    BY <1>1 DEF MaskInv
<1>4. Reading(source)[pos + 1] = "blank" /\ Code(source)[pos] = t
    BY <1>1, <1>2, <1>3 DEF After, Hidden
<1>5. \A k \in 1 .. n : masked[k] = IF k < pos THEN Code(source)[k] ELSE source[k]
    BY <1>1 DEF MaskInv
<1> HIDE DEF n
<1>6. \A k \in 1 .. n : k < pos + 1 <=> k < pos \/ k = pos
    BY <1>1
<1>7. \A k \in 1 .. n : masked[k] = IF k < pos + 1 THEN Code(source)[k] ELSE source[k]
    BY <1>4, <1>5, <1>6
<1>8. pos + 1 \in Nat \ {0}
    BY <1>1
<1> QED
    BY <1>1, <1>4, <1>7, <1>8 DEF MaskInv, n

LEMMA MaskEnded ==
    ASSUME MaskInv, EndMask
    PROVE  MaskInv'
<1> DEFINE n == Len(source)
<1>1. /\ n \in Nat /\ Len(source) = n /\ source \in [1 .. n -> Token] /\ masked \in [1 .. n -> Token]
      /\ pos > n /\ pos \in Nat /\ scan = "mask" /\ scan' = "units" /\ pos' = 1
      /\ UNCHANGED <<source, masked, quote>>
    BY DEF MaskInv, EndMask
<1>2. \A k \in 1 .. n : masked[k] = IF k < pos THEN Code(source)[k] ELSE source[k]
    BY <1>1 DEF MaskInv
<1>3. Code(source) \in [1 .. n -> Token]
    BY <1>1, CodeIs
<1> HIDE DEF n
<1>4. masked = Code(source)
    <2>1. \A k \in 1 .. n : masked[k] = Code(source)[k]
        BY <1>1, <1>2
    <2> QED
        BY <1>1, <1>3, <2>1
<1> QED
    BY <1>1, <1>4 DEF MaskInv

-----------------------------------------------------------------------------
(* The searches of the second pass *)

LEMMA FirstBehindIs ==
    ASSUME masked \in Seq(Token), NEW i \in Nat, NEW tokens, NEW j,
           FirstBehind(masked, i, tokens, j)
    PROVE  /\ FirstOf({k \in From(i + 1) : masked[k] \in tokens}) = j
           /\ j \in Nat /\ j > i /\ j <= Len(masked) /\ masked[j] \in tokens
<1> DEFINE n == Len(masked)
           P == {k \in From(i + 1) : masked[k] \in tokens}
<1>1. n \in Nat /\ j \in i + 1 .. n /\ masked[j] \in tokens
    BY DEF FirstBehind
<1>2. \A k \in i + 1 .. j - 1 : masked[k] \notin tokens
    BY DEF FirstBehind
<1>3. \A k \in P : k \in i + 1 .. n /\ masked[k] \in tokens
    BY DEF From
<1>4. P \in SUBSET (Nat \ {0}) /\ j \in P
    BY <1>1 DEF From
<1> HIDE DEF P, n
<1>5. \A k \in P : j <= k
    <2>1. ASSUME NEW k \in P, k < j
          PROVE  FALSE
        <3>1. k \in i + 1 .. j - 1
            BY <1>1, <1>3, <2>1
        <3> QED
            BY <1>2, <1>3, <3>1
    <2> QED
        BY <1>1, <1>3, <2>1
<1>6. FirstOf(P) \in P /\ \A k \in P : FirstOf(P) <= k
    BY <1>4, FirstOfIs
<1>7. FirstOf(P) = j
    <2>1. FirstOf(P) \in Nat /\ FirstOf(P) <= j /\ j <= FirstOf(P)
        BY <1>4, <1>5, <1>6
    <2> QED
        BY <1>1, <2>1
<1> QED
    BY <1>1, <1>7 DEF P, n

LEMMA FollowsIs ==
    ASSUME masked \in Seq(Token), NEW i \in Nat, NEW j, Follows(masked, i, j)
    PROVE  Visible(i + 1) = j /\ j \in Nat /\ j > i /\ j <= Len(masked)
<1>1. {k \in From(i + 1) : masked[k] \in Token \ Space} = {k \in From(i + 1) : masked[k] \notin Space}
    <2>1. \A k \in From(i + 1) : k \in 1 .. Len(masked)
        BY DEF From
    <2>2. \A k \in From(i + 1) : masked[k] \in Token
        BY <2>1
    <2> QED
        BY <2>2
<1>2. FirstBehind(masked, i, Token \ Space, j)
    BY DEF Follows
<1>3. /\ FirstOf({k \in From(i + 1) : masked[k] \in Token \ Space}) = j
      /\ j \in Nat /\ j > i /\ j <= Len(masked)
    BY <1>2, FirstBehindIs
<1> QED
    BY <1>1, <1>3 DEF Visible

LEMMA ClosesIs ==
    ASSUME masked \in Seq(Token), NEW i \in Nat \ {0}, NEW open, NEW close, NEW j,
           Closes(masked, i, open, close, j)
    PROVE  ClosedAt(i, open, close) = j /\ j \in Nat /\ j >= i /\ j <= Len(masked)
<1> DEFINE n == Len(masked)
           Even(k) == Cardinality({l \in i .. k : masked[l] = open})
                      = Cardinality({l \in i .. k : masked[l] = close})
           P == {k \in From(i) : Even(k)}
<1>1. n \in Nat /\ j \in i .. n /\ \A k \in i .. j : Even(k) <=> k = j
    BY DEF Closes
<1>2. ClosedAt(i, open, close) = FirstOf(P)
    BY DEF ClosedAt
<1> HIDE DEF Even
<1>3. \A k : k \in P <=> k \in i .. n /\ Even(k)
    BY DEF From
<1>4. P \in SUBSET (Nat \ {0}) /\ j \in P
    BY <1>1, <1>3
<1> HIDE DEF P, n
<1>5. \A k \in P : j <= k
    <2>1. ASSUME NEW k \in P, k < j
          PROVE  FALSE
        <3>1. k \in i .. j /\ Even(k)
            BY <1>1, <1>3, <2>1
        <3> QED
            BY <1>1, <2>1, <3>1
    <2> QED
        BY <1>1, <1>3, <2>1
<1>6. FirstOf(P) \in P /\ \A k \in P : FirstOf(P) <= k
    BY <1>4, FirstOfIs
<1>7. FirstOf(P) = j
    <2>1. FirstOf(P) \in Nat /\ FirstOf(P) <= j /\ j <= FirstOf(P)
        BY <1>4, <1>5, <1>6
    <2> QED
        BY <1>1, <2>1
<1> QED
    BY <1>1, <1>2, <1>7 DEF n

LEMMA HeaderEndsIs ==
    ASSUME masked \in Seq(Token), NEW a \in Nat \ {0}, NEW e, HeaderEnds(masked, a, e)
    PROVE  /\ ClosedAt(a, "lparen", "rparen") # 0
           /\ HeaderEnd(ClosedAt(a, "lparen", "rparen") + 1) = e
           /\ e \in Nat \ {0} /\ e > a /\ e <= Len(masked)
<1>1. PICK b \in DOMAIN masked : /\ Closes(masked, a, "lparen", "rparen", b)
                                 /\ FirstBehind(masked, b, {"lbrace", "semicolon"}, e)
    BY DEF HeaderEnds
<1>2. ClosedAt(a, "lparen", "rparen") = b /\ b \in Nat /\ b >= a /\ b <= Len(masked)
    BY <1>1, ClosesIs
<1>3. /\ FirstOf({k \in From(b + 1) : masked[k] \in {"lbrace", "semicolon"}}) = e
      /\ e \in Nat /\ e > b /\ e <= Len(masked)
    BY <1>1, <1>2, FirstBehindIs
<1>4. HeaderEnd(b + 1) = e
    BY <1>3 DEF HeaderEnd
<1> QED
    BY <1>2, <1>3, <1>4

LEMMA HeadingIs ==
    ASSUME masked \in Seq(Token), NEW d \in Nat \ {0}, NEW kind, NEW a, Heading(masked, d, kind, a)
    PROVE  KindAt(d) = kind /\ ParensAt(d) = a /\ a \in Nat \ {0} /\ a > d /\ a <= Len(masked)
<1>1. CASE masked[d] # "function" /\ kind = masked[d] /\ Follows(masked, d, a)
    <2>1. Visible(d + 1) = a /\ a \in Nat /\ a > d /\ a <= Len(masked)
        BY <1>1, FollowsIs
    <2> QED
        BY <1>1, <2>1 DEF KindAt, ParensAt
<1>2. CASE /\ masked[d] = "function" /\ kind = "fallback" /\ Follows(masked, d, a)
           /\ masked[a] \notin Identifier
    <2>1. Visible(d + 1) = a /\ a \in Nat /\ a > d /\ a <= Len(masked)
        BY <1>2, FollowsIs
    <2>2. ~ Named(d)
        BY <1>2, <2>1 DEF Named
    <2> QED
        BY <1>2, <2>1, <2>2 DEF KindAt, ParensAt
<1>3. CASE /\ masked[d] = "function" /\ kind = "function"
           /\ \E n \in DOMAIN masked : /\ Follows(masked, d, n) /\ masked[n] \in Identifier
                                       /\ Follows(masked, n, a)
    <2>1. PICK n \in DOMAIN masked : /\ Follows(masked, d, n) /\ masked[n] \in Identifier
                                     /\ Follows(masked, n, a)
        BY <1>3
    <2>2. Visible(d + 1) = n /\ n \in Nat /\ n > d
        BY <2>1, FollowsIs
    <2>3. Visible(n + 1) = a /\ a \in Nat /\ a > n /\ a <= Len(masked)
        BY <2>1, <2>2, FollowsIs
    <2>4. Named(d)
        BY <2>1, <2>2 DEF Named
    <2> QED
        BY <1>3, <2>2, <2>3, <2>4 DEF KindAt, ParensAt
<1> QED
    BY <1>1, <1>2, <1>3 DEF Heading

LEMMA BodyIsFound ==
    ASSUME masked \in Seq(Token), NEW d \in Nat \ {0}, NEW kind, NEW z, HasBody(masked, d, kind, z)
    PROVE  BodyEnd(d) = z /\ KindAt(d) = kind /\ z \in Nat \ {0} /\ z > d
<1>1. PICK a, e \in DOMAIN masked :
        /\ Heading(masked, d, kind, a) /\ masked[a] = "lparen"
        /\ HeaderEnds(masked, a, e) /\ masked[e] = "lbrace"
        /\ Closes(masked, e, "lbrace", "rbrace", z)
    BY DEF HasBody
<1>2. KindAt(d) = kind /\ ParensAt(d) = a /\ a \in Nat \ {0} /\ a > d
    BY <1>1, HeadingIs
<1>3. /\ ClosedAt(a, "lparen", "rparen") # 0
      /\ HeaderEnd(ClosedAt(a, "lparen", "rparen") + 1) = e
      /\ e \in Nat \ {0} /\ e > a
    BY <1>1, <1>2, HeaderEndsIs
<1>4. ClosedAt(e, "lbrace", "rbrace") = z /\ z \in Nat /\ z >= e
    BY <1>1, <1>3, ClosesIs
<1> QED
    BY <1>1, <1>2, <1>3, <1>4 DEF BodyEnd

LEMMA NoBodyIsFound ==
    ASSUME masked \in Seq(Token), NEW d \in Nat \ {0}, HasNoBody(masked, d)
    PROVE  BodyEnd(d) = 0
<1>1. PICK kind \in Declares, a \in DOMAIN masked :
        /\ Heading(masked, d, kind, a)
        /\ masked[a] = "lparen" =>
             \E e \in DOMAIN masked : HeaderEnds(masked, a, e) /\ masked[e] = "semicolon"
    BY DEF HasNoBody
<1>2. ParensAt(d) = a /\ a \in Nat \ {0}
    BY <1>1, HeadingIs
<1>3. CASE masked[a] # "lparen"
    BY <1>2, <1>3 DEF BodyEnd
<1>4. CASE masked[a] = "lparen"
    <2>1. PICK e \in DOMAIN masked : HeaderEnds(masked, a, e) /\ masked[e] = "semicolon"
        BY <1>1, <1>4
    <2>2. /\ ClosedAt(a, "lparen", "rparen") # 0
          /\ HeaderEnd(ClosedAt(a, "lparen", "rparen") + 1) = e
        BY <1>2, <2>1, HeaderEndsIs
    <2> QED
        BY <1>2, <1>4, <2>1, <2>2 DEF BodyEnd
<1> QED
    BY <1>3, <1>4

-----------------------------------------------------------------------------
(* Code that is a part of other code *)

\* The code c is the part of g behind the position o.
Carries(g, o, c) ==
    /\ g \in Seq(Token) /\ c \in Seq(Token) /\ o \in Nat /\ o + Len(c) <= Len(g)
    /\ \A k \in 1 .. Len(c) : g[o + k] = c[k]

LEMMA CarriedFirst ==
    ASSUME NEW g, NEW o, NEW c, Carries(g, o, c), NEW i \in Nat, NEW tokens, NEW j,
           FirstBehind(c, i, tokens, j)
    PROVE  FirstBehind(g, o + i, tokens, o + j) /\ j \in 1 .. Len(c)
<1> DEFINE n == Len(c)
           m == Len(g)
<1>1. o \in Nat /\ n \in Nat /\ m \in Nat /\ o + n <= m /\ \A k \in 1 .. n : g[o + k] = c[k]
    BY DEF Carries
<1>2. j \in i + 1 .. n /\ c[j] \in tokens /\ \A k \in i + 1 .. j - 1 : c[k] \notin tokens
    BY DEF FirstBehind
<1> HIDE DEF n, m
<1>3. j \in 1 .. n /\ o + j \in (o + i) + 1 .. m /\ g[o + j] \in tokens
    BY <1>1, <1>2
<1>4. ASSUME NEW k \in (o + i) + 1 .. (o + j) - 1
      PROVE  g[k] \notin tokens
    <2>1. PICK l \in i + 1 .. j - 1 : o + l = k
        <3>1. k - o \in i + 1 .. j - 1 /\ o + (k - o) = k
            BY <1>1, <1>2
        <3> QED
            BY <3>1
    <2>2. l \in 1 .. n
        BY <1>1, <1>2, <2>1
    <2>3. g[o + l] = c[l] /\ c[l] \notin tokens
        BY <1>1, <1>2, <2>1, <2>2
    <2> QED
        BY <2>1, <2>3
<1> QED
    BY <1>3, <1>4 DEF FirstBehind, m, n

Count(s, b, i, k) == Cardinality({l \in i .. k : s[l] = b})

LEMMA CarriedCount ==
    ASSUME NEW g, NEW o, NEW c, Carries(g, o, c), NEW i \in Nat \ {0}, NEW k \in Nat, k <= Len(c),
           NEW b
    PROVE  Count(g, b, o + i, o + k) = Count(c, b, i, k)
<1> DEFINE S == {l \in i .. k : c[l] = b}
           T == {l \in o + i .. o + k : g[l] = b}
           f == [l \in S |-> o + l]
<1>1. o \in Nat /\ \A l \in i .. k : g[o + l] = c[l]
    BY DEF Carries
<1>2. S \in SUBSET (1 .. k) /\ S \in SUBSET Nat
    OBVIOUS
<1>3. IsFiniteSet(S)
    BY <1>2, Positions
<1>4. f \in [S -> T]
    BY <1>1
<1>5. \A l, l2 \in S : f[l] = f[l2] => l = l2
    BY <1>1, <1>2
<1>6. ASSUME NEW t \in T
      PROVE  \E l \in S : f[l] = t
    <2>1. t - o \in i .. k /\ o + (t - o) = t
        BY <1>1
    <2>2. c[t - o] = b
        BY <1>1, <2>1
    <2>3. t - o \in S /\ f[t - o] = t
        BY <2>1, <2>2
    <2> QED
        BY <2>3
<1> HIDE DEF S, T, f
<1>7. f \in Bijection(S, T)
    BY <1>4, <1>5, <1>6 DEF Bijection, Injection, IsInjective, Surjection
<1>8. ExistsBijection(S, T)
    BY <1>7 DEF ExistsBijection
<1>9. Cardinality(T) = Cardinality(S)
    BY <1>3, <1>8, FS_Bijection
<1> QED
    BY <1>9 DEF S, T, Count

LEMMA CarriedClose ==
    ASSUME NEW g, NEW o, NEW c, Carries(g, o, c), NEW i \in Nat \ {0}, NEW open, NEW close, NEW j,
           Closes(c, i, open, close, j)
    PROVE  Closes(g, o + i, open, close, o + j) /\ j \in 1 .. Len(c)
<1> DEFINE n == Len(c)
           m == Len(g)
<1>1. o \in Nat /\ n \in Nat /\ m \in Nat /\ o + n <= m
    BY DEF Carries
<1>2. /\ j \in i .. n
      /\ \A k \in i .. j : Count(c, open, i, k) = Count(c, close, i, k) <=> k = j
    BY DEF Closes, Count
<1>3. ASSUME NEW k \in Nat, k <= n, NEW b
      PROVE  Count(g, b, o + i, o + k) = Count(c, b, i, k)
    BY <1>3, CarriedCount
<1> HIDE DEF n, m
<1>4. ASSUME NEW k \in o + i .. o + j
      PROVE  Count(g, open, o + i, k) = Count(g, close, o + i, k) <=> k = o + j
    <2>1. PICK l \in i .. j : o + l = k
        <3>1. k - o \in i .. j /\ o + (k - o) = k
            BY <1>1, <1>2
        <3> QED
            BY <3>1
    <2>2. l \in Nat /\ l <= n /\ (l = j <=> k = o + j)
        BY <1>1, <1>2, <2>1
    <2>3. /\ Count(g, open, o + i, o + l) = Count(c, open, i, l)
          /\ Count(g, close, o + i, o + l) = Count(c, close, i, l)
        BY <1>3, <2>2
    <2> QED
        BY <1>2, <2>1, <2>2, <2>3
<1>5. j \in 1 .. n /\ o + j \in o + i .. m
    BY <1>1, <1>2
<1> QED
    BY <1>4, <1>5 DEF Closes, Count, m, n

LEMMA CarriedHeading ==
    ASSUME NEW g, NEW o, NEW c, Carries(g, o, c), NEW d \in 1 .. Len(c), NEW kind, NEW a,
           Heading(c, d, kind, a)
    PROVE  Heading(g, o + d, kind, o + a) /\ a \in 1 .. Len(c) /\ o + a \in 1 .. Len(g)
<1>1. /\ o \in Nat /\ Len(c) \in Nat /\ Len(g) \in Nat /\ o + Len(c) <= Len(g)
      /\ DOMAIN c = 1 .. Len(c) /\ DOMAIN g = 1 .. Len(g)
      /\ \A k \in 1 .. Len(c) : g[o + k] = c[k]
    BY DEF Carries
<1>2. d \in Nat /\ g[o + d] = c[d]
    BY <1>1
<1>3. ASSUME Follows(c, d, a)
      PROVE  Follows(g, o + d, o + a) /\ a \in 1 .. Len(c) /\ g[o + a] = c[a]
    <2>1. FirstBehind(c, d, Token \ Space, a)
        BY <1>3 DEF Follows
    <2>2. FirstBehind(g, o + d, Token \ Space, o + a) /\ a \in 1 .. Len(c)
        BY <1>2, <2>1, CarriedFirst
    <2> QED
        BY <1>1, <2>2 DEF Follows
<1>4. CASE c[d] # "function" /\ kind = c[d] /\ Follows(c, d, a)
    <2>1. Heading(g, o + d, kind, o + a)
        BY <1>2, <1>3, <1>4 DEF Heading
    <2> QED
        BY <1>1, <1>3, <1>4, <2>1
<1>5. CASE c[d] = "function" /\ kind = "fallback" /\ Follows(c, d, a) /\ c[a] \notin Identifier
    <2>1. Heading(g, o + d, kind, o + a)
        BY <1>2, <1>3, <1>5 DEF Heading
    <2> QED
        BY <1>1, <1>3, <1>5, <2>1
<1>6. CASE /\ c[d] = "function" /\ kind = "function"
           /\ \E n \in DOMAIN c : Follows(c, d, n) /\ c[n] \in Identifier /\ Follows(c, n, a)
    <2>1. PICK n \in DOMAIN c : Follows(c, d, n) /\ c[n] \in Identifier /\ Follows(c, n, a)
        BY <1>6
    <2>2. n \in Nat /\ n \in 1 .. Len(c) /\ g[o + n] = c[n] /\ o + n \in DOMAIN g
        BY <1>1
    <2>3. FirstBehind(c, d, Token \ Space, n) /\ FirstBehind(c, n, Token \ Space, a)
        BY <2>1 DEF Follows
    <2>4. FirstBehind(g, o + d, Token \ Space, o + n)
        BY <1>2, <2>3, CarriedFirst
    <2>5. FirstBehind(g, o + n, Token \ Space, o + a) /\ a \in 1 .. Len(c)
        BY <2>2, <2>3, CarriedFirst
    <2>6. Heading(g, o + d, kind, o + a)
        BY <1>2, <1>6, <2>1, <2>2, <2>4, <2>5 DEF Heading, Follows
    <2> QED
        BY <1>1, <2>5, <2>6
<1> QED
    BY <1>4, <1>5, <1>6 DEF Heading

LEMMA CarriedHeaderEnds ==
    ASSUME NEW g, NEW o, NEW c, Carries(g, o, c), NEW a \in 1 .. Len(c), NEW e,
           HeaderEnds(c, a, e)
    PROVE  HeaderEnds(g, o + a, o + e) /\ e \in 1 .. Len(c)
<1>1. /\ o \in Nat /\ Len(c) \in Nat /\ Len(g) \in Nat /\ o + Len(c) <= Len(g)
      /\ DOMAIN c = 1 .. Len(c) /\ DOMAIN g = 1 .. Len(g)
    BY DEF Carries
<1>2. PICK b \in DOMAIN c : /\ Closes(c, a, "lparen", "rparen", b)
                            /\ FirstBehind(c, b, {"lbrace", "semicolon"}, e)
    BY DEF HeaderEnds
<1>3. a \in Nat \ {0} /\ b \in Nat /\ o + b \in DOMAIN g
    BY <1>1
<1>4. Closes(g, o + a, "lparen", "rparen", o + b)
    BY <1>2, <1>3, CarriedClose
<1>5. FirstBehind(g, o + b, {"lbrace", "semicolon"}, o + e) /\ e \in 1 .. Len(c)
    BY <1>2, <1>3, CarriedFirst
<1> QED
    BY <1>3, <1>4, <1>5 DEF HeaderEnds

LEMMA CarriedBody ==
    ASSUME NEW g, NEW o, NEW c, Carries(g, o, c), NEW d \in 1 .. Len(c), NEW kind, NEW z,
           HasBody(c, d, kind, z)
    PROVE  HasBody(g, o + d, kind, o + z)
<1>1. /\ o \in Nat /\ Len(c) \in Nat /\ Len(g) \in Nat /\ o + Len(c) <= Len(g)
      /\ DOMAIN c = 1 .. Len(c) /\ DOMAIN g = 1 .. Len(g)
      /\ \A k \in 1 .. Len(c) : g[o + k] = c[k]
    BY DEF Carries
<1>2. PICK a, e \in DOMAIN c :
        /\ Heading(c, d, kind, a) /\ c[a] = "lparen"
        /\ HeaderEnds(c, a, e) /\ c[e] = "lbrace"
        /\ Closes(c, e, "lbrace", "rbrace", z)
    BY DEF HasBody
<1>3. /\ o + a \in DOMAIN g /\ o + e \in DOMAIN g /\ g[o + a] = "lparen" /\ g[o + e] = "lbrace"
      /\ a \in 1 .. Len(c) /\ e \in Nat \ {0}
    BY <1>1, <1>2
<1>4. Heading(g, o + d, kind, o + a)
    BY <1>2, CarriedHeading
<1>5. HeaderEnds(g, o + a, o + e)
    BY <1>2, <1>3, CarriedHeaderEnds
<1>6. Closes(g, o + e, "lbrace", "rbrace", o + z)
    BY <1>2, <1>3, CarriedClose
<1> QED
    BY <1>3, <1>4, <1>5, <1>6 DEF HasBody

LEMMA CarriedNoBody ==
    ASSUME NEW g, NEW o, NEW c, Carries(g, o, c), NEW d \in 1 .. Len(c), HasNoBody(c, d)
    PROVE  HasNoBody(g, o + d)
<1>1. /\ o \in Nat /\ Len(c) \in Nat /\ Len(g) \in Nat /\ o + Len(c) <= Len(g)
      /\ DOMAIN c = 1 .. Len(c) /\ DOMAIN g = 1 .. Len(g)
      /\ \A k \in 1 .. Len(c) : g[o + k] = c[k]
    BY DEF Carries
<1>2. PICK kind \in Declares, a \in DOMAIN c :
        /\ Heading(c, d, kind, a)
        /\ c[a] = "lparen" => \E e \in DOMAIN c : HeaderEnds(c, a, e) /\ c[e] = "semicolon"
    BY DEF HasNoBody
<1>3. o + a \in DOMAIN g /\ g[o + a] = c[a] /\ a \in 1 .. Len(c)
    BY <1>1
<1>4. Heading(g, o + d, kind, o + a)
    BY <1>2, CarriedHeading
<1>5. ASSUME g[o + a] = "lparen"
      PROVE  \E e \in DOMAIN g : HeaderEnds(g, o + a, e) /\ g[e] = "semicolon"
    <2>1. PICK e \in DOMAIN c : HeaderEnds(c, a, e) /\ c[e] = "semicolon"
        BY <1>2, <1>3, <1>5
    <2>2. o + e \in DOMAIN g /\ g[o + e] = "semicolon"
        BY <1>1, <2>1
    <2>3. HeaderEnds(g, o + a, o + e)
        BY <1>3, <2>1, CarriedHeaderEnds
    <2> QED
        BY <2>2, <2>3
<1> QED
    BY <1>2, <1>3, <1>4, <1>5 DEF HasNoBody

-----------------------------------------------------------------------------
(* Where the members are in the source *)

\* The source is still the one that was chosen at the start.
Built(n) ==
    /\ n \in Nat /\ members \in [1 .. n -> Pieces]
    /\ source = Opening \o TextOf(members) \o Ending

Texts == [i \in DOMAIN members |-> members[i].tokens]

\* The tokens of the first i members and the opening.
Offset(f, i) == 2 + LenOf(f, i)

LEMMA TextsAre ==
    ASSUME NEW n, Built(n)
    PROVE  /\ Texts \in [1 .. n -> Seq(Token)] /\ TextOf(members) = FlattenSeq(Texts)
           /\ \A i \in 1 .. n : Texts[i] = members[i].tokens
<1>1. n \in Nat /\ members \in [1 .. n -> Pieces] /\ DOMAIN members = 1 .. n
    BY DEF Built
<1>2. \A p \in Pieces : p.tokens \in Seq(Token)
    BY SolidityUnitsAssumption
<1> QED
    BY <1>1, <1>2 DEF Texts, TextOf

LEMMA StartOfIs ==
    ASSUME NEW n, Built(n), NEW f, Appended(f, Texts, n, Token), NEW i \in Nat, NEW h \in 1 .. n, h = i + 1
    PROVE  StartOf(h) = Offset(f, i) + 1
<1> DEFINE some == [k \in 1 .. i |-> Texts[k]]
           g == [k \in 1 .. i |-> f[k]]
           sub == SubSeq(members, 1, h - 1)
<1>1. /\ n \in Nat /\ Texts \in [1 .. n -> Seq(Token)] /\ f \in [1 .. n -> Seq(Token)]
      /\ members \in [1 .. n -> Pieces] /\ \A k \in 1 .. n : Texts[k] = members[k].tokens
    BY TextsAre DEF Built, Appended
<1>2. h - 1 = i /\ i \in Nat /\ i <= n
    BY <1>1
<1>3. sub = [k \in 1 .. i |-> members[k]]
    <2>1. members \in Seq(Pieces) /\ Len(members) = n
        BY <1>1
    <2> QED
        BY <1>1, <1>2, <2>1
<1>4. DOMAIN sub = 1 .. i /\ \A k \in 1 .. i : k \in 1 .. n /\ sub[k] = members[k]
    BY <1>1, <1>2, <1>3
<1> HIDE DEF sub
<1>5. TextOf(sub) = FlattenSeq(some)
    <2>1. [k \in DOMAIN sub |-> sub[k].tokens] = some
        BY <1>1, <1>4
    <2> QED
        BY <2>1 DEF TextOf
<1>6. some \in [1 .. i -> Seq(Token)] /\ g \in [1 .. i -> Seq(Token)]
    BY <1>1, <1>2
<1>7. Appends(g, some)
    <2>1. \A k \in 1 .. n : f[k] = IF k = 1 THEN Texts[k] ELSE f[k - 1] \o Texts[k]
        BY <1>1 DEF Appended, Appends
    <2>2. \A k \in 1 .. i : k \in 1 .. n /\ (k # 1 => k - 1 \in 1 .. i)
        BY <1>1, <1>2
    <2>3. \A k \in 1 .. i : g[k] = IF k = 1 THEN some[k] ELSE g[k - 1] \o some[k]
        BY <2>1, <2>2
    <2>4. DOMAIN some = 1 .. i
        OBVIOUS
    <2> HIDE DEF some, g
    <2> QED
        BY <2>3, <2>4 DEF Appends
<1> HIDE DEF some
<1>8. FlattenSeq(some) = IF i = 0 THEN <<>> ELSE g[i]
    <2> HIDE DEF g
    <2> QED
        BY <1>6, <1>7, FlattenIs
<1>9. Len(FlattenSeq(some)) = LenOf(f, i)
    <2>1. CASE i = 0
        BY <1>8, <2>1 DEF LenOf
    <2>2. CASE i # 0
        <3>1. g[i] = f[i]
            BY <2>2
        <3> QED
            BY <1>8, <2>2, <3>1 DEF LenOf
    <2> QED
        BY <2>1, <2>2
<1>10. LenOf(f, i) \in Nat
    <2>1. i # 0 => f[i] \in Seq(Token)
        BY <1>1, <1>2
    <2> QED
        BY <2>1 DEF LenOf
<1>11. StartOf(h) = 1 + 2 + Len(TextOf(sub))
    <2>1. Len(Opening) = 2
        BY DEF Opening
    <2> QED
        BY <2>1 DEF StartOf, sub
<1> QED
    BY <1>5, <1>9, <1>10, <1>11 DEF Offset

\* The members follow one another, behind the opening and before the ending.
LaidOut(n, f) ==
    /\ Appended(f, Texts, n, Token)
    /\ source \in Seq(Token) /\ Len(source) = Offset(f, n) + 2
    /\ source[1] = "name" /\ source[2] = "lbrace"
    /\ source[Offset(f, n) + 1] = "rbrace" /\ source[Offset(f, n) + 2] = "newline"
    /\ \A k \in 1 .. LenOf(f, n) : source[2 + k] = f[n][k]

LEMMA SourceIsLaidOut ==
    ASSUME NEW n, Built(n)
    PROVE  \E f : LaidOut(n, f)
<1>1. n \in Nat /\ Texts \in [1 .. n -> Seq(Token)] /\ TextOf(members) = FlattenSeq(Texts)
    BY TextsAre DEF Built
<1>2. PICK f \in [1 .. n -> Seq(Token)] :
            Appends(f, Texts) /\ FlattenSeq(Texts) = IF n = 0 THEN <<>> ELSE f[n]
    BY <1>1, FlattenProperties
<1> DEFINE text == FlattenSeq(Texts)
           m == Len(text)
<1>3. text \in Seq(Token) /\ m = LenOf(f, n) /\ (n # 0 => text = f[n])
    BY <1>1, <1>2 DEF LenOf
<1>4. source = Opening \o text \o Ending
    BY <1>1 DEF Built
<1>5. m = Len(text)
    OBVIOUS
<1> HIDE DEF text, m
<1>6. m \in Nat
    BY <1>3, <1>5
<1>7. /\ Opening \in Seq(Token) /\ Len(Opening) = 2 /\ Opening[1] = "name" /\ Opening[2] = "lbrace"
      /\ Ending \in Seq(Token) /\ Len(Ending) = 2 /\ Ending[1] = "rbrace" /\ Ending[2] = "newline"
    BY DEF Opening, Ending, Token
<1> DEFINE front == Opening \o text
<1>8. front \in Seq(Token) /\ Joins(front, Opening, 2, text, m)
    BY <1>3, <1>5, <1>6, <1>7, JoinedLists
<1>9. source = front \o Ending
    BY <1>4
<1> HIDE DEF front
<1>10. /\ front \in Seq(Token) /\ Len(front) = 2 + m
       /\ \A k \in 1 .. 2 + m : front[k] = IF k <= 2 THEN Opening[k] ELSE text[k - 2]
    BY <1>8 DEF Joins
<1>11. 2 + m \in Nat
    BY <1>6
<1>12. source \in Seq(Token) /\ Joins(source, front, 2 + m, Ending, 2)
    <2> DEFINE l == 2 + m
           two == 2
    <2>1. /\ l \in Nat /\ front \in Seq(Token) /\ Len(front) = l
          /\ two \in Nat /\ Ending \in Seq(Token) /\ Len(Ending) = two
        BY <1>7, <1>10, <1>11
    <2> HIDE DEF l, two
    <2>2. front \o Ending \in Seq(Token) /\ Joins(front \o Ending, front, l, Ending, two)
        BY <2>1, JoinedLists
    <2> QED
        BY <1>9, <2>2 DEF l, two
<1>13. /\ Len(source) = (2 + m) + 2
       /\ \A k \in 1 .. (2 + m) + 2 : source[k] = IF k <= 2 + m THEN front[k] ELSE Ending[k - (2 + m)]
    BY <1>12 DEF Joins
<1>14. source[1] = "name" /\ source[2] = "lbrace"
    <2>1. 1 \in 1 .. 2 + m /\ 2 \in 1 .. 2 + m /\ 1 \in 1 .. (2 + m) + 2 /\ 2 \in 1 .. (2 + m) + 2
        BY <1>6
    <2>2. 1 <= 2 + m /\ 2 <= 2 + m
        BY <1>6
    <2> QED
        BY <1>7, <1>10, <1>13, <2>1, <2>2
<1>15. source[(2 + m) + 1] = "rbrace" /\ source[(2 + m) + 2] = "newline"
    <2> DEFINE a == (2 + m) + 1
               b == (2 + m) + 2
    <2>1. /\ a \in 1 .. (2 + m) + 2 /\ ~ (a <= 2 + m) /\ a - (2 + m) = 1
          /\ b \in 1 .. (2 + m) + 2 /\ ~ (b <= 2 + m) /\ b - (2 + m) = 2
        BY <1>6
    <2> HIDE DEF a, b
    <2>2. source[a] = Ending[1] /\ source[b] = Ending[2]
        BY <1>13, <2>1
    <2> QED
        BY <1>7, <2>2 DEF a, b
<1>16. \A k \in 1 .. m : source[2 + k] = text[k]
    <2>1. \A k \in 1 .. m : /\ 2 + k \in 1 .. 2 + m /\ 2 + k \in 1 .. (2 + m) + 2
                            /\ 2 + k <= 2 + m /\ ~ (2 + k <= 2) /\ (2 + k) - 2 = k
        BY <1>6
    <2> QED
        BY <1>10, <1>13, <2>1
<1>17. \A k \in 1 .. m : n # 0 /\ source[2 + k] = f[n][k]
    <2>1. n = 0 => m = 0
        BY <1>3 DEF LenOf
    <2> QED
        BY <1>3, <1>6, <1>16, <2>1
<1>18. Appended(f, Texts, n, Token)
    BY <1>1, <1>2 DEF Appended
<1> QED
    BY <1>3, <1>12, <1>13, <1>14, <1>15, <1>17, <1>18 DEF LaidOut, Offset

\* The h-th member is what is behind the position a, and it ends at b.
Lies(h, a, b) ==
    /\ a \in Nat /\ b \in Nat /\ Texts[h] \in Seq(Token) /\ b = a + Len(Texts[h]) /\ StartOf(h) = a + 1
    /\ b + 2 <= Len(source)
    /\ \A k \in 1 .. Len(Texts[h]) : source[a + k] = Texts[h][k]

LEMMA MemberLies ==
    ASSUME NEW n, Built(n), NEW f, LaidOut(n, f), NEW i \in Nat, NEW h \in 1 .. n, h = i + 1
    PROVE  Lies(h, Offset(f, i), Offset(f, h))
<1> DEFINE a == LenOf(f, i)
           b == LenOf(f, h)
           c == LenOf(f, n)
           l == Len(Texts[h])
<1>1. n \in Nat /\ Appended(f, Texts, n, Token) /\ Texts[h] \in Seq(Token)
    BY TextsAre DEF Built, LaidOut
<1>2. a \in Nat /\ b \in Nat /\ l \in Nat /\ b = a + l
    <2>1. Grows(f, Texts, i, h)
        BY <1>1, OneMoreIs
    <2> QED
        BY <2>1 DEF Grows
<1>3. c \in Nat
    <2>1. n \in 1 .. n /\ \A k \in 1 .. n : f[k] \in Seq(Token)
        BY <1>1 DEF Appended
    <2> QED
        BY <2>1 DEF LenOf
<1>4. b <= c /\ \A k \in 1 .. l : f[n][a + k] = Texts[h][k]
    <2>1. n \in 1 .. n /\ h \in 1 .. n
        BY <1>1
    <2>2. Holds(f, Texts, i, h, n)
        BY <1>1, <2>1, EarlierListsStay
    <2> QED
        BY <2>2 DEF Holds
<1>5. /\ Len(source) = (2 + c) + 2
      /\ \A k \in 1 .. c : source[2 + k] = f[n][k]
    BY DEF LaidOut, Offset
<1>6. StartOf(h) = (2 + a) + 1
    BY <1>1, StartOfIs DEF Offset
<1>7. Offset(f, i) = 2 + a /\ Offset(f, h) = 2 + b
    BY DEF Offset
<1>8. l = Len(Texts[h])
    OBVIOUS
<1> HIDE DEF a, b, c, l
<1>9. \A k \in 1 .. l : a + k \in 1 .. c /\ (2 + a) + k = 2 + (a + k)
    BY <1>2, <1>3, <1>4
<1>10. \A k \in 1 .. l : source[(2 + a) + k] = Texts[h][k]
    BY <1>4, <1>5, <1>9
<1>11. /\ 2 + a \in Nat /\ 2 + b \in Nat /\ 2 + b = (2 + a) + l
       /\ (2 + b) + 2 <= Len(source)
    BY <1>2, <1>3, <1>4, <1>5
<1> QED
    BY <1>1, <1>6, <1>7, <1>8, <1>10, <1>11 DEF Lies

\* Where the members end: the i-th at e[i], the opening at e[0], and the source two
\* tokens behind the last.
Arranged(n, e) ==
    /\ e \in [0 .. n -> Nat] /\ e[0] = 2
    /\ source \in Seq(Token) /\ Len(source) = e[n] + 2
    /\ source[1] = "name" /\ source[2] = "lbrace"
    /\ source[e[n] + 1] = "rbrace" /\ source[e[n] + 2] = "newline"
    /\ \A i \in 0 .. n, h \in 1 .. n : h = i + 1 => Lies(h, e[i], e[h])

LEMMA MembersAreArranged ==
    ASSUME NEW n, Built(n)
    PROVE  \E e : Arranged(n, e)
<1>1. n \in Nat
    BY DEF Built
<1>2. PICK f : LaidOut(n, f)
    BY SourceIsLaidOut
<1> DEFINE e == [i \in 0 .. n |-> Offset(f, i)]
<1>3. \A i \in 0 .. n : e[i] = Offset(f, i)
    OBVIOUS
<1>4. \A i \in 0 .. n : Offset(f, i) \in Nat
    <2>1. \A i \in 0 .. n : i # 0 => f[i] \in Seq(Token)
        BY <1>1, <1>2 DEF LaidOut, Appended
    <2> QED
        BY <2>1 DEF Offset, LenOf
<1>5. e \in [0 .. n -> Nat]
    BY <1>4
<1> HIDE DEF e
<1>6. ASSUME NEW i \in 0 .. n, NEW h \in 1 .. n, h = i + 1
      PROVE  Lies(h, e[i], e[h])
    <2>1. i \in Nat /\ h \in 0 .. n
        BY <1>1
    <2>2. Lies(h, Offset(f, i), Offset(f, h))
        BY <1>2, <1>6, <2>1, MemberLies
    <2>3. e[i] = Offset(f, i) /\ e[h] = Offset(f, h)
        BY <1>3, <2>1
    <2> QED
        BY <2>2, <2>3
<1>7. e[0] = 2 /\ e[n] = Offset(f, n)
    <2>1. Offset(f, 0) = 2
        BY DEF Offset, LenOf
    <2> QED
        BY <1>1, <1>3, <2>1
<1>8. Arranged(n, e)
    <2>1. /\ source \in Seq(Token) /\ Len(source) = Offset(f, n) + 2
          /\ source[1] = "name" /\ source[2] = "lbrace"
          /\ source[Offset(f, n) + 1] = "rbrace" /\ source[Offset(f, n) + 2] = "newline"
        BY <1>2 DEF LaidOut
    <2> QED
        BY <1>5, <1>6, <1>7, <2>1 DEF Arranged
<1> QED
    BY <1>8


LEMMA EndsRise ==
    ASSUME NEW n \in Nat, NEW e, Arranged(n, e), NEW i \in 0 .. n, NEW j \in 0 .. n, i <= j
    PROVE  e[i] <= e[j]
<1> DEFINE Good == {m \in Nat : m \in i .. j => e[i] <= e[m]}
<1>1. \A k \in 0 .. n : e[k] \in Nat
    BY DEF Arranged
<1>2. ASSUME NEW m \in Nat, m < j /\ m \in Good
      PROVE  m + 1 \in Good
    <2> DEFINE p == m + 1
    <2>1. SUFFICES ASSUME p \in i .. j
                   PROVE  e[i] <= e[p]
        OBVIOUS
    <2>2. p \in 0 .. n /\ m \in 0 .. n /\ p = m + 1 /\ p \in 1 .. n
        BY <2>1
    <2> HIDE DEF p
    <2>3. CASE p = i
        BY <1>1, <2>2, <2>3
    <2>4. CASE p # i
        <3>1. m \in i .. j
            BY <1>2, <2>1, <2>2, <2>4
        <3>2. e[i] <= e[m]
            BY <1>2, <3>1
        <3>3. Lies(p, e[m], e[p])
            BY <2>2 DEF Arranged
        <3> DEFINE a == e[i]
                   b == e[m]
                   c == e[p]
                   l == Len(Texts[p])
        <3>4. c = b + l /\ l \in Nat /\ a <= b
            BY <3>2, <3>3 DEF Lies
        <3>5. a \in Nat /\ b \in Nat
            BY <1>1, <2>2
        <3> HIDE DEF a, b, c, l
        <3>6. a <= c
            BY <3>4, <3>5
        <3> QED
            BY <3>6 DEF a, c
    <2> QED
        BY <2>3, <2>4
<1>3. 0 \in Good
    BY <1>1
<1> HIDE DEF Good
<1>4. j \in Nat
    OBVIOUS
<1>5. j \in Good
    BY <1>2, <1>3, <1>4, UpTo
<1>6. j \in i .. j
    OBVIOUS
<1> QED
    BY <1>5, <1>6 DEF Good

\* The k-th token of the member after the first i, which is the h-th, is at p.
IsAt(e, i, h, k, p) == h = i + 1 /\ k \in 1 .. Len(Texts[h]) /\ p = e[i] + k

LEMMA PlaceOf ==
    ASSUME NEW n \in Nat, NEW e, Arranged(n, e), NEW p \in 1 .. Len(source)
    PROVE  \/ p <= 2 \/ p = e[n] + 1 \/ p = e[n] + 2
           \/ \E i \in 0 .. n, h \in 1 .. n, k \in Nat \ {0} : IsAt(e, i, h, k, p)
<1>1. /\ e[0] = 2 /\ Len(source) = e[n] + 2 /\ e[n] \in Nat
      /\ \A k \in 0 .. n : e[k] \in Nat
    BY DEF Arranged
<1> DEFINE z == e[n]
           Somewhere == \E i \in 0 .. n, h \in 1 .. n, k \in Nat \ {0} : IsAt(e, i, h, k, p)
<1>2. SUFFICES ASSUME p > 2, p <= z
               PROVE  Somewhere
    <2>1. z \in Nat /\ p \in 1 .. z + 2
        BY <1>1
    <2> HIDE DEF z, Somewhere
    <2>2. p <= 2 \/ p = z + 1 \/ p = z + 2 \/ (p > 2 /\ p <= z)
        BY <2>1
    <2> QED
        BY <1>2, <2>2 DEF z, Somewhere
<1> DEFINE T == {m \in 0 .. n : p <= e[m]}
<1>3. T \in SUBSET Nat /\ n \in T
    BY <1>2
<1>4. PICK h \in T : \A m \in T : h <= m
    BY <1>3, LeastNumber
<1>5. h \in 0 .. n /\ p <= e[h] /\ h # 0 /\ p \in Nat
    BY <1>1, <1>2, <1>4
<1> DEFINE i == h - 1
<1>6. h \in 1 .. n /\ i \in 0 .. n /\ h = i + 1 /\ i < h
    BY <1>5
<1> HIDE DEF i
<1>7. i \notin T
    BY <1>4, <1>6
<1>8. ~ (p <= e[i])
    BY <1>6, <1>7
<1>9. Lies(h, e[i], e[h])
    BY <1>6 DEF Arranged
<1> DEFINE a == e[i]
           b == e[h]
           l == Len(Texts[h])
           k == p - a
<1>10. b = a + l /\ l \in Nat /\ a \in Nat /\ p <= b /\ ~ (p <= a) /\ p \in Nat
    BY <1>5, <1>8, <1>9 DEF Lies
<1> HIDE DEF a, b, l
<1>11. k \in Nat \ {0} /\ k \in 1 .. l /\ p = a + k
    BY <1>10
<1> HIDE DEF k
<1>12. IsAt(e, i, h, k, p)
    BY <1>6, <1>11 DEF IsAt, a, l
<1> QED
    BY <1>6, <1>11, <1>12

\* The members that begin earlier are the earlier ones.
LEMMA StartsRise ==
    ASSUME NEW n \in Nat, NEW e, Arranged(n, e), NEW h \in 1 .. n, NEW j \in 1 .. n, j < h,
           Len(Texts[j]) # 0
    PROVE  StartOf(j) < StartOf(h)
<1> DEFINE a == h - 1
           b == j - 1
<1>1. a \in 0 .. n /\ h = a + 1 /\ b \in 0 .. n /\ j = b + 1 /\ j \in 0 .. n /\ j <= a
    OBVIOUS
<1> HIDE DEF a, b
<1>2. Lies(h, e[a], e[h]) /\ Lies(j, e[b], e[j])
    BY <1>1 DEF Arranged
<1>3. e[j] <= e[a]
    BY <1>1, EndsRise
<1> DEFINE s == e[a]
           r == e[b]
           t == e[j]
           l == Len(Texts[j])
<1>4. /\ StartOf(h) = s + 1 /\ StartOf(j) = r + 1 /\ t = r + l /\ t <= s
      /\ l \in Nat /\ l # 0 /\ s \in Nat /\ r \in Nat
    BY <1>2, <1>3 DEF Lies
<1> HIDE DEF s, r, t, l
<1> QED
    BY <1>4


\* Text behind the position o is read as if it stood alone.
ReadsAlike(g, o, t) == \A k \in 1 .. Len(t) + 1 : Reading(g)[o + k] = Reading(t)[k]

LEMMA SameReading ==
    ASSUME NEW g, NEW o, NEW t, Carries(g, o, t), Reading(g)[o + 1] = "blank"
    PROVE  ReadsAlike(g, o, t)
<1> DEFINE n == Len(g)
           l == Len(t)
           r == Reading(g)
           s == Reading(t)
<1>1. /\ n \in Nat /\ l \in Nat /\ o \in Nat /\ o + l <= n
      /\ g \in [1 .. n -> Token] /\ Len(g) = n /\ t \in [1 .. l -> Token] /\ Len(t) = l
      /\ \A k \in 1 .. l : g[o + k] = t[k]
    BY DEF Carries
<1>2. \A i \in 1 .. n : r[i + 1] = After(r[i], g[i])
    BY <1>1, ReadingIs
<1>3. s[1] = "blank" /\ \A i \in 1 .. l : s[i + 1] = After(s[i], t[i])
    BY <1>1, ReadingIs
<1>4. r[o + 1] = "blank"
    OBVIOUS
<1> HIDE DEF n, l, r, s
<1> DEFINE Good == {m \in Nat : r[o + (m + 1)] = s[m + 1]}
<1>5. 0 \in Good
    BY <1>3, <1>4
<1>6. ASSUME NEW m \in Nat, m < l /\ m \in Good
      PROVE  m + 1 \in Good
    <2> DEFINE a == m + 1
               b == o + a
    <2>1. a \in 1 .. l /\ b \in 1 .. n /\ b = o + a /\ o + (a + 1) = b + 1 /\ r[b] = s[a]
        BY <1>1, <1>6
    <2> HIDE DEF a, b
    <2>2. r[b + 1] = After(r[b], g[b]) /\ s[a + 1] = After(s[a], t[a]) /\ g[b] = t[a]
        BY <1>1, <1>2, <1>3, <2>1
    <2>3. r[b + 1] = s[a + 1]
        BY <2>1, <2>2
    <2>4. m + 1 \in Nat /\ r[o + ((m + 1) + 1)] = s[(m + 1) + 1]
        BY <2>1, <2>3 DEF a
    <2> QED
        BY <2>4
<1> HIDE DEF Good
<1>7. ASSUME NEW k \in 1 .. l + 1
      PROVE  r[o + k] = s[k]
    <2> DEFINE c == k - 1
    <2>1. c \in Nat /\ c <= l /\ c + 1 = k
        BY <1>1
    <2> HIDE DEF c
    <2>2. \A m \in Nat : m < c /\ m \in Good => m + 1 \in Good
        BY <1>1, <1>6, <2>1
    <2>3. c \in Good
        BY <1>5, <2>1, <2>2, UpTo
    <2>4. r[o + (c + 1)] = s[c + 1]
        BY <2>3 DEF Good
    <2> QED
        BY <2>1, <2>4
<1> QED
    BY <1>7 DEF ReadsAlike, r, s, l

LEMMA CarriedCode ==
    ASSUME NEW g, NEW o, NEW t, Carries(g, o, t), ReadsAlike(g, o, t)
    PROVE  Carries(Code(g), o, Code(t))
<1> DEFINE n == Len(g)
           l == Len(t)
<1>1. /\ n \in Nat /\ l \in Nat /\ o \in Nat /\ o + l <= n
      /\ g \in [1 .. n -> Token] /\ Len(g) = n /\ t \in [1 .. l -> Token] /\ Len(t) = l
      /\ \A k \in 1 .. l : g[o + k] = t[k]
    BY DEF Carries
<1>2. \A k \in 1 .. l + 1 : Reading(g)[o + k] = Reading(t)[k]
    BY DEF ReadsAlike
<1> HIDE DEF n, l
<1>3. /\ Code(g) \in [1 .. n -> Token]
      /\ \A k \in 1 .. n : Code(g)[k] = IF Hidden(Reading(g)[k], g[k]) THEN "blank" ELSE g[k]
    BY <1>1, CodeIs
<1>4. /\ Code(t) \in [1 .. l -> Token]
      /\ \A k \in 1 .. l : Code(t)[k] = IF Hidden(Reading(t)[k], t[k]) THEN "blank" ELSE t[k]
    BY <1>1, CodeIs
<1>5. ASSUME NEW k \in 1 .. l
      PROVE  Code(g)[o + k] = Code(t)[k]
    <2>1. o + k \in 1 .. n /\ k \in 1 .. l + 1
        BY <1>1
    <2> QED
        BY <1>1, <1>2, <1>3, <1>4, <2>1
<1>6. /\ Code(g) \in Seq(Token) /\ Len(Code(g)) = n
      /\ Code(t) \in Seq(Token) /\ Len(Code(t)) = l
    BY <1>1, <1>3, <1>4
<1> QED
    BY <1>1, <1>5, <1>6 DEF Carries

\* A member is read from outside of comments and literals, and so is what follows it.
LEMMA MemberIsRead ==
    ASSUME NEW n \in Nat, members \in [1 .. n -> Pieces], source \in Seq(Token),
           NEW h \in 1 .. n, NEW a, NEW b, Lies(h, a, b), Reading(source)[a + 1] = "blank"
    PROVE  /\ Reading(source)[b + 1] = "blank"
           /\ Carries(Code(source), a, Code(Texts[h]))
<1> DEFINE l == Len(Texts[h])
           c == l + 1
<1>1. /\ a \in Nat /\ b \in Nat /\ l \in Nat /\ b = a + l /\ b + 2 <= Len(source)
      /\ Texts[h] \in Seq(Token) /\ \A k \in 1 .. l : source[a + k] = Texts[h][k]
    BY DEF Lies
<1>2. Carries(source, a, Texts[h])
    <2>1. Len(source) \in Nat
        OBVIOUS
    <2>2. a + l <= Len(source)
        BY <1>1, <2>1
    <2> QED
        BY <1>1, <2>2 DEF Carries
<1>3. ReadsAlike(source, a, Texts[h])
    BY <1>2, SameReading
<1>4. Reading(Texts[h])[c] = "blank"
    <2>1. Texts[h] = members[h].tokens /\ members[h] \in Pieces
        BY DEF Texts
    <2>2. Closed(Texts[h])
        BY <2>1, SolidityUnitsAssumption DEF IsFunction, IsOther
    <2> QED
        BY <2>2 DEF Closed
<1>5. Reading(source)[a + c] = Reading(Texts[h])[c]
    <2>1. c \in 1 .. l + 1
        BY <1>1
    <2> QED
        BY <1>3, <2>1 DEF ReadsAlike
<1>6. a + c = b + 1
    BY <1>1
<1> QED
    BY <1>2, <1>3, <1>4, <1>5, <1>6, CarriedCode


LEMMA MembersAreRead ==
    ASSUME NEW n \in Nat, members \in [1 .. n -> Pieces], NEW e, Arranged(n, e), NEW i \in 0 .. n
    PROVE  Reading(source)[e[i] + 1] = "blank"
<1> DEFINE Good == {m \in Nat : m <= n => Reading(source)[e[m] + 1] = "blank"}
           z == Len(source)
           r == Reading(source)
<1>1. /\ source \in [1 .. z -> Token] /\ Len(source) = z /\ z \in Nat /\ z >= 2
      /\ source[1] = "name" /\ source[2] = "lbrace" /\ e[0] = 2
    <2>1. e[n] \in Nat /\ Len(source) = e[n] + 2 /\ source \in Seq(Token)
        BY DEF Arranged
    <2> HIDE DEF Good
    <2> QED
        BY <2>1 DEF Arranged
<1>2. r[1] = "blank" /\ \A k \in 1 .. z : r[k + 1] = After(r[k], source[k])
    BY <1>1, ReadingIs
<1> HIDE DEF z, r
<1>3. r[3] = "blank"
    <2>1. 1 \in 1 .. z /\ 2 \in 1 .. z
        BY <1>1
    <2>2. r[2] = "blank"
        BY <1>1, <1>2, <2>1 DEF After, Begins, Quotes
    <2> QED
        BY <1>1, <1>2, <2>1, <2>2 DEF After, Begins, Quotes
<1>4. 0 \in Good
    BY <1>1, <1>3 DEF r
<1>5. ASSUME NEW m \in Nat, m < n /\ m \in Good
      PROVE  m + 1 \in Good
    <2> DEFINE h == m + 1
    <2>1. h \in 1 .. n /\ m \in 0 .. n /\ h = m + 1
        BY <1>5
    <2> HIDE DEF h
    <2>2. Lies(h, e[m], e[h])
        BY <2>1 DEF Arranged
    <2>3. Reading(source)[e[m] + 1] = "blank"
        BY <1>5
    <2>4. source \in Seq(Token)
        BY DEF Arranged
    <2> HIDE DEF Good
    <2>5. Reading(source)[e[h] + 1] = "blank"
        BY <2>1, <2>2, <2>3, <2>4, MemberIsRead
    <2> QED
        BY <2>1, <2>5 DEF Good, h
<1> HIDE DEF Good
<1>6. i \in Nat /\ \A m \in Nat : m < i /\ m \in Good => m + 1 \in Good
    BY <1>5
<1>7. i \in Good
    BY <1>4, <1>6, UpTo
<1> QED
    BY <1>7 DEF Good

LEMMA MemberCode ==
    ASSUME NEW n \in Nat, members \in [1 .. n -> Pieces], NEW e, Arranged(n, e),
           NEW i \in 0 .. n, NEW h \in 1 .. n, h = i + 1
    PROVE  Carries(Code(source), e[i], Code(Texts[h]))
<1>1. Lies(h, e[i], e[h])
    BY DEF Arranged
<1>2. Reading(source)[e[i] + 1] = "blank"
    BY MembersAreRead
<1>3. source \in Seq(Token)
    BY DEF Arranged
<1> QED
    BY <1>1, <1>2, <1>3, MemberIsRead

LEMMA PieceIs ==
    ASSUME NEW n \in Nat, members \in [1 .. n -> Pieces], NEW h \in 1 .. n
    PROVE  /\ Texts[h] = members[h].tokens /\ Texts[h] \in Seq(Token)
           /\ Code(Texts[h]) \in Seq(Token) /\ Len(Code(Texts[h])) = Len(Texts[h])
           /\ h \in Bodied => IsFunction(Texts[h], members[h].kind)
           /\ h \notin Bodied => IsOther(Texts[h])
<1>1. /\ members[h] \in Pieces /\ DOMAIN members = 1 .. n
    OBVIOUS
<1>2. Texts[h] = members[h].tokens
    BY <1>1 DEF Texts
<1>3. Texts[h] \in Seq(Token)
    BY <1>1, <1>2, SolidityUnitsAssumption
<1> DEFINE l == Len(Texts[h])
<1>4. l \in Nat /\ Texts[h] \in [1 .. l -> Token] /\ Len(Texts[h]) = l
    BY <1>3
<1> HIDE DEF l
<1>5. Code(Texts[h]) \in [1 .. l -> Token]
    BY <1>4, CodeIs
<1>6. Code(Texts[h]) \in Seq(Token) /\ Len(Code(Texts[h])) = l
    BY <1>4, <1>5
<1>7. /\ h \in Bodied => IsFunction(Texts[h], members[h].kind)
      /\ h \notin Bodied => IsOther(Texts[h])
    <2>1. h \in Bodied <=> members[h].kind # NoUnit
        BY <1>1 DEF Bodied
    <2> QED
        BY <1>1, <1>2, <2>1, SolidityUnitsAssumption
<1> QED
    BY <1>2, <1>3, <1>4, <1>6, <1>7

\* A function is found where it begins, with its kind and the end of its body.
FoundAt(h, d) ==
    /\ d \in 1 .. Len(source) /\ d = StartOf(h) /\ masked[d] \in Declares
    /\ BodyEnd(d) = EndOf(h) /\ BodyEnd(d) # 0 /\ KindAt(d) = members[h].kind

LEMMA WrittenIsFound ==
    ASSUME NEW n \in Nat, members \in [1 .. n -> Pieces], NEW e, Arranged(n, e),
           masked = Code(source), NEW h \in Bodied
    PROVE  FoundAt(h, StartOf(h)) /\ Len(Texts[h]) # 0 /\ h \in 1 .. n
<1> DEFINE i == h - 1
           a == e[i]
           c == Code(Texts[h])
           l == Len(Texts[h])
<1>1. h \in 1 .. n
    BY DEF Bodied
<1>2. i \in 0 .. n /\ h = i + 1
    BY <1>1
<1> HIDE DEF i
<1>3. Lies(h, e[i], e[h])
    BY <1>1, <1>2 DEF Arranged
<1>4. Carries(masked, a, c)
    BY <1>1, <1>2, MemberCode
<1>5. IsFunction(Texts[h], members[h].kind) /\ Len(c) = l /\ Texts[h] = members[h].tokens
    BY <1>1, PieceIs
<1>6. c[1] \in Declares /\ HasBody(c, 1, members[h].kind, l - 1)
    BY <1>5 DEF IsFunction
<1>7. a \in Nat /\ l \in Nat /\ StartOf(h) = a + 1 /\ (a + l) + 2 <= Len(source) /\ Len(source) \in Nat
    <2>1. Len(source) \in Nat
        BY DEF Arranged
    <2> QED
        BY <1>3, <2>1 DEF Lies
<1>8. l # 0
    BY <1>5, <1>3 DEF IsFunction, Lies
<1> HIDE DEF a, c, l
<1>9. 1 \in 1 .. Len(c) /\ masked[a + 1] = c[1] /\ masked \in Seq(Token)
    <2>1. 1 \in 1 .. l
        BY <1>7, <1>8
    <2> QED
        BY <1>4, <1>5, <2>1 DEF Carries
<1>10. HasBody(masked, a + 1, members[h].kind, a + (l - 1))
    BY <1>4, <1>6, <1>9, CarriedBody
<1>11. /\ BodyEnd(a + 1) = a + (l - 1) /\ KindAt(a + 1) = members[h].kind
       /\ a + (l - 1) # 0
    <2>1. a + 1 \in Nat \ {0}
        BY <1>7
    <2> QED
        BY <1>9, <1>10, <2>1, BodyIsFound
<1>12. EndOf(h) = a + (l - 1)
    <2>1. EndOf(h) = (a + 1) + l - 2
        BY <1>5, <1>7 DEF EndOf, l
    <2> QED
        BY <1>7, <2>1
<1>13. a + 1 \in 1 .. Len(source)
    BY <1>7
<1> QED
    BY <1>1, <1>6, <1>7, <1>8, <1>9, <1>11, <1>12, <1>13 DEF FoundAt, l


LEMMA ListIs ==
    ASSUME NEW S, NEW m \in Nat, NEW s \in [1 .. m -> S]
    PROVE  s \in Seq(S) /\ Len(s) = m
OBVIOUS

LEMMA OnlyWrittenIsFound ==
    ASSUME NEW n \in Nat, members \in [1 .. n -> Pieces], NEW e, Arranged(n, e),
           masked = Code(source), NEW d \in 1 .. Len(source), masked[d] \in Declares
    PROVE  BodyEnd(d) = 0 \/ \E h \in Bodied : d = StartOf(h)
<1> DEFINE z == e[n]
           m == Len(source)
<1>1. /\ source \in [1 .. m -> Token] /\ Len(source) = m /\ m = z + 2 /\ m \in Nat /\ z \in Nat
      /\ source[1] = "name" /\ source[2] = "lbrace"
      /\ source[z + 1] = "rbrace" /\ source[z + 2] = "newline"
      /\ d \in 1 .. m
    BY DEF Arranged
<1> HIDE DEF m
<1>2. masked \in [1 .. m -> Token] /\ \A k \in 1 .. m : masked[k] = "blank" \/ masked[k] = source[k]
    BY <1>1, CodeIs
<1>3. d \in 1 .. m /\ masked \in Seq(Token)
    <2>1. m \in Nat
        BY <1>1
    <2> QED
        BY <1>1, <1>2, <2>1, ListIs
<1>4. source[d] \in Declares
    BY <1>2, <1>3 DEF Declares
<1>5. d # 1 /\ d # 2 /\ d # z + 1 /\ d # z + 2
    BY <1>1, <1>4 DEF Declares
<1> HIDE DEF z
<1>6. ~ (d <= 2)
    BY <1>1, <1>3, <1>5
<1>7. PICK i \in 0 .. n, h \in 1 .. n, k \in Nat \ {0} : IsAt(e, i, h, k, d)
    BY <1>5, <1>6, PlaceOf DEF z
<1> DEFINE a == e[i]
           c == Code(Texts[h])
           l == Len(Texts[h])
<1>8. h = i + 1 /\ k \in 1 .. l /\ d = a + k
    BY <1>7 DEF IsAt
<1>9. Carries(masked, a, c)
    BY <1>8, MemberCode
<1>10. /\ Len(c) = l /\ c \in Seq(Token)
       /\ h \in Bodied => IsFunction(Texts[h], members[h].kind)
       /\ h \notin Bodied => IsOther(Texts[h])
    BY PieceIs
<1>11. Lies(h, a, e[h])
    BY <1>8 DEF Arranged
<1>12. a \in Nat /\ StartOf(h) = a + 1
    BY <1>11 DEF Lies
<1>13. Plain(c, 1) \/ (h \in Bodied /\ Plain(c, 2))
    BY <1>10 DEF IsFunction, IsOther
<1> HIDE DEF a, c, l
<1>14. c[k] \in Declares /\ k \in DOMAIN c /\ k \in 1 .. Len(c) /\ l \in Nat
    <2>1. k \in 1 .. Len(c)
        BY <1>8, <1>10
    <2>2. masked[a + k] = c[k]
        BY <1>9, <2>1 DEF Carries
    <2>3. DOMAIN c = 1 .. Len(c) /\ l \in Nat
        BY <1>10
    <2> QED
        BY <1>8, <2>1, <2>2, <2>3
<1>15. CASE k = 1 /\ h \in Bodied
    <2>1. d = StartOf(h)
        BY <1>8, <1>12, <1>15
    <2> QED
        BY <1>15, <2>1
<1>16. CASE ~ (k = 1 /\ h \in Bodied)
    <2>1. HasNoBody(c, k)
        <3>1. k >= 1 /\ (k # 1 => k >= 2)
            BY <1>14
        <3> QED
            BY <1>13, <1>14, <1>16, <3>1 DEF Plain
    <2>2. HasNoBody(masked, a + k)
        BY <1>9, <1>14, <2>1, CarriedNoBody
    <2>3. a + k \in Nat \ {0}
        BY <1>12
    <2>4. BodyEnd(a + k) = 0
        BY <1>3, <2>2, <2>3, NoBodyIsFound
    <2> QED
        BY <1>8, <2>4
<1> QED
    BY <1>15, <1>16


-----------------------------------------------------------------------------
(* The units that were found *)

UnitsOf(D) == [k \in 1 .. Cardinality(D) |-> UnitOf(InOrder(D)[k])]

BegunBefore(p) == {i \in Bodied : StartOf(i) < p}

\* The units are those of the functions that begin before the search goes on, and in
\* the end those of all of them.
UnitsInv ==
    /\ scan = "mask" => units = <<>>
    /\ scan = "units" => units = UnitsOf(BegunBefore(pos))
    /\ scan = "done" => units = UnitsOf(Bodied)

LEMMA AppendIs ==
    ASSUME NEW S, NEW c \in Nat, NEW u \in Seq(S), Len(u) = c, NEW a \in S
    PROVE  /\ Append(u, a) \in [1 .. c + 1 -> S] /\ Append(u, a)[c + 1] = a
           /\ \A k \in 1 .. c : Append(u, a)[k] = u[k]
<1> DEFINE v == Append(u, a)
<1>1. v \in Seq(S) /\ Len(v) = c + 1 /\ v[c + 1] = a /\ \A k \in 1 .. c : v[k] = u[k]
    BY AppendProperties
<1> HIDE DEF v
<1>2. v \in [1 .. c + 1 -> S]
    BY <1>1
<1> QED
    BY <1>1, <1>2 DEF v

LEMMA OneMoreUnit ==
    ASSUME NEW n \in Nat, NEW D \in SUBSET (1 .. n), NEW h \in 1 .. n, \A i \in D : i < h
    PROVE  UnitsOf(D \cup {h}) = Append(UnitsOf(D), UnitOf(h))
<1> DEFINE E == D \cup {h}
           c == Cardinality(D)
           s == InOrder(D)
           t == [k \in 1 .. c + 1 |-> IF k \in 1 .. c THEN s[k] ELSE h]
           all == {UnitOf(i) : i \in 1 .. n}
<1>1. IsFiniteSet(D) /\ c \in Nat /\ h \notin D
    BY Positions
<1>2. Cardinality(E) = c + 1
    BY <1>1, FS_AddElement
<1>3. /\ s \in [1 .. c -> D] /\ Rising(s)
      /\ \A p \in D : \E k \in 1 .. c : s[k] = p
    BY InOrderRises
<1>4. E \in SUBSET (1 .. n)
    OBVIOUS
<1>5. t \in [1 .. c + 1 -> E] /\ t[c + 1] = h /\ \A k \in 1 .. c : t[k] = s[k] /\ k \in 1 .. c + 1
    BY <1>1, <1>3
<1> HIDE DEF c, s, t
<1>6. Rising(t)
    <2>1. SUFFICES ASSUME NEW i \in 1 .. c + 1, NEW j \in 1 .. c + 1, i < j
                   PROVE  t[i] < t[j]
        BY <1>5 DEF Rising
    <2>2. i \in 1 .. c /\ (j \in 1 .. c \/ j = c + 1)
        BY <1>1, <2>1
    <2>3. CASE j \in 1 .. c
        <3>1. s[i] < s[j]
            BY <1>3, <2>1, <2>2, <2>3 DEF Rising
        <3> QED
            BY <1>5, <2>2, <2>3, <3>1
    <2>4. CASE j = c + 1
        <3>1. s[i] \in D
            BY <1>3, <2>2
        <3> QED
            BY <1>5, <2>2, <2>4, <3>1
    <2> QED
        BY <2>2, <2>3, <2>4
<1>7. ASSUME NEW p \in E
      PROVE  \E k \in 1 .. c + 1 : t[k] = p
    <2>1. CASE p \in D
        BY <1>3, <1>5, <2>1
    <2>2. CASE p = h
        <3>1. c + 1 \in 1 .. c + 1
            BY <1>1
        <3> QED
            BY <1>5, <2>2, <3>1
    <2> QED
        BY <2>1, <2>2
<1> HIDE DEF E
<1>8. InOrder(E) = t
    <2>1. t \in [1 .. Cardinality(E) -> E] /\ \A p \in E : \E k \in 1 .. Cardinality(E) : t[k] = p
        BY <1>2, <1>5, <1>7
    <2> QED
        BY <1>4, <1>6, <2>1, InOrderIs
<1>9. UnitsOf(E) = [k \in 1 .. c + 1 |-> UnitOf(t[k])]
    BY <1>2, <1>8 DEF UnitsOf
<1> DEFINE u == UnitsOf(D)
<1>10. u \in Seq(all) /\ Len(u) = c /\ \A k \in 1 .. c : u[k] = UnitOf(s[k])
    <2>1. u = [k \in 1 .. c |-> UnitOf(s[k])]
        BY DEF UnitsOf, s, c
    <2>2. \A k \in 1 .. c : UnitOf(s[k]) \in all
        <3>1. \A k \in 1 .. c : s[k] \in 1 .. n
            BY <1>3
        <3> QED
            BY <3>1
    <2> HIDE DEF u, all
    <2>3. u \in [1 .. c -> all]
        BY <2>1, <2>2
    <2> QED
        BY <1>1, <2>1, <2>3, ListIs
<1> DEFINE v == Append(u, UnitOf(h))
<1>11. UnitOf(h) \in all
    OBVIOUS
<1> HIDE DEF u, all
<1>12. v \in [1 .. c + 1 -> all] /\ v[c + 1] = UnitOf(h) /\ \A k \in 1 .. c : v[k] = u[k]
    BY <1>1, <1>10, <1>11, AppendIs
<1> HIDE DEF v
<1>13. ASSUME NEW k \in 1 .. c + 1
       PROVE  v[k] = UnitOf(t[k])
    <2>1. k \in 1 .. c \/ k = c + 1
        BY <1>1
    <2> QED
        BY <1>5, <1>10, <1>12, <2>1
<1>14. v = [k \in 1 .. c + 1 |-> UnitOf(t[k])]
    BY <1>12, <1>13
<1> QED
    BY <1>9, <1>14 DEF v, u, E

LEMMA MatchIs ==
    ASSUME masked \in Seq(Token), pos \in Nat \ {0}
    PROVE  \/ Match = 0 /\ \A j \in pos .. Len(masked) : masked[j] \notin Declares
           \/ /\ Match \in pos .. Len(masked) /\ masked[Match] \in Declares
              /\ \A j \in pos .. Len(masked) : masked[j] \in Declares => Match <= j
<1> DEFINE P == {j \in From(pos) : masked[j] \in Declares}
<1>1. /\ P \in SUBSET (Nat \ {0}) /\ \A j : j \in P <=> j \in pos .. Len(masked) /\ masked[j] \in Declares
    BY DEF From
<1>2. Match = FirstOf(P)
    BY DEF Match
<1> HIDE DEF P
<1>3. \/ FirstOf(P) = 0 /\ P = {}
      \/ FirstOf(P) \in P /\ \A p \in P : FirstOf(P) <= p
    BY <1>1, FirstOfIs
<1> QED
    BY <1>1, <1>2, <1>3


\* The scanner works on the source that was chosen, has blanked what is hidden up to pos
\* and has found the functions up to pos.
ExtractInv == (\E n : Built(n)) /\ MaskInv /\ UnitsInv

\* What was written does not change.
LEMMA WrittenStays ==
    ASSUME UNCHANGED <<members, source>>
    PROVE  /\ \A n : Built(n) => Built(n)'
           /\ Bodied' = Bodied
           /\ UnitsOf(Bodied)' = UnitsOf(Bodied)
           /\ \A p : pos' = p => UnitsOf(BegunBefore(pos))' = UnitsOf(BegunBefore(p))
<1>1. \A n : Built(n) => Built(n)'
    BY DEF Built, TextOf
<1>2. Bodied' = Bodied
    BY DEF Bodied
<1>3. UnitsOf(Bodied)' = UnitsOf(Bodied)
    BY DEF UnitsOf, UnitOf, Bodied, StartOf, EndOf, LineOf, TextOf
<1>4. ASSUME NEW p, pos' = p
      PROVE  UnitsOf(BegunBefore(pos))' = UnitsOf(BegunBefore(p))
    BY <1>4 DEF UnitsOf, UnitOf, BegunBefore, Bodied, StartOf, EndOf, LineOf, TextOf
<1> QED
    BY <1>1, <1>2, <1>3, <1>4

LEMMA MaskInvStays ==
    ASSUME MaskInv, scan \in {"units", "done"}, scan' \in {"units", "done"},
           UNCHANGED <<source, masked>>, pos' \in Nat \ {0}
    PROVE  MaskInv'
BY DEF MaskInv

LEMMA UnitTaken ==
    ASSUME ExtractInv, TakeUnit
    PROVE  ExtractInv'
<1> DEFINE d == Match
<1>1. /\ scan = "units" /\ d # 0 /\ BodyEnd(d) # 0 /\ pos' = d + 1
      /\ units' = Append(units, [kind |-> KindAt(d), first |-> LineOf(d), last |-> LineOf(BodyEnd(d))])
      /\ UNCHANGED <<members, source, masked, scan>>
    BY DEF TakeUnit
<1>2. /\ masked = Code(source) /\ masked \in Seq(Token) /\ Len(masked) = Len(source) /\ pos \in Nat \ {0}
      /\ units = UnitsOf(BegunBefore(pos))
    BY <1>1 DEF ExtractInv, MaskInv, UnitsInv
<1>3. PICK n : Built(n)
    BY DEF ExtractInv
<1>4. n \in Nat /\ members \in [1 .. n -> Pieces]
    BY <1>3 DEF Built
<1>5. PICK e : Arranged(n, e)
    BY <1>3, MembersAreArranged
<1>6. /\ d \in pos .. Len(source) /\ masked[d] \in Declares
      /\ \A j \in pos .. Len(source) : masked[j] \in Declares => d <= j
    BY <1>1, <1>2, MatchIs
<1> HIDE DEF d
<1>7. d \in 1 .. Len(source) /\ d \in Nat \ {0} /\ pos <= d
    <2>1. Len(source) \in Nat
        BY <1>5 DEF Arranged
    <2> QED
        BY <1>2, <1>6, <2>1
<1>8. PICK h \in Bodied : d = StartOf(h)
    BY <1>1, <1>2, <1>4, <1>5, <1>6, <1>7, OnlyWrittenIsFound
<1>9. ASSUME NEW i \in Bodied
      PROVE  FoundAt(i, StartOf(i)) /\ Len(Texts[i]) # 0 /\ i \in 1 .. n
    BY <1>2, <1>4, <1>5, WrittenIsFound
<1>10. ASSUME NEW i \in Bodied, NEW j \in Bodied, i < j
       PROVE  StartOf(i) < StartOf(j)
    BY <1>4, <1>5, <1>9, <1>10, StartsRise
<1>11. ASSUME NEW i \in Bodied
       PROVE  StartOf(i) \in Nat /\ (StartOf(i) < d => StartOf(i) < pos)
    <2>1. StartOf(i) \in 1 .. Len(source) /\ masked[StartOf(i)] \in Declares
        BY <1>9 DEF FoundAt
    <2> QED
        BY <1>2, <1>6, <1>7, <2>1
<1>12. BegunBefore(pos) \in SUBSET (1 .. n) /\ \A i \in BegunBefore(pos) : i < h
    <2>1. ASSUME NEW i \in BegunBefore(pos)
          PROVE  i \in 1 .. n /\ i < h
        <3>1. i \in Bodied /\ StartOf(i) < pos /\ StartOf(i) \in Nat
            BY <1>11 DEF BegunBefore
        <3>2. i \in 1 .. n /\ h \in 1 .. n
            BY <1>9, <3>1
        <3>3. StartOf(i) < StartOf(h)
            BY <1>2, <1>7, <1>8, <3>1
        <3>4. ~ (h < i) /\ h # i
            BY <1>7, <1>8, <1>10, <3>1, <3>3
        <3> QED
            BY <3>2, <3>4
    <2> QED
        BY <2>1
<1>13. BegunBefore(d + 1) = BegunBefore(pos) \cup {h}
    <2>1. ASSUME NEW i \in Bodied
          PROVE  StartOf(i) < d + 1 <=> StartOf(i) < pos \/ i = h
        <3>1. CASE i = h
            BY <1>7, <1>8, <3>1
        <3>2. CASE i # h
            <4>1. i < h \/ h < i
                BY <1>4, <1>9, <3>2
            <4>2. StartOf(i) # d
                BY <1>7, <1>8, <1>10, <1>11, <4>1
            <4> QED
                BY <1>2, <1>7, <1>11, <3>2, <4>2
        <3> QED
            BY <3>1, <3>2
    <2> QED
        BY <2>1 DEF BegunBefore
<1>14. UnitsOf(BegunBefore(d + 1)) = Append(UnitsOf(BegunBefore(pos)), UnitOf(h))
    BY <1>4, <1>9, <1>12, <1>13, OneMoreUnit
<1>15. UnitOf(h) = [kind |-> KindAt(d), first |-> LineOf(d), last |-> LineOf(BodyEnd(d))]
    BY <1>8, <1>9 DEF FoundAt, UnitOf
<1>16. units' = UnitsOf(BegunBefore(d + 1))
    BY <1>1, <1>2, <1>14, <1>15
<1>17. UnitsInv'
    <2>1. UnitsOf(BegunBefore(pos))' = UnitsOf(BegunBefore(d + 1))
        BY <1>1, WrittenStays
    <2> QED
        BY <1>1, <1>16, <2>1 DEF UnitsInv
<1>18. MaskInv'
    <2>1. pos' \in Nat \ {0}
        BY <1>1, <1>7
    <2> QED
        BY <1>1, <2>1, MaskInvStays DEF ExtractInv
<1>19. \E k : Built(k)'
    BY <1>1, <1>3, WrittenStays
<1> QED
    BY <1>17, <1>18, <1>19 DEF ExtractInv


\* A function that is written: where it begins a body is found.
IsDeclared(i) ==
    StartOf(i) \in 1 .. Len(source) /\ masked[StartOf(i)] \in Declares /\ BodyEnd(StartOf(i)) # 0

LEMMA AllDeclared ==
    ASSUME ExtractInv, scan = "units"
    PROVE  /\ \A i \in Bodied : IsDeclared(i)
           /\ units = UnitsOf(BegunBefore(pos)) /\ pos \in Nat \ {0} /\ Len(source) \in Nat
           /\ masked \in Seq(Token) /\ Len(masked) = Len(source)
<1>1. /\ masked = Code(source) /\ masked \in Seq(Token) /\ Len(masked) = Len(source) /\ pos \in Nat \ {0}
      /\ units = UnitsOf(BegunBefore(pos)) /\ source \in Seq(Token)
    BY DEF ExtractInv, MaskInv, UnitsInv
<1>2. PICK n : Built(n)
    BY DEF ExtractInv
<1>3. n \in Nat /\ members \in [1 .. n -> Pieces]
    BY <1>2 DEF Built
<1>4. PICK e : Arranged(n, e)
    BY <1>2, MembersAreArranged
<1>5. ASSUME NEW i \in Bodied
      PROVE  IsDeclared(i)
    <2>1. FoundAt(i, StartOf(i))
        BY <1>1, <1>3, <1>4, WrittenIsFound
    <2> QED
        BY <2>1 DEF FoundAt, IsDeclared
<1>6. Len(source) \in Nat
    BY <1>1
<1> QED
    BY <1>1, <1>5, <1>6

LEMMA DeclarationPassed ==
    ASSUME ExtractInv, PassDeclaration
    PROVE  ExtractInv'
<1> DEFINE d == Match
<1>1. /\ scan = "units" /\ d # 0 /\ BodyEnd(d) = 0 /\ pos' = d + 1
      /\ UNCHANGED <<members, source, masked, scan, units>>
    BY DEF PassDeclaration
<1>2. /\ \A i \in Bodied : IsDeclared(i)
      /\ units = UnitsOf(BegunBefore(pos)) /\ pos \in Nat \ {0} /\ Len(source) \in Nat
      /\ masked \in Seq(Token) /\ Len(masked) = Len(source)
    BY <1>1, AllDeclared
<1>3. /\ d \in pos .. Len(source)
      /\ \A j \in pos .. Len(source) : masked[j] \in Declares => d <= j
    BY <1>1, <1>2, MatchIs
<1> HIDE DEF d
<1>4. ASSUME NEW i \in Bodied
      PROVE  StartOf(i) < d + 1 <=> StartOf(i) < pos
    <2>1. StartOf(i) \in 1 .. Len(source) /\ masked[StartOf(i)] \in Declares /\ StartOf(i) # d
        BY <1>1, <1>2 DEF IsDeclared
    <2> QED
        BY <1>2, <1>3, <2>1
<1>5. BegunBefore(d + 1) = BegunBefore(pos)
    BY <1>4 DEF BegunBefore
<1>6. UnitsInv'
    <2>1. UnitsOf(BegunBefore(pos))' = UnitsOf(BegunBefore(d + 1))
        BY <1>1, WrittenStays
    <2> QED
        BY <1>1, <1>2, <1>5, <2>1 DEF UnitsInv
<1>7. MaskInv'
    <2>1. pos' \in Nat \ {0}
        BY <1>1, <1>2, <1>3
    <2> QED
        BY <1>1, <2>1, MaskInvStays DEF ExtractInv
<1>8. \E n : Built(n)'
    BY <1>1, WrittenStays DEF ExtractInv
<1> QED
    BY <1>6, <1>7, <1>8 DEF ExtractInv

LEMMA UnitsEnded ==
    ASSUME ExtractInv, EndUnits
    PROVE  ExtractInv'
<1>1. /\ scan = "units" /\ Match = 0 /\ scan' = "done"
      /\ UNCHANGED <<members, source, masked, pos, units>>
    BY DEF EndUnits
<1>2. /\ \A i \in Bodied : IsDeclared(i)
      /\ units = UnitsOf(BegunBefore(pos)) /\ pos \in Nat \ {0} /\ Len(source) \in Nat
      /\ masked \in Seq(Token) /\ Len(masked) = Len(source)
    BY <1>1, AllDeclared
<1>3. \A j \in pos .. Len(source) : masked[j] \notin Declares
    BY <1>1, <1>2, MatchIs
<1>4. ASSUME NEW i \in Bodied
      PROVE  StartOf(i) < pos
    <2>1. StartOf(i) \in 1 .. Len(source) /\ masked[StartOf(i)] \in Declares
        BY <1>2 DEF IsDeclared
    <2> QED
        BY <1>2, <1>3, <2>1
<1>5. BegunBefore(pos) = Bodied
    BY <1>4 DEF BegunBefore
<1>6. UnitsInv'
    BY <1>1, <1>2, <1>5, WrittenStays DEF UnitsInv
<1>7. MaskInv'
    BY <1>1, <1>2, MaskInvStays DEF ExtractInv
<1>8. \E n : Built(n)'
    BY <1>1, WrittenStays DEF ExtractInv
<1> QED
    BY <1>6, <1>7, <1>8 DEF ExtractInv

LEMMA ScannerStarts == ScanInit => ExtractInv
<1> SUFFICES ASSUME ScanInit
             PROVE  ExtractInv
    OBVIOUS
<1>1. PICK n \in 0 .. MaxPieces : members \in [1 .. n -> Pieces]
    BY DEF ScanInit
<1>2. /\ source = Opening \o TextOf(members) \o Ending /\ masked = source /\ pos = 1
      /\ quote = "blank" /\ scan = "mask" /\ units = <<>>
    BY DEF ScanInit
<1>3. Built(n)
    BY <1>1, <1>2, SolidityUnitsAssumption DEF Built
<1>4. PICK e : Arranged(n, e)
    BY <1>3, MembersAreArranged
<1> DEFINE z == Len(source)
<1>5. source \in Seq(Token) /\ z \in Nat /\ source \in [1 .. z -> Token] /\ Len(source) = z
    BY <1>4 DEF Arranged
<1>6. Reading(source)[1] = "blank"
    BY <1>5, ReadingIs
<1> HIDE DEF z
<1>7. \A k \in 1 .. z : ~ (k < 1)
    BY <1>5
<1>8. MaskInv
    BY <1>2, <1>5, <1>6, <1>7 DEF MaskInv, z
<1>9. UnitsInv
    BY <1>2 DEF UnitsInv
<1> QED
    BY <1>3, <1>8, <1>9 DEF ExtractInv

LEMMA MaskStepKeeps ==
    ASSUME ExtractInv, MaskInv', scan = "mask", scan' = "mask", UNCHANGED <<members, source, units>>
    PROVE  ExtractInv'
<1>1. \E n : Built(n)'
    BY WrittenStays DEF ExtractInv
<1>2. UnitsInv'
    BY DEF ExtractInv, UnitsInv
<1> QED
    BY <1>1, <1>2 DEF ExtractInv

LEMMA EndMaskKeeps ==
    ASSUME ExtractInv, EndMask
    PROVE  ExtractInv'
<1>1. scan = "mask" /\ scan' = "units" /\ pos' = 1 /\ UNCHANGED <<members, source, units>>
    BY DEF EndMask
<1>2. MaskInv'
    BY MaskEnded DEF ExtractInv
<1>3. PICK n : Built(n)
    BY DEF ExtractInv
<1>4. n \in Nat
    BY <1>3 DEF Built
<1>5. PICK e : Arranged(n, e)
    BY <1>3, MembersAreArranged
<1>6. BegunBefore(1) = {}
    <2>1. ASSUME NEW h \in Bodied
          PROVE  StartOf(h) \in Nat \ {0}
        <3> DEFINE i == h - 1
        <3>1. i \in 0 .. n /\ h \in 1 .. n /\ h = i + 1
            BY <1>3, <1>4 DEF Bodied, Built
        <3> HIDE DEF i
        <3>2. Lies(h, e[i], e[h])
            BY <1>5, <3>1 DEF Arranged
        <3> DEFINE a == e[i]
        <3>3. a \in Nat /\ StartOf(h) = a + 1
            BY <3>2 DEF Lies
        <3> HIDE DEF a
        <3> QED
            BY <3>3
    <2> QED
        BY <2>1 DEF BegunBefore
<1>7. UnitsOf(BegunBefore(1)) = <<>>
    <2>1. Cardinality({}) = 0
        BY FS_EmptySet
    <2> QED
        BY <1>6, <2>1 DEF UnitsOf
<1>8. units = <<>>
    BY <1>1 DEF ExtractInv, UnitsInv
<1>9. UnitsInv'
    <2>1. UnitsOf(BegunBefore(pos))' = UnitsOf(BegunBefore(1))
        BY <1>1, WrittenStays
    <2> QED
        BY <1>1, <1>7, <1>8, <2>1 DEF UnitsInv
<1>10. \E k : Built(k)'
    BY <1>1, <1>3, WrittenStays
<1> QED
    BY <1>2, <1>9, <1>10 DEF ExtractInv

LEMMA ScannerSteps ==
    ASSUME ExtractInv, ScanStep
    PROVE  ExtractInv'
<1>1. CASE MaskLineComment
    <2>1. scan = "mask" /\ scan' = "mask" /\ UNCHANGED <<members, source, units>>
        BY <1>1 DEF MaskLineComment, InCode
    <2> QED
        BY <1>1, <2>1, MaskedLineComment, MaskStepKeeps DEF ExtractInv
<1>2. CASE MaskBlockComment
    <2>1. scan = "mask" /\ scan' = "mask" /\ UNCHANGED <<members, source, units>>
        BY <1>2 DEF MaskBlockComment, InCode
    <2> QED
        BY <1>2, <2>1, MaskedBlockComment, MaskStepKeeps DEF ExtractInv
<1>3. CASE OpenString \/ InString
    <2>1. scan = "mask" /\ scan' = "mask" /\ UNCHANGED <<members, source, units>>
        BY <1>3 DEF OpenString, InString, InCode
    <2> QED
        BY <1>3, <2>1, MaskedString, MaskStepKeeps DEF ExtractInv
<1>4. CASE KeepToken
    <2>1. scan = "mask" /\ scan' = "mask" /\ UNCHANGED <<members, source, units>>
        BY <1>4 DEF KeepToken, InCode
    <2> QED
        BY <1>4, <2>1, KeptToken, MaskStepKeeps DEF ExtractInv
<1> QED
    BY <1>1, <1>2, <1>3, <1>4, EndMaskKeeps, UnitTaken, DeclarationPassed, UnitsEnded DEF ScanStep

LEMMA ScannerWaits ==
    ASSUME ExtractInv, UNCHANGED scanVars
    PROVE  ExtractInv'
<1>1. UNCHANGED <<members, source, masked, pos, quote, scan, units>>
    BY DEF scanVars
<1>2. MaskInv'
    BY <1>1 DEF ExtractInv, MaskInv
<1>3. UnitsInv'
    BY <1>1, WrittenStays DEF ExtractInv, UnitsInv
<1>4. \E n : Built(n)'
    BY <1>1, WrittenStays DEF ExtractInv
<1> QED
    BY <1>2, <1>3, <1>4 DEF ExtractInv

LEMMA FoundIsWritten == ExtractInv => FoundAsWritten
BY DEF ExtractInv, UnitsInv, FoundAsWritten, WrittenUnits, UnitsOf

-----------------------------------------------------------------------------
(* The units *)

Unit == [kind : Token, first : Nat \ {0}, last : Nat \ {0}]

\* A unit ends on a line at or behind the one it begins on.
ScanInv ==
    /\ source \in Seq(Token)
    /\ masked \in Seq(Token)
    /\ pos \in Nat \ {0}
    /\ units \in Seq(Unit)
    /\ \A i \in 1 .. Len(units) : units[i].first <= units[i].last

LEMMA LaterSymbol ==
    ASSUME ScanInv, NEW i \in Nat \ {0}, NEW P \in SUBSET From(i), FirstOf(P) # 0
    PROVE  FirstOf(P) \in P /\ FirstOf(P) \in Nat /\ FirstOf(P) >= i /\ FirstOf(P) <= Len(masked)
<1>1. Len(masked) \in Nat
    BY DEF ScanInv
<1>2. P \in SUBSET (Nat \ {0}) /\ \A j \in P : j \in Nat /\ j >= i /\ j <= Len(masked)
    BY <1>1 DEF From
<1> QED
    BY <1>2, FirstOfIs

LEMMA BodyEndsLater ==
    ASSUME ScanInv, NEW d \in Nat \ {0}, BodyEnd(d) # 0
    PROVE  BodyEnd(d) \in Nat /\ BodyEnd(d) >= d
<1> DEFINE params == ParensAt(d)
           after == ClosedAt(params, "lparen", "rparen")
           end == HeaderEnd(after + 1)
<1>1. /\ params # 0 /\ after # 0 /\ end # 0
      /\ BodyEnd(d) = ClosedAt(end, "lbrace", "rbrace")
    BY DEF BodyEnd
<1>2. ASSUME NEW i \in Nat \ {0}, Visible(i) # 0
      PROVE  Visible(i) \in Nat /\ Visible(i) >= i
    BY <1>2, LaterSymbol DEF Visible
<1>3. params \in Nat /\ params >= d + 1
    <2>1. CASE params = Visible(d + 1)
        BY <1>1, <1>2, <2>1
    <2>2. CASE params # Visible(d + 1)
        <3>1. Visible(d + 1) # 0 /\ params = Visible(Visible(d + 1) + 1)
            BY <2>2 DEF ParensAt, Named
        <3>2. Visible(d + 1) \in Nat /\ Visible(d + 1) >= d + 1
            BY <1>2, <3>1
        <3> QED
            BY <1>1, <1>2, <3>1, <3>2
    <2> QED
        BY <2>1, <2>2
<1> HIDE DEF params
<1>4. ASSUME NEW i \in Nat \ {0}, NEW open, NEW close, ClosedAt(i, open, close) # 0
      PROVE  ClosedAt(i, open, close) \in Nat /\ ClosedAt(i, open, close) >= i
    BY <1>4, LaterSymbol DEF ClosedAt
<1>5. after \in Nat /\ after >= params
    BY <1>1, <1>3, <1>4
<1> HIDE DEF after
<1>6. end \in Nat /\ end >= after + 1
    BY <1>1, <1>5, LaterSymbol DEF HeaderEnd
<1> HIDE DEF end
<1>7. BodyEnd(d) \in Nat /\ BodyEnd(d) >= end
    BY <1>1, <1>4, <1>5, <1>6
<1> QED
    BY <1>3, <1>5, <1>6, <1>7

LEMMA LinesGoOn ==
    ASSUME ScanInv, NEW i \in Nat \ {0}, NEW j \in Nat \ {0}, i <= j
    PROVE  LineOf(i) \in Nat \ {0} /\ LineOf(i) <= LineOf(j)
<1> DEFINE Before(n) == {k \in 1 .. n - 1 : source[k] = "newline"}
<1>1. ASSUME NEW n \in Nat \ {0}
      PROVE  IsFiniteSet(Before(n)) /\ Cardinality(Before(n)) \in Nat
    <2>1. n - 1 \in Nat /\ Before(n) \in SUBSET (1 .. n - 1)
        OBVIOUS
    <2> QED
        BY <2>1, Positions
<1>2. Before(i) \subseteq Before(j)
    OBVIOUS
<1>3. Cardinality(Before(i)) <= Cardinality(Before(j))
    BY <1>1, <1>2, FS_Subset
<1>4. LineOf(i) = 1 + Cardinality(Before(i)) /\ LineOf(j) = 1 + Cardinality(Before(j))
    BY DEF LineOf
<1> HIDE DEF Before
<1> QED
    BY <1>1, <1>3, <1>4

LEMMA TakeUnitKeeps ==
    ASSUME ScanInv, TakeUnit
    PROVE  ScanInv'
<1> DEFINE d == Match
           e == BodyEnd(Match)
           new == [kind |-> KindAt(d), first |-> LineOf(d), last |-> LineOf(e)]
<1>1. /\ d # 0 /\ e # 0 /\ units' = Append(units, new) /\ pos' = d + 1
      /\ UNCHANGED <<source, masked>>
    BY DEF TakeUnit
<1>2. d \in Nat \ {0} /\ d <= Len(masked)
    <2>1. pos \in Nat \ {0} /\ Match # 0
        BY <1>1 DEF ScanInv
    <2> QED
        BY <2>1, LaterSymbol DEF Match
<1>3. e \in Nat \ {0} /\ d <= e
    BY <1>1, <1>2, BodyEndsLater
<1>4. LineOf(d) \in Nat \ {0} /\ LineOf(e) \in Nat \ {0} /\ LineOf(d) <= LineOf(e)
    BY <1>2, <1>3, LinesGoOn
<1>5. KindAt(d) \in Token
    <2>1. masked[d] \in Token
        BY <1>2 DEF ScanInv
    <2>2. "fallback" \in Token
        BY DEF Token
    <2> QED
        BY <2>1, <2>2 DEF KindAt
<1>6. new \in Unit /\ new.first <= new.last
    BY <1>4, <1>5 DEF Unit
<1> HIDE DEF new, d, e
<1>7. units' \in Seq(Unit) /\ \A i \in 1 .. Len(units') : units'[i].first <= units'[i].last
    <2>1. units \in Seq(Unit) /\ \A i \in 1 .. Len(units) : units[i].first <= units[i].last
        BY DEF ScanInv
    <2> QED
        BY <1>1, <1>6, <2>1
<1> QED
    BY <1>1, <1>2, <1>7 DEF ScanInv

LEMMA ScanStepKeeps ==
    ASSUME ScanInv, ScanStep
    PROVE  ScanInv'
<1>1. ASSUME NEW i \in Nat, NEW j \in Int
      PROVE  Blank(i, j) \in Seq(Token)
    <2>1. Blank(i, j) \in [1 .. Len(masked) -> Token] /\ Len(masked) \in Nat
        BY DEF ScanInv, Blank, Token
    <2> QED
        BY <2>1
<1>2. Len(masked) \in Nat /\ pos \in Nat \ {0} /\ masked \in Seq(Token)
    BY DEF ScanInv
<1>3. CASE MaskLineComment
    <2> DEFINE P == {j \in From(pos) : source[j] = "newline"}
               end == IF FirstOf(P) = 0 THEN Len(masked) + 1 ELSE FirstOf(P)
    <2>1. masked' = Blank(pos, end - 1) /\ pos' = end /\ UNCHANGED <<source, units>>
        BY <1>3 DEF MaskLineComment
    <2>2. end \in Nat \ {0}
        BY <1>2, LaterSymbol
    <2> HIDE DEF end
    <2>3. Blank(pos, end - 1) \in Seq(Token)
        BY <1>1, <1>2, <2>2
    <2> QED
        BY <2>1, <2>2, <2>3 DEF ScanInv
<1>4. CASE MaskBlockComment
    <2> DEFINE P == {j \in From(pos + 1) : source[j] = "comment_close"}
               end == IF FirstOf(P) = 0 THEN Len(masked) ELSE FirstOf(P)
    <2>1. masked' = Blank(pos, end) /\ pos' = end + 1 /\ UNCHANGED <<source, units>>
        BY <1>4 DEF MaskBlockComment
    <2>2. end \in Nat
        BY <1>2, LaterSymbol
    <2> HIDE DEF end
    <2>3. Blank(pos, end) \in Seq(Token)
        BY <1>1, <1>2, <2>2
    <2> QED
        BY <2>1, <2>2, <2>3 DEF ScanInv
<1>5. CASE OpenString
    <2>1. masked' = Blank(pos, pos) /\ pos' = pos + 1 /\ UNCHANGED <<source, units>>
        BY <1>5 DEF OpenString
    <2>2. Blank(pos, pos) \in Seq(Token)
        BY <1>1, <1>2
    <2> QED
        BY <1>2, <2>1, <2>2 DEF ScanInv
<1>6. CASE InString
    <2>1. /\ masked' = Blank(pos, pos + Taken(pos) - 1) /\ pos' = pos + Taken(pos)
          /\ UNCHANGED <<source, units>>
        BY <1>6 DEF InString
    <2>2. Taken(pos) \in {1, 2}
        BY DEF Taken
    <2>3. pos + Taken(pos) - 1 \in Int
        BY <1>2, <2>2
    <2>4. Blank(pos, pos + Taken(pos) - 1) \in Seq(Token)
        BY <1>1, <1>2, <2>3, Zenon
    <2> QED
        BY <1>2, <2>1, <2>2, <2>4 DEF ScanInv
<1>7. CASE KeepToken
    BY <1>2, <1>7 DEF KeepToken, ScanInv
<1>8. CASE EndMask
    BY <1>2, <1>8 DEF EndMask, ScanInv
<1>9. CASE TakeUnit
    BY <1>9, TakeUnitKeeps
<1>10. CASE PassDeclaration
    <2>1. Match # 0 /\ pos' = Match + 1 /\ UNCHANGED <<source, masked, units>>
        BY <1>10 DEF PassDeclaration
    <2>2. Match \in Nat
        BY <1>2, <2>1, LaterSymbol DEF Match
    <2> QED
        BY <2>1, <2>2 DEF ScanInv
<1>11. CASE EndUnits
    BY <1>11 DEF EndUnits, ScanInv
<1> QED
    BY <1>3, <1>4, <1>5, <1>6, <1>7, <1>8, <1>9, <1>10, <1>11 DEF ScanStep

LEMMA InitScan == ScanInit => ScanInv
<1> SUFFICES ASSUME ScanInit
             PROVE  ScanInv
    OBVIOUS
<1>1. PICK n \in 0 .. MaxPieces : members \in [1 .. n -> Pieces]
    BY DEF ScanInit
<1> DEFINE texts == [i \in 1 .. n |-> members[i].tokens]
<1>2. n \in Nat /\ \A p \in Pieces : p.tokens \in Seq(Token)
    BY SolidityUnitsAssumption
<1>3. texts \in [1 .. n -> Seq(Token)] /\ TextOf(members) = FlattenSeq(texts)
    BY <1>1, <1>2 DEF TextOf
<1> HIDE DEF texts
<1>4. FlattenSeq(texts) \in Seq(Token)
    <2>1. PICK f \in [1 .. n -> Seq(Token)] :
            Appends(f, texts) /\ FlattenSeq(texts) = IF n = 0 THEN <<>> ELSE f[n]
        BY <1>2, <1>3, FlattenProperties
    <2>2. n # 0 => f[n] \in Seq(Token)
        BY <1>2
    <2> QED
        BY <2>1, <2>2
<1>5. Opening \in Seq(Token) /\ Ending \in Seq(Token)
    BY DEF Opening, Ending, Token
<1> DEFINE text == TextOf(members)
<1>6. text \in Seq(Token)
    BY <1>3, <1>4
<1> HIDE DEF text
<1>7. Opening \o text \o Ending \in Seq(Token)
    BY <1>5, <1>6
<1>8. source = Opening \o text \o Ending /\ masked = source /\ pos = 1 /\ units = <<>>
    BY DEF ScanInit, text
<1> QED
    BY <1>7, <1>8 DEF ScanInv

-----------------------------------------------------------------------------
(* Line ranges *)

LineRange == {r \in [first : Nat \ {0}, last : Nat \ {0}] : r.first <= r.last}

\* The lines in some range.
Covered(rs) == UNION {rs[n].first .. rs[n].last : n \in 1 .. Len(rs)}

LEMMA CoveredLines ==
    ASSUME NEW rs, NEW l
    PROVE  l \in Covered(rs) <=> \E n \in 1 .. Len(rs) : l \in rs[n].first .. rs[n].last
BY DEF Covered

LEMMA CoveredJoin ==
    ASSUME NEW rs \in Seq(LineRange), NEW ts \in Seq(LineRange)
    PROVE  rs \o ts \in Seq(LineRange) /\ Covered(rs \o ts) = Covered(rs) \cup Covered(ts)
<1> DEFINE m == Len(rs)
           n == Len(ts)
           us == rs \o ts
<1>1. m \in Nat /\ n \in Nat
    OBVIOUS
<1>2. us \in Seq(LineRange) /\ Joins(us, rs, m, ts, n)
    BY <1>1, JoinedLists
<1> HIDE DEF us, m, n
<1>3. Len(us) = m + n /\ \A i \in 1 .. m + n : us[i] = IF i <= m THEN rs[i] ELSE ts[i - m]
    BY <1>2 DEF Joins
<1>4. ASSUME NEW l \in Covered(us)
      PROVE  l \in Covered(rs) \cup Covered(ts)
    <2>1. PICK i \in 1 .. m + n : l \in us[i].first .. us[i].last
        BY <1>3, <1>4, CoveredLines
    <2>2. CASE i <= m
        <3>1. i \in 1 .. Len(rs) /\ us[i] = rs[i]
            BY <1>1, <1>3, <2>2 DEF m
        <3> QED
            BY <2>1, <3>1, CoveredLines
    <2>3. CASE ~ (i <= m)
        <3>1. i - m \in 1 .. Len(ts) /\ us[i] = ts[i - m]
            BY <1>1, <1>3, <2>3 DEF n
        <3> QED
            BY <2>1, <3>1, CoveredLines
    <2> QED
        BY <2>2, <2>3
<1>5. ASSUME NEW l \in Covered(rs)
      PROVE  l \in Covered(us)
    <2>1. PICK i \in 1 .. m : l \in rs[i].first .. rs[i].last
        BY <1>5, CoveredLines DEF m
    <2>2. i \in 1 .. Len(us) /\ us[i] = rs[i]
        BY <1>1, <1>3
    <2> QED
        BY <2>1, <2>2, CoveredLines
<1>6. ASSUME NEW l \in Covered(ts)
      PROVE  l \in Covered(us)
    <2>1. PICK i \in 1 .. n : l \in ts[i].first .. ts[i].last
        BY <1>6, CoveredLines DEF n
    <2>2. m + i \in 1 .. Len(us) /\ us[m + i] = ts[i]
        <3>1. m + i \in 1 .. m + n /\ ~ (m + i <= m) /\ (m + i) - m = i
            BY <1>1
        <3> QED
            BY <1>3, <3>1
    <2> QED
        BY <2>1, <2>2, CoveredLines
<1> QED
    BY <1>2, <1>4, <1>5, <1>6 DEF us

LEMMA CoveredOne ==
    ASSUME NEW r \in LineRange
    PROVE  <<r>> \in Seq(LineRange) /\ Covered(<<r>>) = r.first .. r.last
<1>1. <<r>> \in Seq(LineRange) /\ Len(<<r>>) = 1 /\ <<r>>[1] = r
    OBVIOUS
<1>2. ASSUME NEW l
      PROVE  l \in Covered(<<r>>) <=> l \in r.first .. r.last
    BY <1>1, CoveredLines
<1> QED
    BY <1>1, <1>2

\* A list covers no line only when it is empty.
LEMMA CoveredSome ==
    ASSUME NEW rs \in Seq(LineRange), rs # <<>>
    PROVE  Covered(rs) # {}
<1>1. 1 \in 1 .. Len(rs) /\ rs[1] \in LineRange
    OBVIOUS
<1>2. rs[1].first \in rs[1].first .. rs[1].last
    BY <1>1 DEF LineRange
<1> QED
    BY <1>1, <1>2, CoveredLines

-----------------------------------------------------------------------------
(* Merging *)

LEMMA WithRangeKeeps ==
    ASSUME NEW rs \in Seq(LineRange), NEW r \in LineRange,
           rs # <<>> => Last(rs).first <= r.first
    PROVE  /\ WithRange(rs, r) \in Seq(LineRange)
           /\ Covered(WithRange(rs, r)) = Covered(rs) \cup (r.first .. r.last)
           /\ WithRange(rs, r) # <<>>
           /\ Last(WithRange(rs, r)).first <= r.first
<1>1. CASE rs # <<>> /\ r.first <= Last(rs).last + 1
    <2> DEFINE n == Len(rs)
               x == Extended(rs[n], r)
               ts == [rs EXCEPT ![n] = x]
    <2>1. n \in Nat \ {0} /\ n \in 1 .. n /\ Last(rs) = rs[n] /\ rs[n] \in LineRange
        BY <1>1 DEF Last
    <2>2. x \in LineRange /\ x.first .. x.last = (rs[n].first .. rs[n].last) \cup (r.first .. r.last)
          /\ x.first = rs[n].first
        BY <1>1, <2>1 DEF LineRange, Extended
    <2> HIDE DEF x
    <2>3. ts \in Seq(LineRange) /\ Len(ts) = n /\ ts[n] = x /\ \A i \in 1 .. n : i # n => ts[i] = rs[i]
        BY <2>1, <2>2
    <2>4. WithRange(rs, r) = ts
        BY <1>1, <2>1 DEF WithRange, x
    <2> HIDE DEF ts
    <2>5. Covered(ts) = Covered(rs) \cup (r.first .. r.last)
        <3>1. ASSUME NEW l \in Covered(ts)
              PROVE  l \in Covered(rs) \cup (r.first .. r.last)
            <4>1. PICK i \in 1 .. n : l \in ts[i].first .. ts[i].last
                BY <2>3, <3>1, CoveredLines
            <4> QED
                BY <2>2, <2>3, <4>1, CoveredLines
        <3>2. ASSUME NEW l \in Covered(rs)
              PROVE  l \in Covered(ts)
            <4>1. PICK i \in 1 .. n : l \in rs[i].first .. rs[i].last
                BY <3>2, CoveredLines
            <4>2. l \in ts[i].first .. ts[i].last
                BY <2>2, <2>3, <4>1
            <4> QED
                BY <2>3, <4>2, CoveredLines
        <3>3. ASSUME NEW l \in r.first .. r.last
              PROVE  l \in Covered(ts)
            <4>1. l \in ts[n].first .. ts[n].last
                BY <2>2, <2>3, <3>3
            <4> QED
                BY <2>1, <2>3, <4>1, CoveredLines
        <3> QED
            BY <3>1, <3>2, <3>3
    <2>6. ts # <<>> /\ Last(ts) = x
        BY <2>1, <2>3 DEF Last
    <2> QED
        BY <1>1, <2>1, <2>2, <2>3, <2>4, <2>5, <2>6
<1>2. CASE ~ (rs # <<>> /\ r.first <= Last(rs).last + 1)
    <2> DEFINE ts == Append(rs, r)
    <2>1. WithRange(rs, r) = ts
        BY <1>2 DEF WithRange
    <2>2. ts = rs \o <<r>> /\ ts \in Seq(LineRange) /\ ts # <<>> /\ Last(ts) = r
        BY AppendIsConcat, AppendProperties DEF Last
    <2>3. Covered(ts) = Covered(rs) \cup (r.first .. r.last)
        BY <2>2, CoveredJoin, CoveredOne
    <2>4. r.first <= r.first
        BY DEF LineRange
    <2> QED
        BY <2>1, <2>2, <2>3, <2>4
<1> QED
    BY <1>1, <1>2

LEMMA EarlierOrders ==
    ASSUME NEW a \in LineRange, NEW b \in LineRange
    PROVE  /\ Earlier(a, b) => ~ Earlier(b, a)
           /\ \A c \in LineRange : Earlier(a, b) /\ Earlier(b, c) => Earlier(a, c)
           /\ ~ Earlier(b, a) => a.first <= b.first
BY DEF LineRange, Earlier

\* Sorting by first and last line loses no range.
LEMMA OrderedProperties ==
    ASSUME NEW rs \in Seq(LineRange)
    PROVE  /\ Ordered(rs) \in Seq(LineRange)
           /\ Covered(Ordered(rs)) = Covered(rs)
           /\ \A i, j \in 1 .. Len(Ordered(rs)) : i < j => Ordered(rs)[i].first <= Ordered(rs)[j].first
<1> DEFINE n == Len(rs)
           P == 1 .. n
           before == {p \in P \X P : Earlier(rs[p[1]], rs[p[2]])}
           order == Sorted(P, before)
           ts == [k \in P |-> rs[order[k]]]
<1>1. n \in Nat /\ DOMAIN rs = P /\ rs \in [P -> LineRange]
    OBVIOUS
<1>2. Ordered(rs) = ts
    BY <1>1 DEF Ordered
<1>3. \A i, j \in P : <<i, j>> \in before <=> Earlier(rs[i], rs[j])
    OBVIOUS
<1>4. \A i \in P : rs[i] \in LineRange
    BY <1>1
<1> HIDE DEF before
<1>5. StrictOrder(P, before)
    <2> HIDE DEF P
    <2> QED
        BY <1>3, <1>4, EarlierOrders DEF StrictOrder
<1>6. IsFiniteSet(P) /\ Cardinality(P) = n
    <2>1. n \in Int /\ 1 \in Int /\ ~ (1 > n) => n - 1 + 1 = n
        BY <1>1
    <2> HIDE DEF n
    <2> QED
        BY <1>1, <2>1, FS_Interval
<1>7. /\ order \in [P -> P]
      /\ \A i, j \in P : i < j => <<order[j], order[i]>> \notin before
      /\ \A x \in P : \E k \in P : order[k] = x
    <2>1. 1 .. Cardinality(P) = P
        BY <1>6
    <2> HIDE DEF P
    <2>2. /\ order \in [1 .. Cardinality(P) -> P]
          /\ \A i, j \in 1 .. Cardinality(P) : i < j => <<order[j], order[i]>> \notin before
          /\ \A x \in P : \E k \in 1 .. Cardinality(P) : order[k] = x
        BY <1>5, <1>6, SortedProperties
    <2> QED
        BY <2>1, <2>2
<1> HIDE DEF order
<1>8. ts \in Seq(LineRange) /\ Len(ts) = n /\ \A k \in P : ts[k] = rs[order[k]]
    BY <1>1, <1>7
<1> HIDE DEF ts
<1>9. Covered(ts) = Covered(rs)
    <2>1. ASSUME NEW l \in Covered(ts)
          PROVE  l \in Covered(rs)
        <3>1. PICK k \in P : l \in ts[k].first .. ts[k].last
            BY <1>8, <2>1, CoveredLines
        <3>2. order[k] \in 1 .. Len(rs) /\ l \in rs[order[k]].first .. rs[order[k]].last
            BY <1>7, <1>8, <3>1
        <3> QED
            BY <3>2, CoveredLines
    <2>2. ASSUME NEW l \in Covered(rs)
          PROVE  l \in Covered(ts)
        <3>1. PICK x \in P : l \in rs[x].first .. rs[x].last
            BY <2>2, CoveredLines
        <3>2. PICK k \in P : order[k] = x
            BY <1>7
        <3>3. k \in 1 .. Len(ts) /\ l \in ts[k].first .. ts[k].last
            BY <1>8, <3>1, <3>2
        <3> QED
            BY <3>3, CoveredLines
    <2> QED
        BY <2>1, <2>2
<1>10. ASSUME NEW i \in P, NEW j \in P, i < j
       PROVE  ts[i].first <= ts[j].first
    <2>1. order[i] \in P /\ order[j] \in P /\ ~ Earlier(rs[order[j]], rs[order[i]])
        BY <1>3, <1>7, <1>10
    <2>2. ts[i] = rs[order[i]] /\ ts[j] = rs[order[j]]
        BY <1>8
    <2> QED
        BY <1>4, <2>1, <2>2, EarlierOrders
<1> QED
    BY <1>2, <1>8, <1>9, <1>10

-----------------------------------------------------------------------------
(* The lines the hunks show *)

\* Where an edit leaves its mark in the diff.
MarkLines(e) == Shown(e) \cup {IF g = 0 THEN 1 ELSE g : g \in BareGaps(e)}

Edit == [added : SUBSET (1 .. Lines), lookalike : SUBSET (1 .. Lines),
         removed : SUBSET (0 .. Lines), context : Nat]

\* A longest row of members around one of them.
LEMMA LongestRow ==
    ASSUME NEW n \in Nat, NEW S \in SUBSET (1 .. n), NEW l \in S
    PROVE  \E a, b \in 1 .. n : /\ a <= l /\ l <= b /\ a .. b \subseteq S
                                /\ a - 1 \notin S /\ b + 1 \notin S
<1>1. l \in Nat /\ 1 <= l /\ l <= n
    OBVIOUS
<1> DEFINE Behind == {d \in Nat : l + d + 1 \notin S}
           Ahead == {d \in Nat : (l - d) - 1 \notin S}
<1>2. n - l \in Behind /\ l - 1 \in Ahead
    BY <1>1
<1>3. PICK d \in Behind : \A c \in Behind : d <= c
    BY <1>2, LeastNumber
<1>4. PICK c \in Ahead : \A d1 \in Ahead : c <= d1
    BY <1>2, LeastNumber
<1>5. d \in Nat /\ c \in Nat /\ d <= n - l /\ c <= l - 1
    BY <1>2, <1>3, <1>4
<1>6. ASSUME NEW j \in (l - c) .. (l + d)
      PROVE  j \in S
    <2>1. CASE j = l
        BY <2>1
    <2>2. CASE j > l
        <3>1. (j - l) - 1 \in Nat /\ ~ (d <= (j - l) - 1) /\ l + ((j - l) - 1) + 1 = j
            BY <1>1, <1>5, <2>2
        <3> QED
            BY <1>3, <3>1
    <2>3. CASE j < l
        <3>1. (l - j) - 1 \in Nat /\ ~ (c <= (l - j) - 1) /\ (l - ((l - j) - 1)) - 1 = j
            BY <1>1, <1>5, <2>3
        <3> QED
            BY <1>4, <3>1
    <2> QED
        BY <1>1, <1>5, <2>1, <2>2, <2>3
<1>7. (l - c) - 1 \notin S /\ (l + d) + 1 \notin S
    BY <1>3, <1>4
<1>8. l - c \in 1 .. n /\ l + d \in 1 .. n /\ l - c <= l /\ l <= l + d
    BY <1>1, <1>5
<1> HIDE DEF Behind, Ahead
<1>9. (l - c) .. (l + d) \subseteq S
    BY <1>6
<1> QED
    BY <1>7, <1>8, <1>9

HunkLine == {h \in [what : {"hunk"}, old : Nat, start : Nat, new : Nat] : h.new > 0 => h.start > 0}

LEMMA RangeOfProperties ==
    ASSUME NEW h \in HunkLine
    PROVE  /\ RangeOf(h) \in Seq(LineRange)
           /\ h.new > 0 => Covered(RangeOf(h)) = h.start .. (h.start + h.new - 1)
           /\ h.new = 0 /\ h.old > 0 => Covered(RangeOf(h)) = {IF h.start = 0 THEN 1 ELSE h.start}
<1>1. h.old \in Nat /\ h.start \in Nat /\ h.new \in Nat /\ (h.new > 0 => h.start > 0)
    BY DEF HunkLine
<1>2. CASE h.new > 0
    <2> DEFINE r == [first |-> h.start, last |-> h.start + h.new - 1]
    <2>1. r \in LineRange /\ RangeOf(h) = <<r>> /\ r.first = h.start /\ r.last = h.start + h.new - 1
        BY <1>1, <1>2 DEF LineRange, RangeOf
    <2> HIDE DEF r
    <2>2. <<r>> \in Seq(LineRange) /\ Covered(<<r>>) = r.first .. r.last
        BY <2>1, CoveredOne
    <2> QED
        BY <1>1, <1>2, <2>1, <2>2
<1>3. CASE h.new = 0 /\ h.old > 0
    <2> DEFINE anchor == IF h.start = 0 THEN 1 ELSE h.start
               r == [first |-> anchor, last |-> anchor]
    <2>1. r \in LineRange /\ RangeOf(h) = <<r>> /\ r.first = anchor /\ r.last = anchor
        BY <1>1, <1>3 DEF LineRange, RangeOf
    <2>2. anchor \in Nat
        BY <1>1
    <2> HIDE DEF r, anchor
    <2>3. <<r>> \in Seq(LineRange) /\ Covered(<<r>>) = r.first .. r.last
        BY <2>1, CoveredOne
    <2>4. Covered(RangeOf(h)) = {anchor}
        BY <2>1, <2>2, <2>3
    <2> QED
        BY <1>3, <2>1, <2>3, <2>4 DEF anchor
<1>4. CASE h.new = 0 /\ h.old = 0
    <2>1. RangeOf(h) = <<>>
        BY <1>4 DEF RangeOf
    <2> QED
        BY <1>4, <2>1
<1> QED
    BY <1>1, <1>2, <1>3, <1>4

\* The hunks of an edit, in no order.
RowsOf(e) == {r \in (1 .. Lines) \X (1 .. Lines) :
                /\ r[1] <= r[2] /\ r[1] .. r[2] \subseteq Shown(e)
                /\ r[1] - 1 \notin Shown(e) /\ r[2] + 1 \notin Shown(e)}

RowHunk(e, r) == Hunk(OldLines(e, r[1], r[2]), r[1], r[2] - r[1] + 1)

AllHunks(e) == {RowHunk(e, r) : r \in RowsOf(e)} \cup {Hunk(1, g, 0) : g \in BareGaps(e)}

LEMMA OldLinesNumber ==
    ASSUME Lines \in Nat, NEW e \in Edit, NEW a \in 1 .. Lines, NEW b \in 1 .. Lines
    PROVE  OldLines(e, a, b) \in Nat
<1> DEFINE kept == a .. b \ e.added
           gone == e.removed \cap (a - 1) .. b
<1>1. kept \in SUBSET (1 .. Lines)
    OBVIOUS
<1>2. Cardinality(kept) \in Nat
    BY <1>1, Positions
<1>3. IsFiniteSet(gone)
    <2>1. a - 1 \in Int /\ b \in Int
        OBVIOUS
    <2>2. IsFiniteSet((a - 1) .. b)
        BY <2>1, FS_Interval
    <2>3. gone \subseteq (a - 1) .. b
        OBVIOUS
    <2> QED
        BY <2>2, <2>3, FS_Subset
<1>4. Cardinality(gone) \in Nat
    BY <1>3, FS_CardinalityType
<1> HIDE DEF kept, gone
<1>5. Cardinality(kept) + Cardinality(gone) \in Nat
    BY <1>2, <1>4
<1> QED
    BY <1>5 DEF OldLines, kept, gone

LEMMA RowHunkProperties ==
    ASSUME Lines \in Nat, NEW e \in Edit, NEW r \in RowsOf(e)
    PROVE  RowHunk(e, r) \in HunkLine /\ Covered(RangeOf(RowHunk(e, r))) = r[1] .. r[2]
<1> DEFINE h == RowHunk(e, r)
<1>1. r[1] \in 1 .. Lines /\ r[2] \in 1 .. Lines /\ r[1] <= r[2]
    BY DEF RowsOf
<1>2. OldLines(e, r[1], r[2]) \in Nat
    BY <1>1, OldLinesNumber
<1>3. h = [what |-> "hunk", old |-> OldLines(e, r[1], r[2]), start |-> r[1], new |-> r[2] - r[1] + 1]
    BY DEF RowHunk, Hunk
<1>4. h \in HunkLine /\ h.new > 0 /\ h.start = r[1] /\ h.start + h.new - 1 = r[2]
    BY <1>1, <1>2, <1>3 DEF HunkLine
<1> HIDE DEF h
<1>5. Covered(RangeOf(h)) = h.start .. (h.start + h.new - 1)
    BY <1>4, RangeOfProperties
<1> QED
    BY <1>4, <1>5 DEF h

LEMMA GapHunkProperties ==
    ASSUME NEW g \in Nat
    PROVE  /\ Hunk(1, g, 0) \in HunkLine
           /\ Covered(RangeOf(Hunk(1, g, 0))) = {IF g = 0 THEN 1 ELSE g}
<1> DEFINE h == Hunk(1, g, 0)
<1>1. h \in HunkLine /\ h.new = 0 /\ h.old > 0 /\ h.start = g
    BY DEF Hunk, HunkLine
<1> HIDE DEF h
<1>2. Covered(RangeOf(h)) = {IF h.start = 0 THEN 1 ELSE h.start}
    BY <1>1, RangeOfProperties
<1> QED
    BY <1>1, <1>2 DEF h

LEMMA AllHunksProperties ==
    ASSUME Lines \in Nat, NEW e \in Edit
    PROVE  /\ IsFiniteSet(AllHunks(e)) /\ AllHunks(e) \subseteq HunkLine
           /\ \A l : l \in MarkLines(e) <=> \E h \in AllHunks(e) : l \in Covered(RangeOf(h))
<1> DEFINE spans == RowsOf(e)
           gaps == BareGaps(e)
<1>1. spans \subseteq (1 .. Lines) \X (1 .. Lines) /\ gaps \subseteq 0 .. Lines /\ gaps \subseteq Nat
    BY DEF RowsOf, BareGaps, Edit
<1>2. IsFiniteSet(AllHunks(e))
    <2>1. 0 \in Int /\ 1 \in Int /\ Lines \in Int
        OBVIOUS
    <2>2. IsFiniteSet(1 .. Lines) /\ IsFiniteSet(0 .. Lines)
        BY <2>1, FS_Interval
    <2>3. IsFiniteSet((1 .. Lines) \X (1 .. Lines))
        BY <2>2, FS_Product
    <2>4. IsFiniteSet(spans) /\ IsFiniteSet(gaps)
        BY <1>1, <2>2, <2>3, FS_Subset
    <2> HIDE DEF spans, gaps
    <2>5. IsFiniteSet({RowHunk(e, r) : r \in spans})
        <3> DEFINE T == {RowHunk(e, r) : r \in spans}
                   f == [r \in spans |-> RowHunk(e, r)]
        <3>1. f \in Surjection(spans, T)
            BY DEF Surjection
        <3> QED
            BY <2>4, <3>1, FS_Surjection
    <2>6. IsFiniteSet({Hunk(1, g, 0) : g \in gaps})
        <3> DEFINE T == {Hunk(1, g, 0) : g \in gaps}
                   f == [g \in gaps |-> Hunk(1, g, 0)]
        <3>1. f \in Surjection(gaps, T)
            BY DEF Surjection
        <3> QED
            BY <2>4, <3>1, FS_Surjection
    <2>7. IsFiniteSet({RowHunk(e, r) : r \in spans} \cup {Hunk(1, g, 0) : g \in gaps})
        BY <2>5, <2>6, FS_Union
    <2> QED
        BY <2>7 DEF AllHunks, spans, gaps
<1>3. AllHunks(e) \subseteq HunkLine
    BY <1>1, RowHunkProperties, GapHunkProperties DEF AllHunks
<1>4. ASSUME NEW l \in Shown(e)
      PROVE  \E h \in AllHunks(e) : l \in Covered(RangeOf(h))
    <2>1. Shown(e) \in SUBSET (1 .. Lines)
        BY DEF Shown
    <2>2. PICK a \in 1 .. Lines, b \in 1 .. Lines :
            /\ a <= l /\ l <= b /\ a .. b \subseteq Shown(e)
            /\ a - 1 \notin Shown(e) /\ b + 1 \notin Shown(e)
        BY <1>4, <2>1, LongestRow
    <2>3. l \in Nat
        BY <1>4, <2>1
    <2>4. <<a, b>> \in spans /\ l \in a .. b
        BY <2>2, <2>3 DEF RowsOf
    <2> HIDE DEF spans
    <2> DEFINE r == <<a, b>>
               h == RowHunk(e, r)
    <2>5. Covered(RangeOf(h)) = r[1] .. r[2] /\ r[1] = a /\ r[2] = b
        BY <2>4, RowHunkProperties DEF spans
    <2>6. h \in AllHunks(e)
        BY <2>4 DEF AllHunks, spans
    <2> QED
        BY <2>4, <2>5, <2>6
<1>5. ASSUME NEW l \in {IF g = 0 THEN 1 ELSE g : g \in gaps}
      PROVE  \E h \in AllHunks(e) : l \in Covered(RangeOf(h))
    <2>1. PICK g \in gaps : l = IF g = 0 THEN 1 ELSE g
        BY <1>5
    <2>2. l \in Covered(RangeOf(Hunk(1, g, 0)))
        BY <1>1, <2>1, GapHunkProperties
    <2>3. Hunk(1, g, 0) \in AllHunks(e)
        BY <2>1 DEF AllHunks
    <2> QED
        BY <2>2, <2>3
<1>6. ASSUME NEW h \in AllHunks(e), NEW l \in Covered(RangeOf(h))
      PROVE  l \in MarkLines(e)
    <2>1. CASE h \in {RowHunk(e, r) : r \in RowsOf(e)}
        <3>1. PICK r \in RowsOf(e) : h = RowHunk(e, r)
            BY <2>1
        <3>2. l \in r[1] .. r[2] /\ r[1] .. r[2] \subseteq Shown(e)
            BY <1>6, <3>1, RowHunkProperties DEF RowsOf
        <3> QED
            BY <3>2 DEF MarkLines
    <2>2. CASE h \in {Hunk(1, g, 0) : g \in BareGaps(e)}
        <3>1. PICK g \in gaps : h = Hunk(1, g, 0)
            BY <2>2
        <3>2. l = IF g = 0 THEN 1 ELSE g
            BY <1>1, <1>6, <3>1, GapHunkProperties
        <3> QED
            BY <3>1, <3>2 DEF MarkLines
    <2> QED
        BY <1>6, <2>1, <2>2 DEF AllHunks
<1> QED
    BY <1>2, <1>3, <1>4, <1>5, <1>6 DEF MarkLines

\* The sorted hunks show the lines with a mark.
LEMMA HunksProperties ==
    ASSUME Lines \in Nat, NEW e \in Edit
    PROVE  /\ HunksOf(e) \in Seq(HunkLine)
           /\ \A l : l \in MarkLines(e)
                     <=> \E i \in 1 .. Len(HunksOf(e)) : l \in Covered(RangeOf(HunksOf(e)[i]))
<1> DEFINE all == AllHunks(e)
           before == {p \in all \X all : p[1].start < p[2].start}
           s == Sorted(all, before)
           n == Cardinality(all)
<1>1. HunksOf(e) = s
    BY DEF HunksOf, AllHunks, RowsOf, RowHunk
<1>2. IsFiniteSet(all) /\ all \subseteq HunkLine
    BY AllHunksProperties
<1>3. \A h \in all : h.start \in Nat
    BY <1>2 DEF HunkLine
<1> HIDE DEF all
<1>4. \A a, b \in all : <<a, b>> \in before <=> a.start < b.start
    OBVIOUS
<1> HIDE DEF before
<1>5. StrictOrder(all, before)
    BY <1>3, <1>4 DEF StrictOrder
<1>6. /\ n \in Nat /\ s \in [1 .. n -> all]
      /\ \A x \in all : \E k \in 1 .. n : s[k] = x
    BY <1>2, <1>5, SortedProperties
<1> HIDE DEF s, n
<1>7. s \in Seq(HunkLine) /\ Len(s) = n
    BY <1>2, <1>6
<1>8. ASSUME NEW l
      PROVE  l \in MarkLines(e) <=> \E i \in 1 .. Len(s) : l \in Covered(RangeOf(s[i]))
    <2>1. l \in MarkLines(e) <=> \E h \in all : l \in Covered(RangeOf(h))
        BY AllHunksProperties DEF all
    <2> QED
        BY <1>6, <1>7, <2>1
<1> QED
    BY <1>1, <1>7, <1>8

-----------------------------------------------------------------------------
(* The lines of a diff that belong to the file *)

FileLines == [what : {"file"}, path : {"mine", "other", NoPath}]

DiffLine == FileLines \cup HunkLine \cup {BodyLine}

\* Line k of d belongs to the file, when p is the path before d.
InMine(d, p, k) ==
    \/ p = "mine" /\ \A j \in 1 .. k : d[j].what # "file"
    \/ \E i \in 1 .. k : /\ d[i].what = "file" /\ d[i].path = "mine"
                         /\ \A j \in i + 1 .. k : d[j].what # "file"

MineHunks(d, p) == {k \in 1 .. Len(d) : d[k].what = "hunk" /\ InMine(d, p, k)}

\* The lines that the hunks of the file in d show.
MineLines(d, p) == UNION {Covered(RangeOf(d[k])) : k \in MineHunks(d, p)}

LEMMA MineLinesAre ==
    ASSUME NEW d, NEW p, NEW l
    PROVE  l \in MineLines(d, p)
           <=> \E k \in 1 .. Len(d) : d[k].what = "hunk" /\ InMine(d, p, k) /\ l \in Covered(RangeOf(d[k]))
BY DEF MineLines, MineHunks

LEMMA MineBefore ==
    ASSUME NEW u, NEW s, NEW t, NEW m \in Nat, NEW n \in Nat, Joins(u, s, m, t, n),
           NEW p, NEW k \in 1 .. m
    PROVE  InMine(u, p, k) <=> InMine(s, p, k)
<1>1. \A i \in 1 .. k : u[i] = s[i]
    BY DEF Joins
<1>2. \A i \in 1 .. k : \A j \in i + 1 .. k : j \in 1 .. k
    OBVIOUS
<1> QED
    BY <1>1, <1>2 DEF InMine

\* What is in force where t begins: t says so itself, the last line of s does, or the
\* path before s still is.
Passes(s, m, t, n, p, q) ==
    \/ n > 0 /\ t[1].what = "file"
    \/ m > 0 /\ s[m].what = "file" /\ s[m].path = q
    \/ p = q /\ \A j \in 1 .. m : s[j].what # "file"

LEMMA MineBehind ==
    ASSUME NEW u, NEW s, NEW t, NEW m \in Nat, NEW n \in Nat, Joins(u, s, m, t, n),
           NEW p, NEW q, Passes(s, m, t, n, p, q), NEW k \in 1 .. n
    PROVE  InMine(u, p, m + k) <=> InMine(t, q, k)
<1>1. \A i \in 1 .. m : u[i] = s[i]
    BY DEF Joins
<1>2. ASSUME NEW i \in 1 .. k
      PROVE  m + i \in 1 .. m + k /\ u[m + i] = t[i]
    <2>1. m + i \in 1 .. m + n /\ ~ (m + i <= m) /\ (m + i) - m = i
        BY <1>2
    <2> QED
        BY <2>1 DEF Joins
<1>3. ASSUME NEW i \in 1 .. k
      PROVE  (\A j \in m + i + 1 .. m + k : u[j].what # "file")
             <=> (\A j \in i + 1 .. k : t[j].what # "file")
    <2>1. ASSUME \A j \in m + i + 1 .. m + k : u[j].what # "file", NEW j \in i + 1 .. k
          PROVE  t[j].what # "file"
        <3>1. m + j \in m + i + 1 .. m + k /\ j \in 1 .. k
            BY <2>1
        <3> QED
            BY <1>2, <2>1, <3>1
    <2>2. ASSUME \A j \in i + 1 .. k : t[j].what # "file", NEW j \in m + i + 1 .. m + k
          PROVE  u[j].what # "file"
        <3>1. j - m \in i + 1 .. k /\ j - m \in 1 .. k /\ m + (j - m) = j
            BY <2>2
        <3> QED
            BY <1>2, <2>2, <3>1
    <2> QED
        BY <2>1, <2>2
<1>4. ASSUME InMine(t, q, k)
      PROVE  InMine(u, p, m + k)
    <2>1. CASE \E i \in 1 .. k : /\ t[i].what = "file" /\ t[i].path = "mine"
                                 /\ \A j \in i + 1 .. k : t[j].what # "file"
        <3>1. PICK i \in 1 .. k : /\ t[i].what = "file" /\ t[i].path = "mine"
                                  /\ \A j \in i + 1 .. k : t[j].what # "file"
            BY <2>1
        <3>2. /\ m + i \in 1 .. m + k /\ u[m + i].what = "file" /\ u[m + i].path = "mine"
              /\ \A j \in m + i + 1 .. m + k : u[j].what # "file"
            BY <1>2, <1>3, <3>1
        <3> QED
            BY <3>2 DEF InMine
    <2>2. CASE q = "mine" /\ \A j \in 1 .. k : t[j].what # "file"
        <3>1. \A j \in m + 1 .. m + k : u[j].what # "file"
            <4>1. ASSUME NEW j \in m + 1 .. m + k
                  PROVE  u[j].what # "file"
                <5>1. j - m \in 1 .. k /\ m + (j - m) = j
                    BY <4>1
                <5> QED
                    BY <1>2, <2>2, <5>1
            <4> QED
                BY <4>1
        <3>2. ~ (n > 0 /\ t[1].what = "file")
            <4>1. 1 \in 1 .. k
                OBVIOUS
            <4> QED
                BY <2>2, <4>1
        <3>3. CASE m > 0 /\ s[m].what = "file" /\ s[m].path = q
            <4>1. m \in 1 .. m + k /\ u[m] = s[m]
                BY <1>1, <3>3
            <4> QED
                BY <2>2, <3>1, <3>3, <4>1 DEF InMine
        <3>4. CASE p = q /\ \A j \in 1 .. m : s[j].what # "file"
            <4>1. ASSUME NEW j \in 1 .. m + k
                  PROVE  u[j].what # "file"
                <5>1. j \in 1 .. m \/ j \in m + 1 .. m + k
                    BY <4>1
                <5> QED
                    BY <1>1, <3>1, <3>4, <5>1
            <4> QED
                BY <2>2, <3>4, <4>1 DEF InMine
        <3> QED
            BY <3>2, <3>3, <3>4 DEF Passes
    <2> QED
        BY <1>4, <2>1, <2>2 DEF InMine
<1>5. ASSUME InMine(u, p, m + k)
      PROVE  InMine(t, q, k)
    <2>1. CASE \E i \in 1 .. k : t[i].what = "file" /\ \A j \in i + 1 .. k : t[j].what # "file"
        <3>1. PICK i \in 1 .. k : t[i].what = "file" /\ \A j \in i + 1 .. k : t[j].what # "file"
            BY <2>1
        <3>2. m + i \in 1 .. m + k /\ u[m + i] = t[i] /\ \A j \in m + i + 1 .. m + k : u[j].what # "file"
            BY <1>2, <1>3, <3>1
        <3>3. PICK h \in 1 .. m + k : /\ u[h].what = "file" /\ u[h].path = "mine"
                                      /\ \A j \in h + 1 .. m + k : u[j].what # "file"
            BY <1>5, <3>1, <3>2 DEF InMine
        <3>4. h = m + i
            <4>1. ~ (h > m + i)
                <5>1. h > m + i => h \in m + i + 1 .. m + k
                    BY <3>2
                <5> QED
                    BY <3>2, <3>3, <5>1
            <4>2. ~ (h < m + i)
                <5>1. h < m + i => m + i \in h + 1 .. m + k
                    BY <3>2
                <5> QED
                    BY <3>1, <3>2, <3>3, <5>1
            <4> QED
                BY <4>1, <4>2
        <3> QED
            BY <3>1, <3>2, <3>3, <3>4 DEF InMine
    <2>2. CASE \A j \in 1 .. k : t[j].what # "file"
        <3>1. q = "mine"
            <4>1. ~ (n > 0 /\ t[1].what = "file")
                <5>1. 1 \in 1 .. k
                    OBVIOUS
                <5> QED
                    BY <2>2, <5>1
            <4>2. CASE m > 0 /\ s[m].what = "file" /\ s[m].path = q
                <5>1. m \in 1 .. m + k /\ u[m] = s[m]
                    BY <1>1, <4>2
                <5>2. PICK h \in 1 .. m + k : /\ u[h].what = "file" /\ u[h].path = "mine"
                                              /\ \A j \in h + 1 .. m + k : u[j].what # "file"
                    BY <1>5, <4>2, <5>1 DEF InMine
                <5>3. ~ (h < m)
                    <6>1. h < m => m \in h + 1 .. m + k
                        OBVIOUS
                    <6> QED
                        BY <4>2, <5>1, <5>2, <6>1
                <5>4. ~ (h > m)
                    <6>1. h > m => h - m \in 1 .. k /\ m + (h - m) = h
                        OBVIOUS
                    <6> QED
                        BY <1>2, <2>2, <5>2, <6>1
                <5>5. h = m
                    BY <5>3, <5>4
                <5> QED
                    BY <4>2, <5>1, <5>2, <5>5
            <4>3. CASE p = q /\ \A j \in 1 .. m : s[j].what # "file"
                <5>1. ASSUME NEW h \in 1 .. m + k
                      PROVE  u[h].what # "file"
                    <6>1. h \in 1 .. m \/ (h - m \in 1 .. k /\ m + (h - m) = h)
                        BY <5>1
                    <6> QED
                        BY <1>1, <1>2, <2>2, <4>3, <6>1
                <5> QED
                    BY <1>5, <4>3, <5>1 DEF InMine
            <4> QED
                BY <4>1, <4>2, <4>3 DEF Passes
        <3> QED
            BY <2>2, <3>1 DEF InMine
    <2>3. (\E i \in 1 .. k : t[i].what = "file") => (\E i \in 1 .. k : /\ t[i].what = "file"
                                                     /\ \A j \in i + 1 .. k : t[j].what # "file")
        <3> DEFINE D == {d \in Nat : d < k /\ t[k - d].what = "file"}
        <3>1. ASSUME NEW i \in 1 .. k, t[i].what = "file"
              PROVE  \E h \in 1 .. k : t[h].what = "file" /\ \A j \in h + 1 .. k : t[j].what # "file"
            <4>1. k - i \in D
                BY <3>1
            <4>2. PICK d \in D : \A c \in D : d <= c
                BY <4>1, LeastNumber
            <4>3. k - d \in 1 .. k /\ t[k - d].what = "file"
                BY <4>2
            <4>4. ASSUME NEW j \in (k - d) + 1 .. k, t[j].what = "file"
                  PROVE  FALSE
                <5>1. k - j \in Nat /\ k - j < d /\ k - (k - j) = j
                    BY <4>2, <4>4
                <5> QED
                    BY <4>2, <4>4, <5>1
            <4> QED
                BY <4>3, <4>4
        <3> QED
            BY <3>1
    <2> QED
        BY <2>1, <2>2, <2>3
<1> QED
    BY <1>4, <1>5

\* List u is s, read with path p, and behind it t, read with path q.
ReadsOn(u, s, t, p, q) ==
    /\ Len(s) \in Nat /\ Len(t) \in Nat
    /\ Joins(u, s, Len(s), t, Len(t)) /\ Passes(s, Len(s), t, Len(t), p, q)

\* What a diff shows is what its parts show.
LEMMA MineJoined ==
    ASSUME NEW u, NEW s, NEW t, NEW p, NEW q, ReadsOn(u, s, t, p, q)
    PROVE  MineLines(u, p) = MineLines(s, p) \cup MineLines(t, q)
<1> DEFINE m == Len(s)
           n == Len(t)
<1> HIDE DEF m, n
<1>0. /\ m \in Nat /\ n \in Nat /\ Len(s) = m /\ Len(t) = n
      /\ Joins(u, s, m, t, n) /\ Passes(s, m, t, n, p, q)
    BY DEF ReadsOn, m, n
<1>1. /\ Len(u) = m + n
      /\ \A i \in 1 .. m + n : u[i] = IF i <= m THEN s[i] ELSE t[i - m]
    BY <1>0 DEF Joins
<1>2. ASSUME NEW l \in MineLines(u, p)
      PROVE  l \in MineLines(s, p) \cup MineLines(t, q)
    <2>1. PICK k \in 1 .. m + n : u[k].what = "hunk" /\ InMine(u, p, k) /\ l \in Covered(RangeOf(u[k]))
        BY <1>0, <1>1, <1>2, MineLinesAre
    <2>2. CASE k <= m
        <3>1. k \in 1 .. m /\ u[k] = s[k]
            BY <1>0, <1>1, <2>2
        <3>2. InMine(s, p, k)
            BY <1>0, <2>1, <3>1, MineBefore
        <3> QED
            BY <1>0, <2>1, <3>1, <3>2, MineLinesAre
    <2>3. CASE ~ (k <= m)
        <3> DEFINE h == k - m
        <3>1. h \in 1 .. n /\ u[k] = t[h] /\ k = m + h
            BY <1>0, <1>1, <2>3
        <3> HIDE DEF h
        <3>2. InMine(t, q, h)
            BY <1>0, <2>1, <3>1, MineBehind
        <3> QED
            BY <1>0, <2>1, <3>1, <3>2, MineLinesAre
    <2> QED
        BY <2>2, <2>3
<1>3. ASSUME NEW l \in MineLines(s, p)
      PROVE  l \in MineLines(u, p)
    <2>1. PICK k \in 1 .. m : s[k].what = "hunk" /\ InMine(s, p, k) /\ l \in Covered(RangeOf(s[k]))
        BY <1>0, <1>3, MineLinesAre
    <2>2. k \in 1 .. Len(u) /\ u[k] = s[k]
        BY <1>0, <1>1
    <2>3. InMine(u, p, k)
        BY <1>0, <2>1, MineBefore
    <2> QED
        BY <1>0, <2>1, <2>2, <2>3, MineLinesAre
<1>4. ASSUME NEW l \in MineLines(t, q)
      PROVE  l \in MineLines(u, p)
    <2>1. PICK k \in 1 .. n : t[k].what = "hunk" /\ InMine(t, q, k) /\ l \in Covered(RangeOf(t[k]))
        BY <1>0, <1>4, MineLinesAre
    <2>2. m + k \in 1 .. Len(u) /\ u[m + k] = t[k]
        <3>1. m + k \in 1 .. m + n /\ ~ (m + k <= m) /\ (m + k) - m = k
            BY <1>0
        <3> QED
            BY <1>0, <1>1, <3>1
    <2>3. InMine(u, p, m + k)
        BY <1>0, <2>1, MineBehind
    <2> QED
        BY <1>0, <2>1, <2>2, <2>3, MineLinesAre
<1> QED
    BY <1>2, <1>3, <1>4

LEMMA MineOfNone ==
    ASSUME NEW p
    PROVE  MineLines(<<>>, p) = {}
BY DEF MineLines, MineHunks

LEMMA MineOfOne ==
    ASSUME NEW d, NEW p
    PROVE  MineLines(<<d>>, p) = IF d.what = "hunk" /\ p = "mine" THEN Covered(RangeOf(d)) ELSE {}
<1> DEFINE one == <<d>>
<1>1. Len(one) = 1 /\ one[1] = d
    OBVIOUS
<1> HIDE DEF one
<1>2. d.what = "hunk" => (InMine(one, p, 1) <=> p = "mine")
    BY <1>1 DEF InMine
<1>3. ASSUME NEW l
      PROVE  l \in MineLines(one, p)
             <=> d.what = "hunk" /\ p = "mine" /\ l \in Covered(RangeOf(d))
    BY <1>1, <1>2, MineLinesAre
<1> QED
    BY <1>3 DEF one

\* The first line and the rest.
LEMMA MineOfRest ==
    ASSUME NEW d \in Seq(DiffLine), d # <<>>, NEW p
    PROVE  /\ Head(d) \in DiffLine /\ Tail(d) \in Seq(DiffLine)
           /\ Head(d).what = "file" => MineLines(d, p) = MineLines(Tail(d), Head(d).path)
           /\ Head(d).what = "hunk" /\ p = "mine"
                => MineLines(d, p) = Covered(RangeOf(Head(d))) \cup MineLines(Tail(d), p)
           /\ Head(d).what = "hunk" /\ p # "mine" => MineLines(d, p) = MineLines(Tail(d), p)
           /\ Head(d).what = "body" => MineLines(d, p) = MineLines(Tail(d), p)
<1> DEFINE h == Head(d)
           s == <<h>>
           t == Tail(d)
           n == Len(t)
           q == IF h.what = "file" THEN h.path ELSE p
<1>1. /\ h \in DiffLine /\ t \in Seq(DiffLine) /\ n \in Nat /\ Len(d) = 1 + n
      /\ d[1] = h /\ \A i \in 1 .. n : t[i] = d[i + 1]
    BY HeadTailProperties
<1>2. Len(s) = 1 /\ s[1] = h
    OBVIOUS
<1> HIDE DEF h, t, n, s
<1>3. Joins(d, s, 1, t, n)
    <2>1. ASSUME NEW i \in 1 .. 1 + n
          PROVE  d[i] = IF i <= 1 THEN s[i] ELSE t[i - 1]
        <3>1. i = 1 \/ (i - 1 \in 1 .. n /\ (i - 1) + 1 = i /\ ~ (i <= 1))
            BY <1>1, <2>1
        <3> QED
            BY <1>1, <1>2, <3>1
    <2> QED
        BY <1>1, <2>1 DEF Joins
<1>4. Passes(s, 1, t, n, p, q)
    BY <1>2 DEF Passes
<1> HIDE DEF q
<1>5. MineLines(d, p) = MineLines(s, p) \cup MineLines(t, q)
    <2>1. ReadsOn(d, s, t, p, q)
        BY <1>1, <1>2, <1>3, <1>4 DEF ReadsOn, n
    <2> QED
        BY <2>1, MineJoined
<1>6. MineLines(s, p) = IF h.what = "hunk" /\ p = "mine" THEN Covered(RangeOf(h)) ELSE {}
    BY MineOfOne DEF s
<1> QED
    BY <1>1, <1>5, <1>6 DEF h, t, q


-----------------------------------------------------------------------------
(* The diff that git writes *)

\* No line of d begins a file.
Silent(d) == \A j \in 1 .. Len(d) : d[j].what # "file"

\* Some line of d begins the file.
Names(d) == \E j \in 1 .. Len(d) : d[j].what = "file" /\ d[j].path = "mine"

LEMMA JoinedDiffs ==
    ASSUME NEW s \in Seq(DiffLine), NEW t \in Seq(DiffLine)
    PROVE  /\ s \o t \in Seq(DiffLine)
           /\ Silent(s) /\ Silent(t) => Silent(s \o t)
           /\ Names(s) \/ Names(t) => Names(s \o t)
           /\ Silent(s) => MineLines(s \o t, "mine") = MineLines(s, "mine") \cup MineLines(t, "mine")
           /\ t # <<>> /\ t[1].what = "file"
                => \A p, q : MineLines(s \o t, p) = MineLines(s, p) \cup MineLines(t, q)
<1> DEFINE m == Len(s)
           n == Len(t)
           u == s \o t
<1>1. m \in Nat /\ n \in Nat /\ Len(s) = m /\ Len(t) = n /\ (t # <<>> => n > 0)
    OBVIOUS
<1> HIDE DEF m, n
<1>2. u \in Seq(DiffLine) /\ Joins(u, s, m, t, n)
    BY <1>1, JoinedLists
<1> HIDE DEF u
<1>3. /\ Len(u) = m + n
      /\ \A i \in 1 .. m : i \in 1 .. m + n /\ u[i] = s[i]
      /\ \A i \in 1 .. n : m + i \in 1 .. m + n /\ u[m + i] = t[i]
      /\ \A i \in 1 .. m + n : i \in 1 .. m \/ (i - m \in 1 .. n /\ m + (i - m) = i)
    <2>1. \A i \in 1 .. n : m + i \in 1 .. m + n /\ ~ (m + i <= m) /\ (m + i) - m = i
        BY <1>1
    <2>2. Len(u) = m + n /\ \A i \in 1 .. m + n : u[i] = IF i <= m THEN s[i] ELSE t[i - m]
        BY <1>2 DEF Joins
    <2> QED
        BY <1>1, <2>1, <2>2
<1>4. ASSUME Silent(s), Silent(t)
      PROVE  Silent(u)
    <2>1. ASSUME NEW j \in 1 .. m + n
          PROVE  u[j].what # "file"
        <3>1. CASE j \in 1 .. m
            BY <1>1, <1>3, <1>4, <3>1 DEF Silent
        <3>2. CASE \E k \in 1 .. n : m + k = j
            <4>1. PICK k \in 1 .. n : m + k = j
                BY <3>2
            <4>2. t[k].what # "file"
                BY <1>1, <1>4 DEF Silent
            <4>3. u[m + k] = t[k]
                BY <1>3
            <4> QED
                BY <4>1, <4>2, <4>3
        <3> QED
            BY <1>3, <2>1, <3>1, <3>2
    <2> QED
        BY <1>3, <2>1 DEF Silent
<1>5. Names(s) \/ Names(t) => Names(u)
    BY <1>1, <1>3 DEF Names
<1>6. Silent(s) => ReadsOn(u, s, t, "mine", "mine")
    BY <1>1, <1>2 DEF ReadsOn, Passes, Silent
<1>7. t # <<>> /\ t[1].what = "file" => \A p, q : ReadsOn(u, s, t, p, q)
    BY <1>1, <1>2 DEF ReadsOn, Passes
<1>8. Silent(s) => MineLines(u, "mine") = MineLines(s, "mine") \cup MineLines(t, "mine")
    BY <1>6, MineJoined
<1>9. ASSUME t # <<>> /\ t[1].what = "file", NEW p, NEW q
      PROVE  MineLines(u, p) = MineLines(s, p) \cup MineLines(t, q)
    <2>1. ReadsOn(u, s, t, p, q)
        BY <1>7, <1>9
    <2> QED
        BY <2>1, MineJoined
<1> QED
    BY <1>2, <1>4, <1>5, <1>8, <1>9 DEF u

LEMMA HunkAndBody ==
    ASSUME NEW h \in HunkLine
    PROVE  /\ <<h, BodyLine>> \in Seq(DiffLine) /\ Silent(<<h, BodyLine>>)
           /\ MineLines(<<h, BodyLine>>, "mine") = Covered(RangeOf(h))
<1> DEFINE d == <<h, BodyLine>>
<1>1. h \in DiffLine /\ BodyLine \in DiffLine /\ h.what = "hunk" /\ BodyLine.what = "body"
    BY DEF DiffLine, HunkLine, BodyLine
<1> HIDE DEF BodyLine
<1>2. d \in Seq(DiffLine) /\ d # <<>> /\ Head(d) = h /\ Tail(d) = <<BodyLine>>
      /\ Len(d) = 2 /\ d[1] = h /\ d[2] = BodyLine
    BY <1>1
<1> HIDE DEF d
<1>3. MineLines(d, "mine") = Covered(RangeOf(h)) \cup MineLines(<<BodyLine>>, "mine")
    BY <1>1, <1>2, MineOfRest
<1>4. MineLines(<<BodyLine>>, "mine") = {}
    BY <1>1, MineOfOne
<1>5. Silent(d)
    BY <1>1, <1>2 DEF Silent
<1> QED
    BY <1>2, <1>3, <1>4, <1>5 DEF d

LEMMA MySectionProperties ==
    ASSUME Lines \in Nat, NEW e \in Edit, e.lookalike = {}
    PROVE  /\ MySection(e) \in Seq(DiffLine) /\ MySection(e) # <<>>
           /\ MySection(e)[1].what = "file" /\ Names(MySection(e))
           /\ \A p : MineLines(MySection(e), p) = MarkLines(e)
<1> DEFINE H == HunksOf(e)
           n == Len(H)
           parts == [i \in 1 .. n |-> <<H[i], BodyLine>>]
           rest == FlattenSeq(parts)
           shown(i) == UNION {Covered(RangeOf(H[j])) : j \in 1 .. i}
<1>1. /\ H \in Seq(HunkLine) /\ n \in Nat /\ DOMAIN H = 1 .. n
      /\ \A l : l \in MarkLines(e) <=> \E i \in 1 .. n : l \in Covered(RangeOf(H[i]))
    BY HunksProperties
<1>2. MySection(e) = <<FileLine("mine")>> \o rest
    BY <1>1 DEF MySection, BodyOf
<1> HIDE DEF H, n
<1>3. \A i \in 1 .. n : H[i] \in HunkLine
    BY <1>1 DEF n
<1>4. /\ parts \in [1 .. n -> Seq(DiffLine)]
      /\ \A i \in 1 .. n : /\ Silent(parts[i])
                           /\ MineLines(parts[i], "mine") = Covered(RangeOf(H[i]))
    BY <1>3, HunkAndBody
<1> HIDE DEF parts
<1> HIDE DEF shown
<1>5. PICK f \in [1 .. n -> Seq(DiffLine)] :
        Appends(f, parts) /\ rest = IF n = 0 THEN <<>> ELSE f[n]
    <2>1. n \in Nat /\ parts \in [1 .. n -> Seq(DiffLine)]
        BY <1>1, <1>4
    <2> QED
        BY <2>1, FlattenProperties
<1> HIDE DEF rest
<1> USE DEF shown
<1>6. ASSUME NEW i \in 1 .. n
      PROVE  f[i] = IF i = 1 THEN parts[i] ELSE f[i - 1] \o parts[i]
    BY <1>4, <1>5 DEF Appends
<1> DEFINE Good == {i \in Nat : i \in 1 .. n => Silent(f[i]) /\ MineLines(f[i], "mine") = shown(i)}
<1>7. 0 \in Good
    OBVIOUS
<1>8. ASSUME NEW i \in Nat, i \in Good
      PROVE  i + 1 \in Good
    <2>1. SUFFICES ASSUME i + 1 \in 1 .. n
                   PROVE  Silent(f[i + 1]) /\ MineLines(f[i + 1], "mine") = shown(i + 1)
        OBVIOUS
    <2>2. shown(i + 1) = shown(i) \cup Covered(RangeOf(H[i + 1]))
        <3>1. 1 .. i + 1 = (1 .. i) \cup {i + 1}
            OBVIOUS
        <3> QED
            BY <3>1
    <2>3. CASE i = 0
        <3>1. shown(i) = {} /\ f[i + 1] = parts[i + 1]
            <4>1. 1 .. i = {}
                BY <2>3
            <4>2. f[i + 1] = parts[i + 1]
                <5>1. i + 1 = 1
                    BY <2>3
                <5> HIDE DEF shown
                <5> QED
                    BY <1>6, <2>1, <5>1
            <4> QED
                BY <4>1, <4>2
        <3> HIDE DEF shown
        <3> QED
            BY <1>4, <2>1, <2>2, <3>1
    <2>4. CASE i # 0
        <3>1. i \in 1 .. n /\ i + 1 # 1 /\ (i + 1) - 1 = i
            BY <1>1, <2>1, <2>4
        <3>2. Silent(f[i]) /\ MineLines(f[i], "mine") = shown(i) /\ f[i + 1] = f[i] \o parts[i + 1]
            BY <1>6, <1>8, <2>1, <3>1
        <3>3. f[i] \in Seq(DiffLine) /\ parts[i + 1] \in Seq(DiffLine)
            BY <1>4, <1>5, <2>1, <3>1
        <3> HIDE DEF shown
        <3>4. Silent(parts[i + 1]) /\ MineLines(parts[i + 1], "mine") = Covered(RangeOf(H[i + 1]))
            BY <1>4, <2>1
        <3> DEFINE s == f[i]
                   t == parts[i + 1]
        <3> HIDE DEF s, t
        <3>5. s \in Seq(DiffLine) /\ t \in Seq(DiffLine) /\ Silent(s) /\ Silent(t)
            BY <3>2, <3>3, <3>4 DEF s, t
        <3>6. Silent(s \o t) /\ MineLines(s \o t, "mine") = MineLines(s, "mine") \cup MineLines(t, "mine")
            BY <3>5, JoinedDiffs
        <3> QED
            BY <2>2, <3>2, <3>4, <3>6 DEF s, t
    <2> QED
        BY <2>3, <2>4
<1> HIDE DEF Good
<1>9. n \in Good
    BY <1>1, <1>7, <1>8, UpTo
<1>10. rest \in Seq(DiffLine) /\ MineLines(rest, "mine") = MarkLines(e)
    <2>1. ASSUME NEW l
          PROVE  l \in shown(n) <=> l \in MarkLines(e)
        BY <1>1
    <2>2. shown(n) = MarkLines(e)
        BY <2>1
    <2>3. CASE n = 0
        <3>1. 1 .. n = {} /\ rest = <<>>
            BY <1>5, <2>3
        <3>2. shown(n) = {} /\ MineLines(rest, "mine") = {} /\ rest \in Seq(DiffLine)
            BY <3>1, MineOfNone
        <3> HIDE DEF shown
        <3> QED
            BY <2>2, <3>2
    <2>4. CASE n # 0
        <3>1. n \in 1 .. n /\ rest = f[n]
            BY <1>1, <1>5, <2>4
        <3>2. MineLines(f[n], "mine") = shown(n)
            BY <1>9, <3>1 DEF Good
        <3> HIDE DEF shown
        <3> QED
            BY <1>5, <2>2, <3>1, <3>2
    <2> QED
        BY <2>3, <2>4
<1> DEFINE d == FileLine("mine")
           all == <<d>> \o rest
<1>11. d \in DiffLine /\ d.what = "file" /\ d.path = "mine"
    BY DEF FileLine, FileLines, DiffLine
<1> HIDE DEF d
<1>12. /\ <<d>> \in Seq(DiffLine) /\ all \in Seq(DiffLine) /\ all # <<>> /\ all[1] = d
       /\ Head(all) = d /\ Tail(all) = rest /\ Len(all) \in Nat \ {0}
    <2>1. <<d>> \in Seq(DiffLine) /\ Len(<<d>>) = 1 /\ <<d>>[1] = d
        BY <1>11
    <2>2. all \in Seq(DiffLine) /\ Len(all) = 1 + Len(rest) /\ all[1] = d /\ all # <<>>
        BY <1>10, <2>1
    <2>3. Head(all) = d /\ Tail(all) = rest
        BY <1>10, <1>11, <2>2
    <2> QED
        BY <1>10, <2>1, <2>2, <2>3
<1> HIDE DEF all
<1>13. ASSUME NEW p
       PROVE  MineLines(all, p) = MarkLines(e)
    <2>1. MineLines(all, p) = MineLines(Tail(all), Head(all).path)
        BY <1>11, <1>12, MineOfRest
    <2> QED
        BY <1>10, <1>11, <1>12, <2>1
<1>14. Names(all)
    BY <1>11, <1>12 DEF Names
<1> QED
    BY <1>2, <1>11, <1>12, <1>13, <1>14 DEF all, d

LEMMA ForeignSection ==
    ASSUME NEW q \in {"other", NoPath}, NEW h \in HunkLine
    PROVE  LET d == <<FileLine(q), h, BodyLine>>
           IN  /\ d \in Seq(DiffLine) /\ d # <<>> /\ d[1].what = "file"
               /\ \A p : MineLines(d, p) = {}
<1> DEFINE f == FileLine(q)
           d == <<f, h, BodyLine>>
           t == <<h, BodyLine>>
<1>1. /\ f \in DiffLine /\ f.what = "file" /\ f.path = q /\ h \in DiffLine /\ h.what = "hunk"
      /\ BodyLine \in DiffLine /\ BodyLine.what = "body" /\ q # "mine"
    BY DEF FileLine, FileLines, DiffLine, HunkLine, BodyLine, NoPath
<1> HIDE DEF BodyLine, f
<1>2. /\ d \in Seq(DiffLine) /\ d # <<>> /\ Head(d) = f /\ Tail(d) = t /\ d[1] = f
      /\ t \in Seq(DiffLine) /\ t # <<>> /\ Head(t) = h /\ Tail(t) = <<BodyLine>>
    BY <1>1
<1> HIDE DEF d, t
<1>3. MineLines(t, q) = MineLines(<<BodyLine>>, q)
    BY <1>1, <1>2, MineOfRest
<1>4. MineLines(<<BodyLine>>, q) = {}
    BY <1>1, MineOfOne
<1>5. ASSUME NEW p
      PROVE  MineLines(d, p) = {}
    <2>1. MineLines(d, p) = MineLines(Tail(d), Head(d).path)
        BY <1>1, <1>2, MineOfRest
    <2> QED
        BY <1>1, <1>2, <1>3, <1>4, <2>1
<1> QED
    BY <1>1, <1>2, <1>5 DEF d, f

Section(e, o) ==
    CASE o = "mine" -> MySection(e) [] o = "other" -> OtherSection [] o = "deleted" -> DeletedSection

LEMMA SectionProperties ==
    ASSUME Lines \in Nat, NEW e \in Edit, e.lookalike = {}, NEW o \in {"mine", "other", "deleted"}
    PROVE  /\ Section(e, o) \in Seq(DiffLine) /\ Section(e, o) # <<>>
           /\ Section(e, o)[1].what = "file"
           /\ o = "mine" => Names(Section(e, o))
           /\ \A p : MineLines(Section(e, o), p) = IF o = "mine" THEN MarkLines(e) ELSE {}
<1>1. CASE o = "mine"
    <2>1. Section(e, o) = MySection(e)
        BY <1>1 DEF Section
    <2> QED
        BY <1>1, <2>1, MySectionProperties
<1>2. CASE o = "other"
    <2>1. Section(e, o) = <<FileLine("other"), Hunk(1, 1, 1), BodyLine>> /\ o # "mine"
        BY <1>2 DEF Section, OtherSection
    <2>2. Hunk(1, 1, 1) \in HunkLine
        BY DEF Hunk, HunkLine
    <2> QED
        BY <2>1, <2>2, ForeignSection
<1>3. CASE o = "deleted"
    <2>1. Section(e, o) = <<FileLine(NoPath), Hunk(3, 0, 0), BodyLine>> /\ o # "mine"
        BY <1>3 DEF Section, DeletedSection
    <2>2. Hunk(3, 0, 0) \in HunkLine
        BY DEF Hunk, HunkLine
    <2> QED
        BY <2>1, <2>2, ForeignSection
<1> QED
    BY <1>1, <1>2, <1>3

\* Among the sections of other files, the hunks of the file show its marked lines, if no
\* added line looks like the beginning of a section.
LEMMA DiffProperties ==
    ASSUME Lines \in Nat, NEW e \in Edit, e.lookalike = {}, NEW order \in Sections
    PROVE  /\ DiffOf(e, order) \in Seq(DiffLine) /\ Names(DiffOf(e, order))
           /\ \A p : MineLines(DiffOf(e, order), p) = MarkLines(e)
<1> DEFINE n == Len(order)
           parts == [i \in 1 .. n |-> Section(e, order[i])]
           all == DiffOf(e, order)
           named(i) == \E j \in 1 .. i : order[j] = "mine"
<1>1. /\ n \in Nat /\ order \in [1 .. n -> {"mine", "other", "deleted"}] /\ DOMAIN order = 1 .. n
      /\ \E j \in 1 .. n : order[j] = "mine"
    <2>1. order \in Seq({"mine", "other", "deleted"}) /\ "mine" \in ToSet(order)
        BY IncrementalPlanAssumption
    <2> QED
        BY <2>1 DEF ToSet
<1>2. all = FlattenSeq(parts)
    BY <1>1 DEF DiffOf, Section
<1> HIDE DEF all, n
<1>3. ASSUME NEW i \in 1 .. n
      PROVE  /\ parts[i] \in Seq(DiffLine) /\ parts[i] # <<>> /\ parts[i][1].what = "file"
             /\ order[i] = "mine" => Names(parts[i])
             /\ \A p : MineLines(parts[i], p) = IF order[i] = "mine" THEN MarkLines(e) ELSE {}
    <2>1. order[i] \in {"mine", "other", "deleted"} /\ parts[i] = Section(e, order[i])
        BY <1>1
    <2> HIDE DEF parts
    <2> QED
        BY <2>1, SectionProperties
<1>4. parts \in [1 .. n -> Seq(DiffLine)]
    <2>1. \A i \in 1 .. n : Section(e, order[i]) \in Seq(DiffLine)
        BY <1>3
    <2> QED
        BY <2>1
<1> HIDE DEF parts
<1>5. PICK f \in [1 .. n -> Seq(DiffLine)] :
        Appends(f, parts) /\ FlattenSeq(parts) = IF n = 0 THEN <<>> ELSE f[n]
    BY <1>1, <1>4, FlattenProperties
<1>6. ASSUME NEW i \in 1 .. n
      PROVE  f[i] = IF i = 1 THEN parts[i] ELSE f[i - 1] \o parts[i]
    BY <1>4, <1>5 DEF Appends
<1> DEFINE Right(i) == /\ named(i) => Names(f[i])
                       /\ \A p : MineLines(f[i], p) = IF named(i) THEN MarkLines(e) ELSE {}
           Good == {i \in Nat : i \in 1 .. n => Right(i)}
<1>7. 0 \in Good
    OBVIOUS
<1>8. ASSUME NEW i \in Nat, i \in Good
      PROVE  i + 1 \in Good
    <2>1. SUFFICES ASSUME i + 1 \in 1 .. n
                   PROVE  Right(i + 1)
        OBVIOUS
    <2>2. named(i + 1) <=> named(i) \/ order[i + 1] = "mine"
        <3>1. 1 .. i + 1 = (1 .. i) \cup {i + 1}
            OBVIOUS
        <3> QED
            BY <3>1
    <2>3. CASE i = 0
        <3>1. i + 1 = 1 /\ 1 .. i = {}
            BY <2>3
        <3>2. ~ named(i)
            BY <3>1
        <3> HIDE DEF named
        <3>3. f[i + 1] = parts[i + 1]
            BY <1>6, <2>1, <3>1
        <3> QED
            BY <1>3, <2>1, <2>2, <3>2, <3>3
    <2>4. CASE i # 0
        <3> HIDE DEF named
        <3>1. i \in 1 .. n /\ i + 1 # 1 /\ (i + 1) - 1 = i
            BY <1>1, <2>1, <2>4
        <3> DEFINE s == f[i]
                   t == parts[i + 1]
        <3>2. Right(i) /\ f[i + 1] = s \o t /\ s \in Seq(DiffLine) /\ t \in Seq(DiffLine)
            BY <1>4, <1>5, <1>6, <1>8, <2>1, <3>1
        <3>3. /\ t # <<>> /\ t[1].what = "file" /\ (order[i + 1] = "mine" => Names(t))
              /\ \A p : MineLines(t, p) = IF order[i + 1] = "mine" THEN MarkLines(e) ELSE {}
            BY <1>3, <2>1
        <3>4. /\ named(i) => Names(s)
              /\ \A p : MineLines(s, p) = IF named(i) THEN MarkLines(e) ELSE {}
            BY <3>2
        <3> HIDE DEF s, t
        <3>5. Names(s) \/ Names(t) => Names(s \o t)
            BY <3>2, JoinedDiffs
        <3>6. ASSUME NEW p
              PROVE  MineLines(s \o t, p) = IF named(i + 1) THEN MarkLines(e) ELSE {}
            <4>1. MineLines(s \o t, p) = MineLines(s, p) \cup MineLines(t, p)
                BY <3>2, <3>3, JoinedDiffs
            <4> QED
                BY <2>2, <3>3, <3>4, <4>1
        <3> QED
            BY <2>2, <3>2, <3>3, <3>4, <3>5, <3>6
    <2> QED
        BY <2>3, <2>4
<1> HIDE DEF Good
<1>9. n \in Good
    BY <1>1, <1>7, <1>8, UpTo
<1>10. n # 0 /\ named(n)
    BY <1>1
<1> HIDE DEF named
<1>11. all = f[n] /\ Right(n) /\ n \in 1 .. n
    BY <1>1, <1>2, <1>5, <1>9, <1>10 DEF Good
<1> QED
    BY <1>5, <1>10, <1>11 DEF all

-----------------------------------------------------------------------------
(* The invariant *)

\* The ranges found so far for the file.
Mine == IF "mine" \in DOMAIN changed THEN changed["mine"] ELSE <<>>

\* What was parsed and what is left show the marked lines.
ParseInv ==
    /\ diff \in Seq(DiffLine)
    /\ path \in {"mine", "other", NoPath}
    /\ path \in DOMAIN changed \cup {NoPath}
    /\ changed \in [DOMAIN changed -> Seq(LineRange)]
    /\ "mine" \in DOMAIN changed \/ Names(diff)
    /\ Covered(Mine) \cup MineLines(diff, path) = MarkLines(edit)

\* What was merged and what is left cover them, and nothing that is left begins before
\* the last merged range.
MergeInv ==
    /\ ranges \in Seq(LineRange) /\ merged \in Seq(LineRange)
    /\ Covered(merged) \cup Covered(ranges) = MarkLines(edit)
    /\ \A i, j \in 1 .. Len(ranges) : i < j => ranges[i].first <= ranges[j].first
    /\ merged # <<>> => \A i \in 1 .. Len(ranges) : Last(merged).first <= ranges[i].first

\* What holds of a plan whose diff, if there is one yet, has no lookalike.
PlanInv ==
    /\ ScanInv
    /\ stage \in {"scan", "parse", "merge", "plan", "done"}
    /\ stage = "scan" => path = NoPath /\ changed = [p \in {} |-> <<>>]
    /\ stage \in {"scan", "parse"} => ranges = <<>> /\ merged = <<>>
    /\ stage # "scan" => /\ scan = "done" /\ edit \in Edit
                         /\ edit.added # {} \/ edit.removed # {}
    /\ stage = "parse" => ParseInv
    /\ stage = "merge" => MergeInv
    /\ stage = "plan" => merged \in Seq(LineRange) /\ Covered(merged) = MarkLines(edit)
    /\ EditedIsSelected
    /\ OutsideMeansAll

LEMMA LinesNumber ==
    ASSUME ScanInv
    PROVE  Lines \in Nat
<1> DEFINE n == Len(source)
           ends == {j \in 1 .. n : source[j] = "newline"}
<1>1. n \in Nat /\ DOMAIN source = 1 .. n
    BY DEF ScanInv
<1> HIDE DEF n
<1>2. ends \in SUBSET (1 .. n) /\ Lines = Cardinality(ends)
    BY <1>1 DEF Lines
<1> HIDE DEF ends
<1> QED
    BY <1>1, <1>2, Positions

LEMMA TouchedUnits ==
    ASSUME ScanInv, merged \in Seq(LineRange), NEW i \in DOMAIN units
    PROVE  i \in Touched <=> Covered(merged) \cap units[i].first .. units[i].last # {}
<1> DEFINE u == units[i]
<1>1. u.first \in Nat /\ u.last \in Nat /\ u.first <= u.last
    <2>1. i \in 1 .. Len(units) /\ units[i] \in Unit /\ units[i].first <= units[i].last
        BY DEF ScanInv
    <2> QED
        BY <2>1 DEF Unit
<1> HIDE DEF u
<1>2. ASSUME NEW n \in 1 .. Len(merged)
      PROVE  Overlaps(merged[n], u) <=> \E l \in merged[n].first .. merged[n].last : l \in u.first .. u.last
    <2>1. merged[n] \in LineRange
        BY <1>2
    <2> DEFINE r == merged[n]
    <2>2. r.first \in Nat /\ r.last \in Nat /\ r.first <= r.last
        BY <2>1 DEF LineRange
    <2> HIDE DEF r
    <2>3. ASSUME r.first <= u.last, u.first <= r.last
          PROVE  \E l \in r.first .. r.last : l \in u.first .. u.last
        <3>1. CASE r.first <= u.first
            <4>1. u.first \in r.first .. r.last /\ u.first \in u.first .. u.last
                BY <1>1, <2>2, <2>3, <3>1
            <4> QED
                BY <4>1
        <3>2. CASE ~ (r.first <= u.first)
            <4>1. r.first \in r.first .. r.last /\ r.first \in u.first .. u.last
                BY <1>1, <2>2, <2>3, <3>2
            <4> QED
                BY <4>1
        <3> QED
            BY <3>1, <3>2
    <2>4. ASSUME NEW l \in r.first .. r.last, l \in u.first .. u.last
          PROVE  r.first <= u.last /\ u.first <= r.last
        <3>1. /\ l \in Nat /\ r.first <= l /\ l <= r.last
              /\ u.first <= l /\ l <= u.last
            BY <1>1, <2>2, <2>4
        <3> QED
            BY <1>1, <2>2, <3>1
    <2> QED
        BY <2>3, <2>4 DEF Overlaps, r
<1>3. i \in Touched <=> \E n \in 1 .. Len(merged) : Overlaps(merged[n], u)
    BY DEF Touched, u
<1>4. ASSUME NEW l
      PROVE  l \in Covered(merged) <=> \E n \in 1 .. Len(merged) : l \in merged[n].first .. merged[n].last
    BY CoveredLines
<1> QED
    BY <1>2, <1>3, <1>4 DEF u

\* Every function the edit changes has a mark.
LEMMA EditsLeaveMarks ==
    ASSUME NEW e \in Edit, NEW u \in Unit, Edits(e, u)
    PROVE  MarkLines(e) \cap u.first .. u.last # {}
<1>1. /\ u.first \in Nat \ {0} /\ u.last \in Nat /\ e.context \in Nat
      /\ \A l \in e.added : l \in Nat /\ l \in 1 .. Lines
      /\ \A g \in e.removed : g \in Nat /\ g \in 0 .. Lines
    BY DEF Unit, Edit
<1>2. e.added \subseteq Shown(e)
    <2>1. ASSUME NEW a \in e.added
          PROVE  a \in Shown(e)
        <3>1. a <= a + e.context
            BY <1>1
        <3> QED
            BY <1>1, <3>1 DEF Shown
    <2> QED
        BY <2>1
<1>3. CASE e.added \cap u.first .. u.last # {}
    BY <1>2, <1>3 DEF MarkLines
<1>4. CASE e.removed \cap u.first .. (u.last - 1) # {}
    <2>1. PICK g \in e.removed : g \in u.first .. (u.last - 1)
        BY <1>4
    <2>2. g \in Nat /\ g # 0 /\ g \in 1 .. Lines /\ g \in u.first .. u.last /\ g + 1 \in u.first .. u.last
        BY <1>1, <2>1
    <2>3. CASE e.context > 0
        <3>1. g <= g + e.context /\ g < g + e.context
            BY <1>1, <2>2, <2>3
        <3>2. g \in Shown(e)
            BY <2>1, <2>2, <3>1 DEF Shown
        <3> QED
            BY <2>2, <3>2 DEF MarkLines
    <2>4. CASE ~ (e.context > 0)
        <3>1. CASE g \in e.added \/ g + 1 \in e.added
            BY <1>2, <2>2, <3>1 DEF MarkLines
        <3>2. CASE ~ (g \in e.added \/ g + 1 \in e.added)
            <4>1. g \in BareGaps(e)
                BY <2>1, <2>4, <3>2 DEF BareGaps
            <4>2. g \in {IF h = 0 THEN 1 ELSE h : h \in BareGaps(e)}
                BY <2>2, <4>1
            <4> QED
                BY <2>2, <4>2 DEF MarkLines
        <3> QED
            BY <3>1, <3>2
    <2> QED
        BY <2>3, <2>4
<1> QED
    BY <1>3, <1>4 DEF Edits

\* Without context the marked lines are the marks.
LEMMA MarksWithoutContext ==
    ASSUME edit \in Edit, edit.context = 0, edit.added # {} \/ edit.removed # {}
    PROVE  MarkLines(edit) = Marks /\ Marks # {}
<1>1. /\ \A l \in edit.added : l \in Nat /\ l \in 1 .. Lines
      /\ \A g \in edit.removed : g \in Nat
    BY DEF Edit
<1>2. ASSUME NEW l \in 1 .. Lines
      PROVE  l \in Shown(edit) <=> l \in edit.added
    <2>1. ASSUME NEW a \in edit.added
          PROVE  l <= a + 0 /\ a <= l + 0 <=> l = a
        BY <1>1, <2>1
    <2>2. ASSUME NEW g \in edit.removed
          PROVE  ~ (l <= g + 0 /\ g < l + 0)
        BY <1>1, <2>2
    <2> QED
        BY <2>1, <2>2 DEF Shown
<1>3. Shown(edit) = edit.added
    <2>1. Shown(edit) \subseteq 1 .. Lines /\ edit.added \subseteq 1 .. Lines
        BY <1>1 DEF Shown
    <2> QED
        BY <1>2, <2>1
<1>4. MarkLines(edit) = Marks
    BY <1>3 DEF MarkLines, Marks
<1>5. Marks # {}
    <2>1. CASE edit.added # {}
        BY <2>1 DEF Marks
    <2>2. CASE edit.added = {}
        <3>1. PICK g \in edit.removed : TRUE
            BY <2>2
        <3>2. g \in BareGaps(edit)
            BY <2>2 DEF BareGaps
        <3> QED
            BY <3>2 DEF Marks
    <2> QED
        BY <2>1, <2>2
<1> QED
    BY <1>4, <1>5

\* What the plan selects.
LEMMA PlannedIsRight ==
    ASSUME ScanInv, merged \in Seq(LineRange), Covered(merged) = MarkLines(edit), edit \in Edit,
           edit.added # {} \/ edit.removed # {}
    PROVE  /\ \A i \in DOMAIN units : Edits(edit, units[i]) => i \in Planned.changed
           /\ edit.context = 0 =>
                LET marked == {i \in DOMAIN units : Marks \cap units[i].first .. units[i].last # {}}
                IN  Planned.changed = IF marked = {} THEN DOMAIN units ELSE marked
<1>1. /\ Covered(merged) # {} => merged # <<>>
      /\ \A i \in DOMAIN units : units[i] \in Unit
      /\ units # <<>> <=> DOMAIN units # {}
    BY DEF ScanInv, Covered
<1>2. Touched \subseteq DOMAIN units
    BY DEF Touched
<1>3. merged # <<>> => Planned.changed = IF Touched = {} THEN DOMAIN units ELSE Touched
    BY <1>1, <1>2 DEF Planned
<1>4. ASSUME NEW i \in DOMAIN units, Edits(edit, units[i])
      PROVE  i \in Planned.changed
    <2>1. MarkLines(edit) \cap units[i].first .. units[i].last # {}
        BY <1>1, <1>4, EditsLeaveMarks
    <2>2. i \in Touched
        BY <1>4, <2>1, TouchedUnits
    <2>3. merged # <<>>
        BY <1>1, <2>1
    <2> QED
        BY <1>3, <2>2, <2>3
<1>5. ASSUME edit.context = 0
      PROVE  LET marked == {i \in DOMAIN units : Marks \cap units[i].first .. units[i].last # {}}
             IN  Planned.changed = IF marked = {} THEN DOMAIN units ELSE marked
    <2> DEFINE marked == {i \in DOMAIN units : Marks \cap units[i].first .. units[i].last # {}}
    <2>1. MarkLines(edit) = Marks /\ Marks # {}
        BY <1>5, MarksWithoutContext
    <2>2. ASSUME NEW i \in DOMAIN units
          PROVE  i \in Touched <=> i \in marked
        BY <2>1, <2>2, TouchedUnits
    <2>3. marked = Touched
        BY <1>2, <2>2
    <2>4. merged # <<>>
        BY <1>1, <2>1
    <2> QED
        BY <1>3, <2>3, <2>4
<1> QED
    BY <1>4, <1>5

\* A step that keeps the source and the edit keeps the marked lines.
LEMMA MarksStay ==
    ASSUME UNCHANGED <<source, edit>>
    PROVE  MarkLines(edit)' = MarkLines(edit) /\ Lines' = Lines
BY DEF MarkLines, Shown, BareGaps, Lines

LEMMA SubmitKeeps ==
    ASSUME PlanInv, Submit, edit'.lookalike = {}
    PROVE  PlanInv'
<1>1. /\ UNCHANGED <<source, masked, pos, units, scan, path, changed, ranges, merged>>
      /\ scan = "done" /\ stage = "scan" /\ stage' = "parse"
    BY DEF Submit, scanVars
<1>2. ScanInv' /\ Lines' = Lines /\ Lines \in Nat
    BY <1>1, LinesNumber DEF PlanInv, ScanInv, Lines
<1>3. PICK added \in SUBSET (1 .. Lines), removed \in SUBSET (0 .. Lines), context \in Contexts, order \in Sections :
        \E lookalike \in SUBSET added :
          /\ Cardinality(added) + Cardinality(removed) \in 1 .. MaxEdited
          /\ edit' = [added |-> added, lookalike |-> lookalike,
                      removed |-> removed, context |-> context]
          /\ diff' = DiffOf(edit', order)
    BY DEF Submit
<1>4. edit' \in Edit
    BY <1>3, IncrementalPlanAssumption DEF Edit
<1>5. edit'.added # {} \/ edit'.removed # {}
    <2>1. ASSUME added = {}, removed = {}
          PROVE  FALSE
        <3>1. Cardinality(added) = 0 /\ Cardinality(removed) = 0
            BY <2>1, FS_EmptySet
        <3>2. Cardinality(added) + Cardinality(removed) = 0
            BY <3>1
        <3> QED
            BY <1>3, <3>2
    <2>2. edit'.added = added /\ edit'.removed = removed
        BY <1>3
    <2> QED
        BY <2>1, <2>2
<1> DEFINE e == edit'
<1>6. /\ DiffOf(e, order) \in Seq(DiffLine) /\ Names(DiffOf(e, order))
      /\ \A p : MineLines(DiffOf(e, order), p) = MarkLines(e)
    BY <1>2, <1>4, DiffProperties
<1>7. MarkLines(e) = MarkLines(edit)'
    BY <1>2 DEF MarkLines, Shown, BareGaps
<1>8. ParseInv'
    <2>1. /\ path' = NoPath /\ path' \in {"mine", "other", NoPath} /\ DOMAIN changed' = {}
          /\ changed' \in [DOMAIN changed' -> Seq(LineRange)] /\ Mine' = <<>>
        BY <1>1 DEF PlanInv, Mine
    <2>2. Covered(<<>>) = {}
        BY DEF Covered
    <2>3. /\ diff' \in Seq(DiffLine) /\ Names(diff)'
          /\ MineLines(diff', path') = MarkLines(edit)'
        BY <1>3, <1>6, <1>7
    <2> QED
        BY <2>1, <2>2, <2>3 DEF ParseInv
<1> QED
    BY <1>1, <1>2, <1>4, <1>5, <1>8 DEF PlanInv, EditedIsSelected, OutsideMeansAll, Edit

\* What the steps of the parser leave alone.
LEMMA ParseFrame ==
    ASSUME PlanInv, stage = "parse", stage' \in {"parse", "merge"},
           UNCHANGED <<scanVars, edit, merged>>, stage' = "parse" => UNCHANGED ranges,
           stage' = "parse" => ParseInv', stage' = "merge" => MergeInv'
    PROVE  PlanInv'
<1>1. ScanInv' /\ scan' = "done"
    BY DEF PlanInv, ScanInv, scanVars
<1>2. Lines' = Lines
    BY DEF Lines, scanVars
<1>3. edit' \in Edit' /\ (edit'.added # {} \/ edit'.removed # {})
    BY <1>2 DEF PlanInv, Edit
<1>4. EditedIsSelected' /\ OutsideMeansAll'
    BY DEF EditedIsSelected, OutsideMeansAll
<1> QED
    BY <1>1, <1>3, <1>4 DEF PlanInv

LEMMA ParseFileKeeps ==
    ASSUME PlanInv, ParseFile
    PROVE  PlanInv'
<1>1. /\ stage = "parse" /\ stage' = "parse" /\ ParseInv
      /\ UNCHANGED <<scanVars, edit, merged, ranges>>
    BY DEF ParseFile, PlanInv
<1>2. /\ diff # <<>> /\ Head(diff).what = "file" /\ path' = Head(diff).path /\ diff' = Tail(diff)
      /\ changed' = IF path' \in DOMAIN changed \cup {NoPath} THEN changed
                    ELSE [p \in DOMAIN changed \cup {path'} |->
                            IF p = path' THEN <<>> ELSE changed[p]]
    BY DEF ParseFile, PathOf
<1>3. diff \in Seq(DiffLine) /\ changed \in [DOMAIN changed -> Seq(LineRange)]
    BY <1>1 DEF ParseInv
<1>4. /\ Head(diff) \in DiffLine /\ diff' \in Seq(DiffLine)
      /\ MineLines(diff, path) = MineLines(diff', path')
    BY <1>2, <1>3, MineOfRest
<1>5. path' \in {"mine", "other", NoPath}
    BY <1>2, <1>4 DEF DiffLine, FileLines, HunkLine, BodyLine
<1>6. changed' \in [DOMAIN changed' -> Seq(LineRange)]
    <2>1. <<>> \in Seq(LineRange)
        OBVIOUS
    <2> QED
        BY <1>2, <1>3, <2>1
<1>7. /\ DOMAIN changed \subseteq DOMAIN changed' /\ path' \in DOMAIN changed' \cup {NoPath}
      /\ \A p \in DOMAIN changed : changed'[p] = changed[p]
      /\ \A p \in DOMAIN changed' : p \notin DOMAIN changed => changed'[p] = <<>>
    BY <1>2, <1>3
<1>8. Mine' = Mine
    BY <1>7 DEF Mine
<1>9. "mine" \in DOMAIN changed' \/ Names(diff')
    <2>1. CASE "mine" \in DOMAIN changed
        BY <1>7, <2>1
    <2>2. CASE Names(diff)
        <3>1. PICK j \in 1 .. Len(diff) : diff[j].what = "file" /\ diff[j].path = "mine"
            BY <2>2 DEF Names
        <3>2. CASE j = 1
            <4>1. path' = "mine" /\ path' # NoPath
                BY <1>2, <1>3, <3>1, <3>2 DEF NoPath
            <4> QED
                BY <1>7, <4>1
        <3>3. CASE j # 1
            <4>1. j - 1 \in 1 .. Len(diff') /\ diff'[j - 1] = diff[j]
                BY <1>2, <1>3, <3>1, <3>3
            <4> QED
                BY <3>1, <4>1 DEF Names
        <3> QED
            BY <3>2, <3>3
    <2> QED
        BY <1>1, <2>1, <2>2 DEF ParseInv
<1>10. MarkLines(edit)' = MarkLines(edit)
    BY <1>1, MarksStay DEF scanVars
<1>11. ParseInv'
    BY <1>1, <1>4, <1>5, <1>6, <1>7, <1>8, <1>9, <1>10 DEF ParseInv
<1> QED
    BY <1>1, <1>11, ParseFrame

LEMMA RestNames ==
    ASSUME NEW d \in Seq(DiffLine), d # <<>>, Head(d).what # "file", Names(d)
    PROVE  Names(Tail(d))
<1>1. PICK j \in 1 .. Len(d) : d[j].what = "file" /\ d[j].path = "mine"
    BY DEF Names
<1>2. j # 1
    BY <1>1
<1>3. j - 1 \in 1 .. Len(Tail(d)) /\ Tail(d)[j - 1] = d[j]
    BY <1>1, <1>2
<1> QED
    BY <1>1, <1>3 DEF Names

LEMMA ParseHunkKeeps ==
    ASSUME PlanInv, ParseHunk
    PROVE  PlanInv'
<1>1. /\ stage = "parse" /\ stage' = "parse" /\ ParseInv
      /\ UNCHANGED <<scanVars, edit, merged, ranges, path>>
    BY DEF ParseHunk, PlanInv
<1>2. /\ diff # <<>> /\ Head(diff).what = "hunk" /\ diff' = Tail(diff)
      /\ changed' = IF path = NoPath THEN changed
                    ELSE [changed EXCEPT ![path] = @ \o RangeOf(Head(diff))]
    BY DEF ParseHunk
<1>3. /\ diff \in Seq(DiffLine) /\ changed \in [DOMAIN changed -> Seq(LineRange)]
      /\ path \in DOMAIN changed \cup {NoPath}
    BY <1>1 DEF ParseInv
<1> DEFINE h == Head(diff)
<1>4. /\ h \in DiffLine /\ diff' \in Seq(DiffLine)
      /\ path = "mine" => MineLines(diff, path) = Covered(RangeOf(h)) \cup MineLines(diff', path)
      /\ path # "mine" => MineLines(diff, path) = MineLines(diff', path)
    BY <1>2, <1>3, MineOfRest
<1>5. h \in HunkLine
    BY <1>2, <1>4 DEF DiffLine, FileLines, BodyLine
<1>6. RangeOf(h) \in Seq(LineRange)
    BY <1>5, RangeOfProperties
<1> HIDE DEF h
<1>7. changed' = IF path = NoPath THEN changed ELSE [changed EXCEPT ![path] = @ \o RangeOf(h)]
    BY <1>2 DEF h
<1>8. /\ DOMAIN changed' = DOMAIN changed /\ changed' \in [DOMAIN changed -> Seq(LineRange)]
      /\ \A p \in DOMAIN changed : p # path => changed'[p] = changed[p]
      /\ path # NoPath => changed'[path] = changed[path] \o RangeOf(h)
    BY <1>3, <1>6, <1>7
<1>9. Covered(Mine') \cup MineLines(diff', path) = Covered(Mine) \cup MineLines(diff, path)
    <2>1. CASE path = "mine"
        <3>1. path # NoPath /\ "mine" \in DOMAIN changed
            BY <1>3, <2>1 DEF NoPath
        <3>2. Mine = changed["mine"] /\ Mine' = Mine \o RangeOf(h) /\ Mine \in Seq(LineRange)
            BY <1>3, <1>8, <2>1, <3>1 DEF Mine
        <3>3. Covered(Mine') = Covered(Mine) \cup Covered(RangeOf(h))
            BY <1>6, <3>2, CoveredJoin
        <3> QED
            BY <1>4, <2>1, <3>3
    <2>2. CASE path # "mine"
        <3>1. Mine' = Mine
            BY <1>8, <2>2 DEF Mine
        <3> QED
            BY <1>4, <2>2, <3>1
    <2> QED
        BY <2>1, <2>2
<1>10. Names(diff) => Names(diff')
    BY <1>2, <1>3, RestNames
<1>11. MarkLines(edit)' = MarkLines(edit)
    BY <1>1, MarksStay DEF scanVars
<1>12. ParseInv'
    BY <1>1, <1>3, <1>4, <1>8, <1>9, <1>10, <1>11 DEF ParseInv
<1> QED
    BY <1>1, <1>12, ParseFrame

LEMMA PassLineKeeps ==
    ASSUME PlanInv, PassLine
    PROVE  PlanInv'
<1>1. /\ stage = "parse" /\ stage' = "parse" /\ ParseInv
      /\ UNCHANGED <<scanVars, edit, merged, ranges, path, changed>>
    BY DEF PassLine, PlanInv
<1>2. diff # <<>> /\ Head(diff).what = "body" /\ diff' = Tail(diff) /\ diff \in Seq(DiffLine)
    BY <1>1 DEF PassLine, ParseInv
<1>3. diff' \in Seq(DiffLine) /\ MineLines(diff, path) = MineLines(diff', path)
    BY <1>2, MineOfRest
<1>4. Names(diff) => Names(diff')
    BY <1>2, RestNames
<1>5. MarkLines(edit)' = MarkLines(edit)
    BY <1>1, MarksStay DEF scanVars
<1>6. ParseInv'
    BY <1>1, <1>3, <1>4, <1>5 DEF ParseInv, Mine
<1> QED
    BY <1>1, <1>6, ParseFrame

LEMMA EndParseKeeps ==
    ASSUME PlanInv, EndParse
    PROVE  PlanInv'
<1>1. /\ stage = "parse" /\ stage' = "merge" /\ ParseInv /\ merged = <<>>
      /\ UNCHANGED <<scanVars, edit, merged, diff, path, changed>>
    BY DEF EndParse, PlanInv
<1>2. diff = <<>> /\ ranges' = Ordered(changed["mine"])
    BY DEF EndParse
<1>3. "mine" \in DOMAIN changed
    BY <1>1, <1>2 DEF ParseInv, Names
<1> DEFINE rs == changed["mine"]
<1>4. rs \in Seq(LineRange) /\ Mine = rs
    BY <1>1, <1>3 DEF ParseInv, Mine
<1>5. Covered(rs) = MarkLines(edit)
    <2>1. MineLines(<<>>, path) = {}
        BY MineOfNone
    <2> QED
        BY <1>1, <1>2, <1>4, <2>1 DEF ParseInv
<1> HIDE DEF rs
<1>6. /\ ranges' \in Seq(LineRange) /\ Covered(ranges') = Covered(rs)
      /\ \A i, j \in 1 .. Len(ranges') : i < j => ranges'[i].first <= ranges'[j].first
    <2>1. ranges' = Ordered(rs)
        BY <1>2 DEF rs
    <2> QED
        BY <1>4, <2>1, OrderedProperties
<1>7. merged' = <<>> /\ merged' \in Seq(LineRange) /\ Covered(merged') = {}
    BY <1>1 DEF Covered
<1>8. MarkLines(edit)' = MarkLines(edit)
    BY <1>1, MarksStay DEF scanVars
<1>9. MergeInv'
    BY <1>5, <1>6, <1>7, <1>8 DEF MergeInv
<1> QED
    BY <1>1, <1>9, ParseFrame

\* What the steps of the merge leave alone.
LEMMA MergeFrame ==
    ASSUME PlanInv, stage = "merge", stage' \in {"merge", "plan"}, UNCHANGED <<scanVars, edit>>,
           stage' = "merge" => MergeInv',
           stage' = "plan" => merged' \in Seq(LineRange) /\ Covered(merged') = MarkLines(edit)
    PROVE  PlanInv'
<1>1. ScanInv' /\ scan' = "done"
    BY DEF PlanInv, ScanInv, scanVars
<1>2. MarkLines(edit)' = MarkLines(edit) /\ Lines' = Lines
    BY MarksStay DEF scanVars
<1>3. edit' \in Edit' /\ (edit'.added # {} \/ edit'.removed # {})
    BY <1>2 DEF PlanInv, Edit
<1>4. EditedIsSelected' /\ OutsideMeansAll'
    BY DEF EditedIsSelected, OutsideMeansAll
<1> QED
    BY <1>1, <1>2, <1>3, <1>4 DEF PlanInv

LEMMA MergeRangeKeeps ==
    ASSUME PlanInv, MergeRange
    PROVE  PlanInv'
<1>1. /\ stage = "merge" /\ stage' = "merge" /\ MergeInv /\ UNCHANGED <<scanVars, edit>>
    BY DEF MergeRange, PlanInv
<1> DEFINE r == Head(ranges)
           n == Len(ranges)
<1>2. /\ ranges # <<>> /\ merged' = WithRange(merged, r) /\ ranges' = Tail(ranges)
    BY DEF MergeRange
<1>3. /\ ranges \in Seq(LineRange) /\ merged \in Seq(LineRange)
      /\ Covered(merged) \cup Covered(ranges) = MarkLines(edit)
      /\ \A i, j \in 1 .. n : i < j => ranges[i].first <= ranges[j].first
      /\ merged # <<>> => \A i \in 1 .. n : Last(merged).first <= ranges[i].first
    BY <1>1 DEF MergeInv
<1>4. /\ r \in LineRange /\ r = ranges[1] /\ n \in Nat \ {0} /\ 1 \in 1 .. n
      /\ ranges' \in Seq(LineRange) /\ Len(ranges') = n - 1
      /\ \A i \in 1 .. n - 1 : ranges'[i] = ranges[i + 1] /\ i + 1 \in 1 .. n /\ i + 1 > 1
    BY <1>2, <1>3, HeadTailProperties
<1> HIDE DEF r, n
<1>5. merged # <<>> => Last(merged).first <= r.first
    BY <1>3, <1>4
<1>6. /\ merged' \in Seq(LineRange) /\ merged' # <<>> /\ Last(merged').first <= r.first
      /\ Covered(merged') = Covered(merged) \cup (r.first .. r.last)
    BY <1>2, <1>3, <1>4, <1>5, WithRangeKeeps
<1>7. Covered(ranges) = (r.first .. r.last) \cup Covered(ranges')
    <2>1. ranges = <<r>> \o ranges'
        BY <1>2, <1>3 DEF r
    <2>2. <<r>> \in Seq(LineRange) /\ Covered(<<r>>) = r.first .. r.last
        BY <1>4, CoveredOne
    <2> QED
        BY <1>4, <2>1, <2>2, CoveredJoin
<1>8. \A i, j \in 1 .. Len(ranges') : i < j => ranges'[i].first <= ranges'[j].first
    <2>1. ASSUME NEW i \in 1 .. n - 1, NEW j \in 1 .. n - 1, i < j
          PROVE  ranges'[i].first <= ranges'[j].first
        <3>1. i + 1 \in 1 .. n /\ j + 1 \in 1 .. n /\ i + 1 < j + 1
            BY <1>4, <2>1
        <3> QED
            BY <1>3, <1>4, <2>1, <3>1
    <2> QED
        BY <1>4, <2>1
<1>9. ASSUME NEW i \in 1 .. Len(ranges')
      PROVE  Last(merged').first <= ranges'[i].first
    <2>1. ranges'[i] = ranges[i + 1] /\ i + 1 \in 1 .. n /\ 1 < i + 1
        BY <1>4, <1>9
    <2>2. r.first <= ranges'[i].first
        BY <1>3, <1>4, <2>1
    <2>3. r.first \in Nat /\ ranges'[i].first \in Nat /\ Last(merged').first \in Nat
        <3>1. ranges'[i] \in LineRange
            BY <1>4, <1>9
        <3>2. Last(merged') \in LineRange
            BY <1>6 DEF Last
        <3> QED
            BY <1>4, <3>1, <3>2 DEF LineRange
    <2> QED
        BY <1>6, <2>2, <2>3
<1>10. MarkLines(edit)' = MarkLines(edit)
    BY <1>1, MarksStay DEF scanVars
<1>11. Covered(merged') \cup Covered(ranges') = MarkLines(edit)'
    BY <1>3, <1>6, <1>7, <1>10
<1>12. MergeInv'
    BY <1>4, <1>6, <1>8, <1>9, <1>11 DEF MergeInv
<1> QED
    BY <1>1, <1>12, MergeFrame

LEMMA EndMergeKeeps ==
    ASSUME PlanInv, EndMerge
    PROVE  PlanInv'
<1>1. /\ stage = "merge" /\ stage' = "plan" /\ MergeInv /\ ranges = <<>>
      /\ UNCHANGED <<scanVars, edit, merged>>
    BY DEF EndMerge, PlanInv
<1>2. Covered(<<>>) = {}
    BY DEF Covered
<1>3. merged' \in Seq(LineRange) /\ Covered(merged') = MarkLines(edit)
    BY <1>1, <1>2 DEF MergeInv
<1> QED
    BY <1>1, <1>3, MergeFrame

LEMMA BuildPlanKeeps ==
    ASSUME PlanInv, BuildPlan
    PROVE  PlanInv'
<1>1. /\ stage = "plan" /\ stage' = "done" /\ plan' = Planned
      /\ UNCHANGED <<scanVars, edit>> /\ UNCHANGED <<source, masked, pos, units, scan>>
    BY DEF BuildPlan, scanVars
<1>2. /\ ScanInv /\ merged \in Seq(LineRange) /\ Covered(merged) = MarkLines(edit)
      /\ edit \in Edit /\ (edit.added # {} \/ edit.removed # {}) /\ scan = "done"
    BY <1>1 DEF PlanInv
<1>3. ScanInv' /\ scan' = "done" /\ Lines' = Lines
    BY <1>1, <1>2 DEF ScanInv, Lines
<1>4. /\ \A i \in DOMAIN units : Edits(edit, units[i]) => i \in Planned.changed
      /\ edit.context = 0 =>
            LET marked == {i \in DOMAIN units : Marks \cap units[i].first .. units[i].last # {}}
            IN  Planned.changed = IF marked = {} THEN DOMAIN units ELSE marked
    BY <1>2, PlannedIsRight
<1>5. EditedIsSelected'
    BY <1>1, <1>4 DEF EditedIsSelected, Edits
<1>6. OutsideMeansAll'
    BY <1>1, <1>4 DEF OutsideMeansAll, Marks, BareGaps
<1>7. edit' \in Edit' /\ (edit'.added # {} \/ edit'.removed # {})
    BY <1>1, <1>2, <1>3 DEF Edit
<1> QED
    BY <1>1, <1>3, <1>5, <1>6, <1>7 DEF PlanInv

LEMMA ScanKeeps ==
    ASSUME PlanInv, Scan
    PROVE  PlanInv'
<1>1. ScanStep /\ UNCHANGED <<edit, diff, path, changed, stage, ranges, merged, plan>>
    BY DEF Scan, diffVars
<1>2. ScanInv'
    BY <1>1, ScanStepKeeps DEF PlanInv
<1>3. scan # "done"
    BY <1>1 DEF ScanStep, MaskLineComment, MaskBlockComment, OpenString, InString, KeepToken,
                EndMask, TakeUnit, PassDeclaration, EndUnits, InCode
<1>4. stage = "scan" /\ stage' = "scan"
    BY <1>1, <1>3 DEF PlanInv
<1>5. EditedIsSelected' /\ OutsideMeansAll'
    BY <1>4 DEF EditedIsSelected, OutsideMeansAll
<1> QED
    BY <1>1, <1>2, <1>4, <1>5 DEF PlanInv

-----------------------------------------------------------------------------
(* The theorems *)

LEMMA StutterKeeps ==
    ASSUME PlanInv, UNCHANGED planVars
    PROVE  PlanInv'
<1>1. /\ UNCHANGED <<source, masked, pos, units, scan>>
      /\ UNCHANGED <<edit, diff, path, changed, stage, ranges, merged, plan>>
    BY DEF planVars, scanVars, diffVars
<1>2. MarkLines(edit)' = MarkLines(edit) /\ Lines' = Lines
    BY <1>1, MarksStay
<1>3. ScanInv'
    BY <1>1 DEF PlanInv, ScanInv
<1>4. ParseInv => ParseInv'
    BY <1>1, <1>2 DEF ParseInv, Mine
<1>5. MergeInv => MergeInv'
    BY <1>1, <1>2 DEF MergeInv
<1>6. EditedIsSelected'
    BY <1>1 DEF PlanInv, EditedIsSelected, Edits
<1>7. OutsideMeansAll'
    BY <1>1 DEF PlanInv, OutsideMeansAll, Marks, BareGaps
<1>8. edit \in Edit => edit' \in Edit'
    BY <1>1, <1>2 DEF Edit
<1> QED
    BY <1>1, <1>2, <1>3, <1>4, <1>5, <1>6, <1>7, <1>8 DEF PlanInv

\* The parser will read every line of the diff for what it is.
ReadsRight == stage = "scan" \/ edit.lookalike = {}

\* Only the step that makes the diff decides whether it does.
LEMMA ReadsRightBefore ==
    ASSUME [PlanNext]_planVars, ReadsRight'
    PROVE  ReadsRight
<1>1. \/ stage = "scan"
      \/ UNCHANGED edit /\ (stage' = "scan" => stage = "scan")
    BY DEF PlanNext, PlanStep, planVars, diffVars, Scan, Submit, ParseFile, ParseHunk, PassLine,
           EndParse, MergeRange, EndMerge, BuildPlan
<1> QED
    BY <1>1 DEF ReadsRight

LEMMA PlanInductive == PlanSpec => [](ReadsRight => PlanInv)
<1>1. PlanInit => PlanInv
    BY InitScan DEF PlanInit, PlanInv, EditedIsSelected, OutsideMeansAll
<1>2. ASSUME ReadsRight => PlanInv, [PlanNext]_planVars, ReadsRight'
      PROVE  PlanInv'
    <2> PlanInv
        BY <1>2, ReadsRightBefore
    <2>1. CASE Scan
        BY <1>2, <2>1, ScanKeeps
    <2>2. CASE Submit
        <3>1. edit'.lookalike = {}
            BY <1>2, <2>2 DEF Submit, ReadsRight
        <3> QED
            BY <2>2, <3>1, SubmitKeeps
    <2>3. CASE ParseFile
        BY <1>2, <2>3, ParseFileKeeps
    <2>4. CASE ParseHunk
        BY <1>2, <2>4, ParseHunkKeeps
    <2>5. CASE PassLine
        BY <1>2, <2>5, PassLineKeeps
    <2>6. CASE EndParse
        BY <1>2, <2>6, EndParseKeeps
    <2>7. CASE MergeRange
        BY <1>2, <2>7, MergeRangeKeeps
    <2>8. CASE EndMerge
        BY <1>2, <2>8, EndMergeKeeps
    <2>9. CASE BuildPlan
        BY <1>2, <2>9, BuildPlanKeeps
    <2>10. CASE UNCHANGED planVars
        BY <1>2, <2>10, StutterKeeps
    <2> QED
        BY <1>2, <2>1, <2>2, <2>3, <2>4, <2>5, <2>6, <2>7, <2>8, <2>9, <2>10 DEF PlanNext, PlanStep
<1> QED
    BY <1>1, <1>2, PTL DEF PlanSpec

\* Every function that was edited is audited, however much context the diff shows and
\* whatever other files it contains, unless one of its lines looks like a header
\* (run_incremental_audit).
THEOREM EditsAreSelected == PlanSpec => []EditedIsSelected
<1>1. (ReadsRight => PlanInv) => EditedIsSelected
    BY DEF PlanInv, ReadsRight, EditedIsSelected
<1> QED
    BY <1>1, PlanInductive, PTL

\* A diff without context or lookalike selects the functions with a mark, or all when
\* none has one (build_plan).
THEOREM OutsideSelectsAll == PlanSpec => []OutsideMeansAll
<1>1. (ReadsRight => PlanInv) => OutsideMeansAll
    BY DEF PlanInv, ReadsRight, OutsideMeansAll
<1> QED
    BY <1>1, PlanInductive, PTL

LEMMA ScannerInductive == PlanSpec => []ExtractInv
<1>1. PlanInit => ExtractInv
    BY ScannerStarts DEF PlanInit
<1>2. ASSUME ExtractInv, [PlanNext]_planVars
      PROVE  ExtractInv'
    <2>1. CASE Scan
        <3>1. ScanStep
            BY <2>1 DEF Scan
        <3> QED
            BY <1>2, <3>1, ScannerSteps
    <2>2. CASE UNCHANGED scanVars
        BY <1>2, <2>2, ScannerWaits
    <2>3. Scan \/ UNCHANGED scanVars
        BY <1>2 DEF PlanNext, PlanStep, planVars, Submit, ParseFile, ParseHunk, PassLine, EndParse,
                    MergeRange, EndMerge, BuildPlan
    <2> QED
        BY <2>1, <2>2, <2>3
<1> QED
    BY <1>1, <1>2, PTL DEF PlanSpec

\* Once the first pass is over, what is left of the source is its code.
MaskedIsCode == scan # "mask" => masked = Code(source)

\* For every source that is made of members, the text the second pass works on has lost
\* its comments and literals and nothing else, escapes and quotes in comments included
\* (mask_source).
THEOREM MaskIsExact == PlanSpec => []MaskedIsCode
<1>1. ExtractInv => MaskedIsCode
    BY DEF ExtractInv, MaskInv, MaskedIsCode
<1> QED
    BY <1>1, ScannerInductive, PTL

\* For every contract whose members have the form of SolidityUnitsAssumption, the units
\* that are found are its functions with a body: each of them once, in their order, with
\* its kind and on its lines (extract_functions).
THEOREM UnitsAreFound == PlanSpec => []FoundAsWritten
<1>1. ExtractInv => FoundAsWritten
    BY FoundIsWritten
<1> QED
    BY <1>1, ScannerInductive, PTL

\* What the two passes promise together: a function of the contract that was edited is
\* among those that are audited, under its own kind and lines.
EditedFunctionsAreAudited ==
    stage = "done" /\ edit.lookalike = {} =>
        \A i \in Bodied : Edits(edit, UnitOf(i)) => \E k \in plan.changed : units[k] = UnitOf(i)

\* From the text of a contract to the plan of its audit: whatever is written around a
\* function, however it is edited and shown in the diff (with the exception of lines that
\* look like a header), an incremental audit looks at it (extract_functions, parse_unified_diff, merge_ranges, build_plan).
THEOREM EditedFunctionsReachTheAudit == PlanSpec => []EditedFunctionsAreAudited
<1>1. (ReadsRight => PlanInv) /\ ExtractInv => EditedFunctionsAreAudited
    <2> SUFFICES ASSUME PlanInv, ExtractInv, stage = "done", edit.lookalike = {}, NEW i \in Bodied, Edits(edit, UnitOf(i))
                 PROVE  \E k \in plan.changed : units[k] = UnitOf(i)
        BY DEF EditedFunctionsAreAudited, ReadsRight
    <2>1. units = WrittenUnits /\ EditedIsSelected
        BY FoundIsWritten DEF PlanInv, FoundAsWritten
    <2>2. PICK n : n \in Nat /\ Bodied \in SUBSET (1 .. n)
        <3>1. PICK n : Built(n)
            BY DEF ExtractInv
        <3> QED
            BY <3>1 DEF Built, Bodied
    <2>3. PICK k \in 1 .. Cardinality(Bodied) : InOrder(Bodied)[k] = i
        BY <2>2, InOrderRises
    <2>4. k \in DOMAIN units /\ units[k] = UnitOf(i)
        BY <2>1, <2>3 DEF WrittenUnits
    <2> QED
        BY <2>1, <2>4 DEF EditedIsSelected
<1> QED
    BY <1>1, PlanInductive, ScannerInductive, PTL
=============================================================================
