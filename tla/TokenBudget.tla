----------------------------- MODULE TokenBudget -----------------------------
(***************************************************************************)
(* The per-project LLM budget (llm/budget/token_budget.py), for one        *)
(* project: the counters each Celery worker process keeps in memory, the   *)
(* copy in Redis, and the threads of the audit tasks that check the budget,*)
(* call the model and charge the call.  A process runs one task at a time; *)
(* several processes may run tasks of the same project.                    *)
(*                                                                         *)
(* The Redis key expires 30 days after it was last written, which is not   *)
(* modelled.                                                               *)
(***************************************************************************)
EXTENDS Naturals, FiniteSets

CONSTANTS
    Process,    \* prefork worker processes
    Thread,     \* function workers of one task, over all its files
    MaxCalls,   \* TokenBudget.max_calls
    MaxTokens,  \* TokenBudget.max_tokens
    MaxCost,    \* a bound on the total_tokens of one answer
    RedisMayFail \* whether a load may find Redis unreachable

ASSUME BudgetAssumption ==
    /\ IsFiniteSet(Thread) /\ Thread # {}
    /\ MaxCalls \in Nat \ {0}
    /\ MaxTokens \in Nat \ {0}
    /\ MaxCost \in Nat
    /\ RedisMayFail \in BOOLEAN

VARIABLES
    phase,      \* what a process does: idle, in a task, or idle after a persist
    usage,      \* _usage[project] of each process
    inFlight,   \* threads of a process between check_budget and the answer
    redis,      \* the value of solidguard:token_usage:<project>
    answered    \* calls answered to a process since it was started

vars == <<phase, usage, inFlight, redis, answered>>

Usage == [calls: Nat, tokens: Nat]
NoUsage == [calls |-> 0, tokens |-> 0]

Max2(a, b) == IF a < b THEN b ELSE a

Init ==
    /\ phase = [p \in Process |-> "idle"]
    /\ usage = [p \in Process |-> NoUsage]
    /\ inFlight = [p \in Process |-> {}]
    /\ redis = NoUsage
    /\ answered = [p \in Process |-> 0]

\* Mutant: the stored value replaces the one in memory.
Overwritten(u) == redis

\* load_usage takes the larger of the stored value and the one in memory.
Merged(u) ==
    [calls |-> Max2(u.calls, redis.calls), tokens |-> Max2(u.tokens, redis.tokens)]

\* A task starts with load_usage; an unreachable Redis is skipped.
StartTask(p) ==
    /\ phase[p] # "task"
    /\ \/ usage' = [usage EXCEPT ![p] = Merged(usage[p])]
       \/ RedisMayFail /\ UNCHANGED usage
    /\ phase' = [phase EXCEPT ![p] = "task"]
    /\ UNCHANGED <<inFlight, redis, answered>>

\* Mutant: the comparison is off by one.
OneMore(p) == usage[p].calls <= MaxCalls /\ usage[p].tokens < MaxTokens

\* Mutant: the tokens are not looked at.
CallsOnly(p) == usage[p].calls < MaxCalls

WithinBudget(p) == usage[p].calls < MaxCalls /\ usage[p].tokens < MaxTokens

\* A thread passes check_budget and sends its call.  The lock is not held
\* between the check and the charge.
Check(p, t) ==
    /\ phase[p] = "task"
    /\ t \notin inFlight[p]
    /\ WithinBudget(p)
    /\ inFlight' = [inFlight EXCEPT ![p] = @ \cup {t}]
    /\ UNCHANGED <<phase, usage, redis, answered>>

\* The answer arrives: record_usage charges one call and its tokens.
Record(p, t) ==
    /\ t \in inFlight[p]
    /\ \E cost \in 0..MaxCost :
         usage' = [usage EXCEPT ![p] = [calls |-> @.calls + 1, tokens |-> @.tokens + cost]]
    /\ inFlight' = [inFlight EXCEPT ![p] = @ \ {t}]
    /\ answered' = [answered EXCEPT ![p] = @ + 1]
    /\ UNCHANGED <<phase, redis>>

\* Mutant: a call is refunded that was never charged.
Refunded(p, t) ==
    /\ t \in inFlight[p]
    /\ inFlight' = [inFlight EXCEPT ![p] = @ \ {t}]
    /\ usage' = [usage EXCEPT ![p].calls = @ - 1]
    /\ UNCHANGED <<phase, redis, answered>>

\* The call fails and is not charged.
CallFails(p, t) ==
    /\ t \in inFlight[p]
    /\ inFlight' = [inFlight EXCEPT ![p] = @ \ {t}]
    /\ UNCHANGED <<phase, usage, redis, answered>>

\* The task reaches persist_usage: SETEX of this process's own counters.
Persist(p) ==
    /\ phase[p] = "task" /\ inFlight[p] = {}
    /\ redis' = usage[p]
    /\ phase' = [phase EXCEPT ![p] = "saved"]
    /\ UNCHANGED <<usage, inFlight, answered>>

\* The task fails before persist_usage, or Redis refuses the write.
EndUnsaved(p) ==
    /\ phase[p] = "task" /\ inFlight[p] = {}
    /\ phase' = [phase EXCEPT ![p] = "idle"]
    /\ UNCHANGED <<usage, inFlight, redis, answered>>

\* The process dies; its successor starts with an empty dictionary.
Crash(p) ==
    /\ phase' = [phase EXCEPT ![p] = "idle"]
    /\ usage' = [usage EXCEPT ![p] = NoUsage]
    /\ inFlight' = [inFlight EXCEPT ![p] = {}]
    /\ answered' = [answered EXCEPT ![p] = 0]
    /\ UNCHANGED redis

Next ==
    \E p \in Process :
        \/ StartTask(p) \/ Persist(p) \/ EndUnsaved(p) \/ Crash(p)
        \/ \E t \in Thread : Check(p, t) \/ Record(p, t) \/ CallFails(p, t)

Spec == Init /\ [][Next]_vars

-----------------------------------------------------------------------------
(* Properties *)

TypeOK ==
    /\ phase \in [Process -> {"idle", "task", "saved"}]
    /\ usage \in [Process -> Usage]
    /\ inFlight \in [Process -> SUBSET Thread]
    /\ redis \in Usage
    /\ answered \in [Process -> Nat]

\* The check and the charge are not one step, so the budget can be overrun, but
\* by no more than the calls that were in flight: whatever the interleaving of
\* threads, tasks, processes and restarts, no counter, in memory or in Redis,
\* passes the limit by as many calls as a task has threads.
CallsOvershoot ==
    /\ \A p \in Process : usage[p].calls <= MaxCalls - 1 + Cardinality(Thread)
    /\ redis.calls <= MaxCalls - 1 + Cardinality(Thread)

\* The same for tokens: at most one answer per thread over the limit.
TokensOvershoot ==
    /\ \A p \in Process : usage[p].tokens <= MaxTokens - 1 + Cardinality(Thread) * MaxCost
    /\ redis.tokens <= MaxTokens - 1 + Cardinality(Thread) * MaxCost

\* A process never forgets a call it was answered: neither the merge with an
\* older value in Redis nor a failed task takes it out of the baseline.
EveryAnswerIsCharged == \A p \in Process : answered[p] <= usage[p].calls

\* token_budget.py: the baseline includes the consumption of earlier tasks, so
\* what a task has persisted stays in Redis.  (The run that refutes it does
\* so while Redis answers every load.)
PersistedStays ==
    \A p \in Process : phase[p] = "saved" => usage[p].calls <= redis.calls
=============================================================================
