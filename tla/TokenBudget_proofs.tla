-------------------------- MODULE TokenBudget_proofs --------------------------
(***************************************************************************)
(* The budget's overrun is bounded for every number of processes and       *)
(* threads and every limit.                                                *)
(***************************************************************************)
EXTENDS TokenBudget, FiniteSetTheorems, TLAPS

(***************************************************************************)
(* The bounds are not inductive by themselves: a process at its limit may  *)
(* have calls in flight.  They are once those calls are counted in.        *)
(***************************************************************************)
Slots == Cardinality(Thread)

Pending(p) == Cardinality(inFlight[p])

RestMeansQuiet == \A p \in Process : phase[p] # "task" => inFlight[p] = {}

CallsCommitted ==
    /\ \A p \in Process : usage[p].calls + Pending(p) <= MaxCalls - 1 + Slots
    /\ redis.calls <= MaxCalls - 1 + Slots

TokensCommitted ==
    /\ \A p \in Process :
         usage[p].tokens + Pending(p) * MaxCost <= MaxTokens - 1 + Slots * MaxCost
    /\ redis.tokens <= MaxTokens - 1 + Slots * MaxCost

Inv == TypeOK /\ RestMeansQuiet /\ CallsCommitted /\ TokensCommitted /\ EveryAnswerIsCharged

-----------------------------------------------------------------------------
(* Arithmetic and counting *)

LEMMA TimesMonotone ==
    ASSUME NEW a \in Nat, NEW b \in Nat, NEW c \in Nat, a <= b
    PROVE  a * c <= b * c
    OBVIOUS

LEMMA TimesStep ==
    ASSUME NEW a \in Nat, NEW c \in Nat, a # 0
    PROVE  (a - 1) * c = a * c - c
    OBVIOUS

LEMMA TimesType ==
    ASSUME NEW a \in Nat, NEW c \in Nat
    PROVE  a * c \in Nat
    OBVIOUS

\* The calls in flight are at most as many as the threads.
LEMMA PendingBound ==
    ASSUME NEW S \in SUBSET Thread
    PROVE  /\ IsFiniteSet(S) /\ Cardinality(S) \in Nat
           /\ Slots \in Nat /\ Slots # 0
           /\ Cardinality(S) <= Slots
<1>1. IsFiniteSet(S) /\ Cardinality(S) <= Slots
    BY BudgetAssumption, FS_Subset DEF Slots
<1>2. Cardinality(S) \in Nat /\ Slots \in Nat
    BY <1>1, BudgetAssumption, FS_CardinalityType DEF Slots
<1>3. Slots # 0
    BY BudgetAssumption, FS_EmptySet DEF Slots
<1> QED  BY <1>1, <1>2, <1>3

LEMMA MergedBounds ==
    ASSUME TypeOK, NEW u \in Usage
    PROVE  /\ Merged(u) \in Usage
           /\ Merged(u).calls \in {u.calls, redis.calls} /\ u.calls <= Merged(u).calls
           /\ Merged(u).tokens \in {u.tokens, redis.tokens}
    BY DEF TypeOK, Usage, Merged, Max2

-----------------------------------------------------------------------------
(* The steps *)

LEMMA InitInv ==
    ASSUME Init
    PROVE  Inv
<1>1. Slots \in Nat /\ Slots # 0 /\ MaxCost \in Nat /\ MaxCalls \in Nat \ {0}
      /\ MaxTokens \in Nat \ {0}
    BY PendingBound, BudgetAssumption
<1>2. Slots * MaxCost \in Nat
    BY <1>1, TimesType
<1>3. \A p \in Process : Pending(p) = 0
    BY FS_EmptySet DEF Init, Pending
<1>4. TypeOK /\ RestMeansQuiet /\ EveryAnswerIsCharged
    BY DEF Init, TypeOK, RestMeansQuiet, EveryAnswerIsCharged, Usage, NoUsage
<1>5. CallsCommitted
    BY <1>1, <1>3 DEF Init, CallsCommitted, NoUsage
<1>6. TokensCommitted
    <2>1. 0 * MaxCost = 0
        BY <1>1
    <2> QED  BY <1>1, <1>2, <1>3, <2>1 DEF Init, TokensCommitted, NoUsage
<1> QED  BY <1>4, <1>5, <1>6 DEF Inv

\* What an action of process p has to show: the other processes are untouched.
LEMMA OneProcessStep ==
    ASSUME Inv, NEW p \in Process, TypeOK',
           \A q \in Process \ {p} : /\ phase'[q] = phase[q] /\ usage'[q] = usage[q]
                                    /\ inFlight'[q] = inFlight[q]
                                    /\ answered'[q] = answered[q],
           phase'[p] # "task" => inFlight'[p] = {},
           usage'[p].calls + Pending(p)' <= MaxCalls - 1 + Slots,
           redis'.calls <= MaxCalls - 1 + Slots,
           usage'[p].tokens + Pending(p)' * MaxCost <= MaxTokens - 1 + Slots * MaxCost,
           redis'.tokens <= MaxTokens - 1 + Slots * MaxCost,
           answered'[p] <= usage'[p].calls
    PROVE  Inv'
<1>1. RestMeansQuiet' /\ EveryAnswerIsCharged'
    BY DEF Inv, RestMeansQuiet, EveryAnswerIsCharged
<1>2. ASSUME NEW q \in Process, q # p
      PROVE  Pending(q)' = Pending(q)
    BY <1>2 DEF Pending
<1>3. CallsCommitted'
    BY <1>2 DEF Inv, CallsCommitted, Slots
<1>4. TokensCommitted'
    BY <1>2 DEF Inv, TokensCommitted, Slots
<1> QED  BY <1>1, <1>3, <1>4 DEF Inv

LEMMA NextInv ==
    ASSUME Inv, [Next]_vars
    PROVE  Inv'
<1> USE BudgetAssumption
<1>0. /\ Slots \in Nat /\ Slots # 0 /\ Slots * MaxCost \in Nat
      /\ \A p \in Process : Pending(p) \in Nat /\ Pending(p) <= Slots
                            /\ Pending(p) * MaxCost \in Nat
    BY PendingBound, TimesType DEF Inv, TypeOK, Pending
<1>1. ASSUME NEW p \in Process, StartTask(p)
      PROVE  Inv'
    <2>1. usage[p] \in Usage /\ inFlight[p] = {} /\ Pending(p) = 0
        BY <1>1, FS_EmptySet DEF StartTask, Inv, TypeOK, RestMeansQuiet, Pending
    <2>2. PICK u \in {usage[p], Merged(usage[p])} : usage' = [usage EXCEPT ![p] = u]
        BY <1>1 DEF StartTask, Inv, TypeOK
    <2>3. /\ u \in Usage /\ usage[p].calls <= u.calls
          /\ u.calls <= MaxCalls - 1 + Slots
          /\ u.tokens <= MaxTokens - 1 + Slots * MaxCost
        <3>1. CASE u = usage[p]
            <4>1. 0 * MaxCost = 0
                OBVIOUS
            <4> QED  BY <1>0, <2>1, <3>1, <4>1 DEF Inv, CallsCommitted, TokensCommitted, Usage
        <3>2. CASE u = Merged(usage[p])
            <4>1. 0 * MaxCost = 0
                OBVIOUS
            <4> QED  BY <1>0, <2>1, <3>2, <4>1, MergedBounds
                     DEF Inv, CallsCommitted, TokensCommitted, Usage
        <3> QED  BY <2>2, <3>1, <3>2
    <2>4. TypeOK'
        BY <1>1, <2>2, <2>3 DEF StartTask, Inv, TypeOK
    <2>5. Pending(p)' = 0 /\ Pending(p)' * MaxCost = 0
        BY <1>1, <2>1 DEF StartTask, Pending
    <2>6. usage'[p] = u /\ answered'[p] = answered[p] /\ redis' = redis
        BY <1>1, <2>2 DEF StartTask, Inv, TypeOK
    <2>7. answered'[p] <= usage'[p].calls
        BY <2>1, <2>3, <2>6 DEF Inv, EveryAnswerIsCharged, TypeOK, Usage
    <2>8. /\ phase'[p] = "task"
          /\ \A q \in Process \ {p} : phase'[q] = phase[q] /\ usage'[q] = usage[q]
                /\ inFlight'[q] = inFlight[q] /\ answered'[q] = answered[q]
        BY <1>1, <2>2 DEF StartTask, Inv, TypeOK
    <2>9. /\ u.calls \in Nat /\ u.tokens \in Nat
          /\ redis'.calls <= MaxCalls - 1 + Slots
          /\ redis'.tokens <= MaxTokens - 1 + Slots * MaxCost
        BY <2>3, <2>6 DEF Inv, CallsCommitted, TokensCommitted, Usage
    <2> QED  BY <1>0, <2>3, <2>4, <2>5, <2>6, <2>7, <2>8, <2>9, OneProcessStep
<1>2. ASSUME NEW p \in Process, NEW t \in Thread, Check(p, t)
      PROVE  Inv'
    <2>1. /\ usage[p] \in Usage /\ usage[p].calls <= MaxCalls - 1
          /\ usage[p].tokens <= MaxTokens - 1
        BY <1>2 DEF Check, WithinBudget, Inv, TypeOK, Usage
    <2>2. inFlight'[p] \in SUBSET Thread
        BY <1>2 DEF Check, Inv, TypeOK
    <2>3. Pending(p)' \in Nat /\ Pending(p)' <= Slots /\ Pending(p)' * MaxCost \in Nat
          /\ Pending(p)' * MaxCost <= Slots * MaxCost
        BY <1>0, <2>2, PendingBound, TimesType, TimesMonotone DEF Pending
    <2>4. TypeOK'
        BY <1>2 DEF Check, Inv, TypeOK
    <2>5. /\ phase'[p] = "task" /\ UNCHANGED <<usage, redis, answered, phase>>
          /\ \A q \in Process \ {p} : inFlight'[q] = inFlight[q]
        BY <1>2 DEF Check, Inv, TypeOK
    <2>6. /\ usage'[p].calls + Pending(p)' <= MaxCalls - 1 + Slots
          /\ usage'[p].tokens + Pending(p)' * MaxCost <= MaxTokens - 1 + Slots * MaxCost
        BY <1>0, <2>1, <2>3, <2>5 DEF Usage
    <2>7. /\ redis'.calls <= MaxCalls - 1 + Slots
          /\ redis'.tokens <= MaxTokens - 1 + Slots * MaxCost
          /\ answered'[p] <= usage'[p].calls
        BY <2>5 DEF Inv, CallsCommitted, TokensCommitted, EveryAnswerIsCharged
    <2> QED  BY <2>4, <2>5, <2>6, <2>7, OneProcessStep
<1>3. ASSUME NEW p \in Process, NEW t \in Thread, Record(p, t) \/ CallFails(p, t)
      PROVE  Inv'
    <2>1. PICK charged \in {0, 1}, cost \in 0..MaxCost :
            /\ charged = 0 => cost = 0
            /\ usage' = [usage EXCEPT ![p] = [calls |-> usage[p].calls + charged,
                                              tokens |-> usage[p].tokens + cost]]
            /\ answered' = [answered EXCEPT ![p] = @ + charged]
        <3>1. CASE Record(p, t)
            <4>1. PICK cost \in 0..MaxCost :
                    usage' = [usage EXCEPT ![p] = [calls |-> usage[p].calls + 1,
                                                   tokens |-> usage[p].tokens + cost]]
                BY <3>1 DEF Record
            <4>2. answered' = [answered EXCEPT ![p] = @ + 1]
                BY <3>1 DEF Record
            <4>3. 1 \in {0, 1} /\ (1 = 0 => cost = 0)
                OBVIOUS
            <4> QED  BY <4>1, <4>2, <4>3
        <3>2. CASE CallFails(p, t)
            <4>1. usage[p] = [calls |-> usage[p].calls + 0, tokens |-> usage[p].tokens + 0]
                BY DEF Inv, TypeOK, Usage
            <4>2. answered[p] = answered[p] + 0
                BY DEF Inv, TypeOK
            <4>3. /\ usage' = [usage EXCEPT ![p] = [calls |-> usage[p].calls + 0,
                                                    tokens |-> usage[p].tokens + 0]]
                  /\ answered' = [answered EXCEPT ![p] = @ + 0]
                BY <3>2, <4>1, <4>2 DEF CallFails, Inv, TypeOK
            <4>4. 0 \in 0..MaxCost
                OBVIOUS
            <4> QED  BY <4>3, <4>4
        <3> QED  BY <1>3, <3>1, <3>2
    <2>2. /\ t \in inFlight[p] /\ inFlight' = [inFlight EXCEPT ![p] = @ \ {t}]
          /\ UNCHANGED <<phase, redis>>
        BY <1>3 DEF Record, CallFails
    <2>3. inFlight[p] \in SUBSET Thread /\ inFlight'[p] = inFlight[p] \ {t}
        BY <2>2 DEF Inv, TypeOK
    <2>4. Pending(p)' = Pending(p) - 1 /\ Pending(p) # 0 /\ Pending(p) \in Nat
        <3>1. IsFiniteSet(inFlight[p]) /\ inFlight[p] # {}
            BY <2>2, <2>3, PendingBound
        <3>2. Cardinality(inFlight[p] \ {t}) = Cardinality(inFlight[p]) - 1
            BY <2>2, <3>1, FS_RemoveElement
        <3> QED  BY <1>0, <2>3, <3>1, <3>2, FS_EmptySet DEF Pending
    <2>5. Pending(p)' * MaxCost = Pending(p) * MaxCost - MaxCost
        BY <2>4, TimesStep
    <2>6. usage[p] \in Usage /\ answered[p] \in Nat
          /\ usage'[p] = [calls |-> usage[p].calls + charged, tokens |-> usage[p].tokens + cost]
          /\ answered'[p] = answered[p] + charged
        BY <2>1 DEF Inv, TypeOK
    <2>7. TypeOK'
        BY <2>1, <2>2, <2>6 DEF Inv, TypeOK, Usage
    <2>8. /\ usage'[p].calls + Pending(p)' <= MaxCalls - 1 + Slots
          /\ answered'[p] <= usage'[p].calls
        BY <1>0, <2>4, <2>6 DEF Inv, CallsCommitted, EveryAnswerIsCharged, Usage
    <2>9. usage'[p].tokens + Pending(p)' * MaxCost <= MaxTokens - 1 + Slots * MaxCost
        BY <1>0, <2>5, <2>6 DEF Inv, TokensCommitted, Usage
    <2>10. /\ redis'.calls <= MaxCalls - 1 + Slots
           /\ redis'.tokens <= MaxTokens - 1 + Slots * MaxCost
        BY <2>2 DEF Inv, CallsCommitted, TokensCommitted
    <2>11. phase'[p] # "task" => inFlight'[p] = {}
        BY <2>2, <2>3 DEF Inv, RestMeansQuiet
    <2>12. \A q \in Process \ {p} : /\ phase'[q] = phase[q] /\ usage'[q] = usage[q]
                                    /\ inFlight'[q] = inFlight[q]
                                    /\ answered'[q] = answered[q]
        BY <2>1, <2>2 DEF Inv, TypeOK
    <2> QED  BY <2>7, <2>8, <2>9, <2>10, <2>11, <2>12, OneProcessStep
<1>4. ASSUME NEW p \in Process, Persist(p) \/ EndUnsaved(p)
      PROVE  Inv'
    <2>1. /\ inFlight[p] = {} /\ UNCHANGED <<usage, inFlight, answered>>
          /\ redis' \in {redis, usage[p]}
          /\ phase' \in {[phase EXCEPT ![p] = "saved"], [phase EXCEPT ![p] = "idle"]}
        BY <1>4 DEF Persist, EndUnsaved
    <2>2. Pending(p) = 0 /\ Pending(p)' = Pending(p)
        BY <2>1, FS_EmptySet DEF Pending
    <2>3. TypeOK'
        BY <2>1 DEF Inv, TypeOK
    <2>4. /\ usage[p] \in Usage
          /\ usage[p].calls + Pending(p) <= MaxCalls - 1 + Slots
          /\ usage[p].tokens + Pending(p) * MaxCost <= MaxTokens - 1 + Slots * MaxCost
          /\ Pending(p) * MaxCost = 0
        BY <2>2 DEF Inv, TypeOK, CallsCommitted, TokensCommitted
    <2>5. /\ redis'.calls <= MaxCalls - 1 + Slots
          /\ redis'.tokens <= MaxTokens - 1 + Slots * MaxCost
        BY <1>0, <2>1, <2>2, <2>4 DEF Inv, CallsCommitted, TokensCommitted, Usage
    <2>6. answered'[p] <= usage'[p].calls
        BY <2>1 DEF Inv, EveryAnswerIsCharged
    <2>7. \A q \in Process \ {p} : phase'[q] = phase[q]
        BY <2>1 DEF Inv, TypeOK
    <2> QED  BY <2>1, <2>2, <2>3, <2>4, <2>5, <2>6, <2>7, OneProcessStep
<1>5. ASSUME NEW p \in Process, Crash(p)
      PROVE  Inv'
    <2>1. /\ usage'[p] = NoUsage /\ inFlight'[p] = {} /\ answered'[p] = 0 /\ UNCHANGED redis
          /\ \A q \in Process \ {p} : /\ phase'[q] = phase[q] /\ usage'[q] = usage[q]
                                      /\ inFlight'[q] = inFlight[q]
                                      /\ answered'[q] = answered[q]
        BY <1>5 DEF Crash, Inv, TypeOK
    <2>2. TypeOK'
        BY <1>5 DEF Crash, Inv, TypeOK, NoUsage, Usage
    <2>3. Pending(p)' = 0 /\ Pending(p)' * MaxCost = 0
        BY <2>1, FS_EmptySet DEF Pending
    <2>4. /\ usage'[p].calls + Pending(p)' <= MaxCalls - 1 + Slots
          /\ usage'[p].tokens + Pending(p)' * MaxCost <= MaxTokens - 1 + Slots * MaxCost
          /\ answered'[p] <= usage'[p].calls
        BY <1>0, <2>1, <2>3 DEF NoUsage
    <2>5. /\ redis'.calls <= MaxCalls - 1 + Slots
          /\ redis'.tokens <= MaxTokens - 1 + Slots * MaxCost
        BY <2>1 DEF Inv, CallsCommitted, TokensCommitted
    <2> QED  BY <2>1, <2>2, <2>4, <2>5, OneProcessStep
<1>6. CASE UNCHANGED vars
    BY <1>6 DEF vars, Inv, TypeOK, RestMeansQuiet, CallsCommitted, TokensCommitted,
                EveryAnswerIsCharged, Pending, Slots
<1> QED  BY <1>1, <1>2, <1>3, <1>4, <1>5, <1>6 DEF Next

\* The strengthened invariant holds in every reachable state.
THEOREM Invariance == Spec => []Inv
<1> QED  BY InitInv, NextInv, PTL DEF Spec

\* The counters keep their types; in particular no counter is ever negative.
THEOREM TypeCorrect == Spec => []TypeOK
<1>1. Inv => TypeOK
    BY DEF Inv
<1> QED  BY <1>1, Invariance, PTL

\* check_budget and record_usage are two critical sections, and still no
\* counter passes the limit by as many calls as there are threads.
THEOREM CallsOvershootBounded == Spec => []CallsOvershoot
<1>1. ASSUME Inv
      PROVE  CallsOvershoot
    <2>1. \A p \in Process : usage[p].calls \in Nat /\ Pending(p) \in Nat
        BY <1>1, PendingBound DEF Inv, TypeOK, Usage, Pending
    <2>2. Slots \in Nat /\ MaxCalls \in Nat
        BY PendingBound, BudgetAssumption
    <2> QED  BY <1>1, <2>1, <2>2 DEF Inv, CallsCommitted, CallsOvershoot, Slots
<1> QED  BY <1>1, Invariance, PTL

\* The tokens pass their limit by at most one answer per thread.
THEOREM TokensOvershootBounded == Spec => []TokensOvershoot
<1>1. ASSUME Inv
      PROVE  TokensOvershoot
    <2>1. Slots \in Nat /\ MaxCost \in Nat /\ MaxTokens \in Nat /\ Slots * MaxCost \in Nat
        BY PendingBound, BudgetAssumption, TimesType
    <2>2. ASSUME NEW p \in Process
          PROVE  usage[p].tokens <= MaxTokens - 1 + Slots * MaxCost
        <3>1. usage[p].tokens \in Nat /\ Pending(p) \in Nat
            BY <1>1, PendingBound DEF Inv, TypeOK, Usage, Pending
        <3>2. Pending(p) * MaxCost \in Nat
            BY <2>1, <3>1, TimesType
        <3> QED  BY <1>1, <2>1, <3>1, <3>2 DEF Inv, TokensCommitted
    <2> QED  BY <1>1, <2>2 DEF Inv, TokensCommitted, TokensOvershoot, Slots
<1> QED  BY <1>1, Invariance, PTL

\* Neither the merge with Redis nor a failed task takes an answered call out
\* of a process's baseline.
THEOREM AnswersStayCharged == Spec => []EveryAnswerIsCharged
<1>1. Inv => EveryAnswerIsCharged
    BY DEF Inv
<1> QED  BY <1>1, Invariance, PTL
=============================================================================
