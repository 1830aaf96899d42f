------------------------------- MODULE LlmCall -------------------------------
(***************************************************************************)
(* Calls to the model in one worker process, from chat_completion to the   *)
(* provider's answer: the registry of providers, which the first call      *)
(* fills, the configuration, reloaded when its file changes, the semaphore *)
(* that is replaced when the configured limit changes, the event loop that *)
(* runs the requests, and the retries of the providers.                    *)
(*                                                                         *)
(* Only the replacement of the semaphore and the creation of the loop are  *)
(* done under a lock, so a step is one read or write of a module variable. *)
(***************************************************************************)
EXTENDS Naturals, Sequences, FiniteSets, SequencesExt

CONSTANTS
    Thread,       \* threads of the process that call chat_completion
    Content,      \* what solidguard.json may hold
    Loadable,     \* the contents load_config accepts
    Name,         \* names of providers
    LimitOf,      \* app.maxConcurrentCalls of a loadable content
    ProvidersOf,  \* its providers with a known api, in the order of the file
    Gone,         \* there is no such file
    Nothing,      \* None, in any variable
    MaxAttempts,  \* stop_after_attempt in llm_retry
    MaxCalls,     \* bound: calls of one thread
    MaxEdits      \* bound: changes of the file

Default == "default"

ASSUME LlmCallAssumption ==
    /\ IsFiniteSet(Thread)
    /\ Loadable \subseteq Content
    /\ LimitOf \in [Loadable -> Nat \ {0}]
    /\ ProvidersOf \in [Loadable -> Seq(Name)]
    /\ Default \in Name
    /\ Gone \notin Content
    /\ Nothing \notin Content \cup Thread
    /\ MaxAttempts \in Nat \ {0} /\ MaxCalls \in Nat /\ MaxEdits \in Nat

VARIABLES
    file,        \* the configuration file: content and modification time
    config,      \* _config_instance
    configTime,  \* _config_mtime
    registries,  \* every ProviderRegistry created: the names registered so far
    registry,    \* _provider_registry_instance, an index of registries
    semaphores,  \* every semaphore created: its limit and the slots in use
    current,     \* _llm_semaphore, an index of semaphores
    limit,       \* _llm_semaphore_limit
    lock,        \* holder of _semaphore_lock
    loop,        \* _loop: not created, created, or run by its thread
    call,        \* per thread: where it is, and its local variables
    made,        \* calls a thread has begun
    settled      \* history: since the call began every call without its
                 \* semaphore is one that began after the last edit

configVars == <<config, configTime>>
registryVars == <<registries, registry>>
gateVars == <<semaphores, current, limit, lock>>
historyVars == <<made, settled>>
vars == <<file, configVars, registryVars, gateVars, loop, call, historyVars>>

-----------------------------------------------------------------------------
\* In the registry, in get_config, or at the semaphore.
Approaching == {"registry", "publish", "register", "fill", "found", "provider", "stat", "compare",
                "load", "store", "stamp", "return", "check", "locked", "limit", "take", "acquire"}
Inside == {"loop", "start", "request"}

\* The local variables of chat_completion and of what it calls; site is where
\* get_config returns to, mine the registry a thread works on, round the next
\* provider to register.
Idle == [at |-> "idle", site |-> "check", seen |-> 0, view |-> Nothing, mine |-> 0,
         round |-> 1, provider |-> Nothing, gate |-> 0, attempt |-> 0]

At(t, place) == call[t].at = place

Goes(t, from, to) == At(t, from) /\ call' = [call EXCEPT ![t].at = to]

\* chat_completion returns or raises; what its caller makes of that is not
\* modelled here.
Ends(t) == call' = [call EXCEPT ![t] = Idle]

InFlight == {t \in Thread : call[t].at \in Inside}

Init ==
    /\ file \in [content : Content \cup {Gone}, time : {1}]
    /\ config = Nothing /\ configTime = 0
    /\ registries = <<>> /\ registry = 0
    /\ semaphores = <<>> /\ current = 0 /\ limit = 0 /\ lock = Nothing
    /\ loop = "none"
    /\ call = [t \in Thread |-> Idle]
    /\ made = [t \in Thread |-> 0]
    /\ settled = [t \in Thread |-> FALSE]

\* The operator changes the file, removes it, or leaves it half written.
Edit(c) ==
    /\ file.time <= MaxEdits
    /\ c # file.content
    /\ file' = [content |-> c, time |-> file.time + 1]
    /\ settled' = [t \in Thread |-> FALSE]
    /\ UNCHANGED <<configVars, registryVars, gateVars, loop, call, made>>

Begin(t) ==
    /\ made[t] < MaxCalls
    /\ Goes(t, "idle", "registry")
    /\ made' = [made EXCEPT ![t] = @ + 1]
    /\ settled' = [settled EXCEPT ![t] =
                     \A u \in Thread : call[u].at \in Approaching => settled[u]]
    /\ UNCHANGED <<file, configVars, registryVars, gateVars, loop>>

-----------------------------------------------------------------------------
(* The registry of providers *)

FindRegistry(t) ==
    /\ Goes(t, "registry", IF registry = 0 THEN "publish" ELSE "found")
    /\ UNCHANGED <<file, configVars, registryVars, gateVars, loop, historyVars>>

\* The empty registry is visible to every thread before it is filled, and stays
\* when the configuration cannot be loaded.
PublishRegistry(t) ==
    /\ At(t, "publish")
    /\ registries' = Append(registries, <<>>)
    /\ registry' = Len(registries) + 1
    /\ call' = [call EXCEPT ![t].at = "stat", ![t].site = "register"]
    /\ UNCHANGED <<file, configVars, gateVars, loop, historyVars>>

\* It is the registry of the moment that is filled, not the one this thread made.
RegisterFrom(t) ==
    /\ At(t, "register")
    /\ call' = [call EXCEPT ![t].at = "fill", ![t].mine = registry]
    /\ UNCHANGED <<file, configVars, registryVars, gateVars, loop, historyVars>>

\* One round of the loop in register_from_config, or its end.
RegisterNext(t) ==
    LET names == ProvidersOf[call[t].view]
        n == call[t].round
    IN  /\ At(t, "fill")
        /\ \/ /\ n <= Len(names)
              /\ registries' = [registries EXCEPT ![call[t].mine] =
                                  IF Contains(@, names[n]) THEN @ ELSE Append(@, names[n])]
              /\ call' = [call EXCEPT ![t].round = n + 1]
           \/ /\ n > Len(names)
              /\ call' = [call EXCEPT ![t].at = "found"]
              /\ UNCHANGED registries
        /\ UNCHANGED <<file, configVars, registry, gateVars, loop, historyVars>>

ReturnRegistry(t) ==
    /\ At(t, "found")
    /\ call' = [call EXCEPT ![t].at = "provider", ![t].mine = registry]
    /\ UNCHANGED <<file, configVars, registryVars, gateVars, loop, historyVars>>

\* ProviderRegistry.get without a name: the provider named default, or the one
\* registered first.
DefaultOf(names) == IF Contains(names, Default) THEN Default ELSE Head(names)

GetProvider(t) ==
    LET names == registries[call[t].mine]
    IN  /\ At(t, "provider")
        /\ IF names = <<>>
           THEN Ends(t)
           ELSE call' = [call EXCEPT ![t].at = "stat", ![t].site = "check",
                                     ![t].provider = DefaultOf(names)]
        /\ UNCHANGED <<file, configVars, registryVars, gateVars, loop, historyVars>>

-----------------------------------------------------------------------------
(* get_config *)

\* Without a file the cached instance is used.
StatMissing(t) ==
    /\ file.content = Gone
    /\ At(t, "stat")
    /\ IF config = Nothing THEN Ends(t) ELSE Goes(t, "stat", "return")
    /\ UNCHANGED <<file, configVars, registryVars, gateVars, loop, historyVars>>

Stat(t) ==
    /\ file.content # Gone
    /\ At(t, "stat")
    /\ call' = [call EXCEPT ![t].at = "compare", ![t].seen = file.time]
    /\ UNCHANGED <<file, configVars, registryVars, gateVars, loop, historyVars>>

OutOfDate(t) == config = Nothing \/ call[t].seen # configTime

\* Two reads of module variables in one step: once there is an instance, there
\* is one for good.
Compare(t) ==
    /\ Goes(t, "compare", IF OutOfDate(t) THEN "load" ELSE "return")
    /\ UNCHANGED <<file, configVars, registryVars, gateVars, loop, historyVars>>

\* A missing file, invalid JSON, an unset environment variable or a value of the
\* wrong type raises, and the cached instance stays.
Load(t) ==
    /\ At(t, "load")
    /\ IF file.content \in Loadable
       THEN call' = [call EXCEPT ![t].at = "store", ![t].view = file.content]
       ELSE Ends(t)
    /\ UNCHANGED <<file, configVars, registryVars, gateVars, loop, historyVars>>

StoreConfig(t) ==
    /\ Goes(t, "store", "stamp")
    /\ config' = call[t].view
    /\ UNCHANGED <<file, configTime, registryVars, gateVars, loop, historyVars>>

StampConfig(t) ==
    /\ Goes(t, "stamp", "return")
    /\ configTime' = call[t].seen
    /\ UNCHANGED <<file, config, registryVars, gateVars, loop, historyVars>>

\* What is returned is the instance of the moment, not the one just loaded.
ReturnConfig(t) ==
    /\ At(t, "return")
    /\ call' = [call EXCEPT ![t].at = call[t].site, ![t].view = config]
    /\ UNCHANGED <<file, configVars, registryVars, gateVars, loop, historyVars>>

-----------------------------------------------------------------------------
(* The semaphore *)

Wanted(t) == LimitOf[call[t].view]

NeedsSemaphore(t) == current = 0 \/ Wanted(t) # limit

CheckLimit(t) ==
    /\ Goes(t, "check", IF NeedsSemaphore(t) THEN "locked" ELSE "take")
    /\ UNCHANGED <<file, configVars, registryVars, gateVars, loop, historyVars>>

\* Mutant: the condition is not tested again once the lock is held.
NoSecondLook(t) == TRUE

\* The second test, with the lock held.
SecondLook(t) == NeedsSemaphore(t)

FoundByOther(t) ==
    /\ Goes(t, "locked", "take")
    /\ lock = Nothing
    /\ ~SecondLook(t)
    /\ UNCHANGED <<file, configVars, registryVars, gateVars, loop, historyVars>>

\* Mutant: the lock is given back before the limit is written.
UnlocksEarly(t) ==
    /\ Goes(t, "locked", "limit")
    /\ lock = Nothing
    /\ SecondLook(t)
    /\ semaphores' = Append(semaphores, [limit |-> Wanted(t), used |-> 0])
    /\ current' = Len(semaphores) + 1
    /\ UNCHANGED <<file, configVars, registryVars, limit, lock, loop, historyVars>>

CreateSemaphore(t) ==
    /\ Goes(t, "locked", "limit")
    /\ lock = Nothing
    /\ SecondLook(t)
    /\ lock' = t
    /\ semaphores' = Append(semaphores, [limit |-> Wanted(t), used |-> 0])
    /\ current' = Len(semaphores) + 1
    /\ UNCHANGED <<file, configVars, registryVars, limit, loop, historyVars>>

SetLimit(t) ==
    /\ Goes(t, "limit", "take")
    /\ limit' = Wanted(t)
    /\ lock' = Nothing
    /\ UNCHANGED <<file, configVars, registryVars, semaphores, current, loop, historyVars>>

Take(t) ==
    /\ At(t, "take")
    /\ call' = [call EXCEPT ![t].at = "acquire", ![t].gate = current]
    /\ UNCHANGED <<file, configVars, registryVars, gateVars, loop, historyVars>>

\* Mutant: the semaphore is looked up but not entered.
IgnoresLimit(t) ==
    LET gate == call[t].gate
    IN  /\ Goes(t, "acquire", "loop")
        /\ semaphores' = [semaphores EXCEPT ![gate].used = @ + 1]
        /\ UNCHANGED <<file, configVars, registryVars, current, limit, lock, loop, historyVars>>

Acquire(t) ==
    LET gate == call[t].gate
    IN  /\ Goes(t, "acquire", "loop")
        /\ semaphores[gate].used < semaphores[gate].limit
        /\ semaphores' = [semaphores EXCEPT ![gate].used = @ + 1]
        /\ UNCHANGED <<file, configVars, registryVars, current, limit, lock, loop, historyVars>>

Release(t) == semaphores' = [semaphores EXCEPT ![call[t].gate].used = @ - 1]

-----------------------------------------------------------------------------
(* The event loop and the request *)

\* The test and the creation are one step: they are done under _loop_lock.
GetLoop(t) ==
    /\ At(t, "loop")
    /\ loop' = IF loop = "none" THEN "created" ELSE loop
    /\ call' = [call EXCEPT ![t].at = IF loop = "none" THEN "start" ELSE "request",
                            ![t].attempt = 1]
    /\ UNCHANGED <<file, configVars, registryVars, gateVars, historyVars>>

StartLoop(t) ==
    /\ Goes(t, "start", "request")
    /\ loop' = "running"
    /\ UNCHANGED <<file, configVars, registryVars, gateVars, historyVars>>

\* A refused connection, a read timeout, 429 or 5xx: the slot is kept meanwhile.
Retry(t) ==
    /\ At(t, "request") /\ loop = "running"
    /\ call[t].attempt < MaxAttempts
    /\ call' = [call EXCEPT ![t].attempt = @ + 1]
    /\ UNCHANGED <<file, configVars, registryVars, gateVars, loop, historyVars>>

\* Mutant: the slot is given back after an answer only.
KeepsSlot(t) ==
    /\ At(t, "request") /\ loop = "running"
    /\ Release(t) \/ UNCHANGED semaphores
    /\ Ends(t)
    /\ UNCHANGED <<file, configVars, registryVars, current, limit, lock, loop, historyVars>>

\* An answer; or the last attempt fails like the others; or one fails for good:
\* another status, another error, a body without an answer.
Finish(t) ==
    /\ At(t, "request") /\ loop = "running"
    /\ Release(t)
    /\ Ends(t)
    /\ UNCHANGED <<file, configVars, registryVars, current, limit, lock, loop, historyVars>>

-----------------------------------------------------------------------------
Registering(t) ==
    FindRegistry(t) \/ PublishRegistry(t) \/ RegisterFrom(t) \/ RegisterNext(t)
    \/ ReturnRegistry(t) \/ GetProvider(t)

Configuring(t) ==
    StatMissing(t) \/ Stat(t) \/ Compare(t) \/ Load(t)
    \/ StoreConfig(t) \/ StampConfig(t) \/ ReturnConfig(t)

Entering(t) ==
    CheckLimit(t) \/ FoundByOther(t) \/ CreateSemaphore(t) \/ SetLimit(t) \/ Take(t) \/ Acquire(t)

Requesting(t) == GetLoop(t) \/ StartLoop(t) \/ Retry(t) \/ Finish(t)

CallStep(t) == Registering(t) \/ Configuring(t) \/ Entering(t) \/ Requesting(t)

Next ==
    \/ \E c \in Content \cup {Gone} : Edit(c)
    \/ \E t \in Thread : Begin(t) \/ CallStep(t)

Spec == Init /\ [][Next]_vars

\* Threads are scheduled and the HTTP clients have timeouts; nobody has to begin
\* a call or to touch the file.
FairSpec == Spec /\ \A t \in Thread : WF_vars(CallStep(t))

-----------------------------------------------------------------------------
(* Properties *)

\* Every variable has its type; no semaphore hands out more slots than it has.
TypeOK ==
    /\ file \in [content : Content \cup {Gone}, time : Nat]
    /\ config \in Loadable \cup {Nothing} /\ configTime \in Nat
    /\ registries \in Seq(Seq(Name)) /\ registry \in 0 .. Len(registries)
    /\ \A i \in 1 .. Len(semaphores) :
          /\ semaphores[i].limit \in Nat \ {0}
          /\ semaphores[i].used \in 0 .. semaphores[i].limit
    /\ current \in 0 .. Len(semaphores) /\ limit \in Nat
    /\ lock \in Thread \cup {Nothing}
    /\ loop \in {"none", "created", "running"}
    /\ \A t \in Thread :
          /\ call[t].at \in Approaching \cup Inside \cup {"idle"}
          /\ call[t].gate \in 0 .. Len(semaphores)
          /\ call[t].mine \in 0 .. Len(registries)
          /\ call[t].attempt \in 0 .. MaxAttempts

\* A limit takes over for good: once every call from before the last change of
\* the file has its semaphore, the calls that begin from then on share one
\* semaphore, so no more of them are under way than its limit allows
\* (_get_semaphore, whose reads of configuration, semaphore and limit race with
\* the threads that write them).
LimitRestored ==
    LET late == {t \in InFlight : settled[t]}
    IN  \A t \in late : Cardinality(late) <= semaphores[call[t].gate].limit

\* The semaphore in use has the limit it is compared by: if it had not, a
\* changed limit would go unnoticed (_get_semaphore writes the two one after
\* the other, and reads them without the lock).
LimitDescribesGate ==
    current # 0 /\ lock = Nothing => limit = semaphores[current].limit

\* Every call ends: none waits for a slot, a lock or the event loop for ever
\* (chat_completion; the slots are given back on every way out).
EveryCallEnds == \A t \in Thread : call[t].at # "idle" ~> call[t].at = "idle"

\* A change of the provider takes effect at once: a call that begins after the
\* last edit asks the default provider of the file (README: changes of the
\* provider need no restart; get_provider_registry keeps what it loaded first).
ProviderIsCurrent ==
    \A t \in Thread : call[t].at = "request" /\ settled[t] /\ file.content \in Loadable =>
        call[t].provider = DefaultOf(ProvidersOf[file.content])
=============================================================================
