--------------------------- MODULE LlmCall_proofs ---------------------------
(***************************************************************************)
(* The limit on calls to the model, for any number of threads and calls    *)
(* and any sequence of changes of the configuration.                       *)
(***************************************************************************)
EXTENDS LlmCall, FiniteSetTheorems, TLAPS

Places == Approaching \cup Inside \cup {"idle"}

CallRecord ==
    [at : Places, site : {"check", "register"}, seen : Nat, view : Loadable \cup {Nothing},
     mine : Nat, round : Nat \ {0}, provider : Name \cup {Nothing}, gate : Nat,
     attempt : 0 .. MaxAttempts]

Semaphore == [limit : Nat \ {0}, used : Nat]

Typed ==
    /\ file \in [content : Content \cup {Gone}, time : Nat]
    /\ config \in Loadable \cup {Nothing} /\ configTime \in Nat
    /\ registries \in Seq(Seq(Name)) /\ registry \in 0 .. Len(registries)
    /\ semaphores \in Seq(Semaphore)
    /\ current \in 0 .. Len(semaphores) /\ limit \in Nat
    /\ lock \in Thread \cup {Nothing}
    /\ loop \in {"none", "created", "running"}
    /\ call \in [Thread -> CallRecord]

(***************************************************************************)
(* What a thread may rely on at each place: a configuration that loaded,   *)
(* a registry, a semaphore.  None of the module variables it comes from    *)
(* goes back to None.                                                      *)
(***************************************************************************)
InGetConfig == {"stat", "compare", "load", "store", "stamp", "return"}

Knows(t) ==
    LET c == call[t] IN
    /\ c.at \in {"store", "register", "fill", "check", "locked", "limit"} => c.view \in Loadable
    /\ c.at \in {"stamp", "return"} => config # Nothing
    /\ c.at \in {"register", "fill", "found"} => registry # 0
    /\ c.at \in InGetConfig /\ c.site = "register" => registry # 0
    /\ c.at \in {"fill", "provider"} => c.mine # 0
    /\ c.at \in {"limit", "take"} => current # 0
    /\ c.at \in {"acquire"} \cup Inside => c.gate # 0
    /\ c.gate <= Len(semaphores) /\ c.mine <= Len(registries)

Holders(i) == {t \in Thread : call[t].at \in Inside /\ call[t].gate = i}

\* A slot is in use for each call that entered through the semaphore.
SlotsHeld ==
    \A i \in 1 .. Len(semaphores) :
        /\ semaphores[i].used = Cardinality(Holders(i))
        /\ semaphores[i].used <= semaphores[i].limit

\* Who has created a semaphore and not yet written its limit has the lock.
LockHeld ==
    \A t \in Thread :
        /\ call[t].at = "limit" <=> lock = t
        /\ call[t].at = "limit" => semaphores[current].limit = LimitOf[call[t].view]

Inv == Typed /\ (\A t \in Thread : Knows(t)) /\ SlotsHeld /\ LockHeld /\ LimitDescribesGate

-----------------------------------------------------------------------------
(* Steps of one thread *)

\* A thread that moves on keeps its local variables.
LEMMA GoesOn ==
    ASSUME Typed, NEW t \in Thread, NEW from, NEW to \in Places, Goes(t, from, to)
    PROVE  /\ call' \in [Thread -> CallRecord]
           /\ \A u \in Thread \ {t} : call'[u] = call[u]
           /\ call[t] \in CallRecord /\ call[t].at = from
           /\ call'[t] = [call[t] EXCEPT !.at = to]
<1>1. call[t] \in CallRecord /\ call[t].at = from
    BY DEF Typed, Goes, At
<1>2. [call[t] EXCEPT !.at = to] \in CallRecord
    BY <1>1 DEF CallRecord
<1>3. call' = [call EXCEPT ![t] = [call[t] EXCEPT !.at = to]]
    BY DEF Goes
<1> QED
    BY <1>1, <1>2, <1>3 DEF Typed

LEMMA CallOver ==
    ASSUME Typed, NEW t \in Thread, Ends(t)
    PROVE  /\ call' \in [Thread -> CallRecord]
           /\ \A u \in Thread \ {t} : call'[u] = call[u]
           /\ call'[t] = Idle
<1>1. Idle \in CallRecord
    BY LlmCallAssumption DEF Idle, CallRecord, Places
<1> QED
    BY <1>1 DEF Ends, Typed

\* What the other threads rely on is not taken away.
LEMMA OthersKnow ==
    ASSUME Inv, NEW t \in Thread,
           \A u \in Thread \ {t} : call'[u] = call[u],
           Knows(t)',
           config # Nothing => config' # Nothing,
           registry # 0 => registry' # 0,
           current # 0 => current' # 0,
           Len(semaphores) \in Nat, Len(semaphores') \in Nat,
           Len(registries) \in Nat, Len(registries') \in Nat,
           Len(semaphores) <= Len(semaphores'), Len(registries) <= Len(registries')
    PROVE  \A u \in Thread : Knows(u)'
<1> SUFFICES ASSUME NEW u \in Thread \ {t} PROVE Knows(u)'
    OBVIOUS
<1>1. Knows(u) /\ call'[u] = call[u] /\ call[u] \in CallRecord
    BY DEF Inv, Typed
<1>2. call[u].gate \in Nat /\ call[u].mine \in Nat
    BY <1>1 DEF CallRecord
<1>3. call'[u].gate <= Len(semaphores') /\ call'[u].mine <= Len(registries')
    BY <1>1, <1>2 DEF Knows
<1> QED
    BY <1>1, <1>3 DEF Knows

\* Who does not enter or leave a semaphore leaves the holders as they are.
LEMMA HoldersStay ==
    ASSUME NEW t \in Thread,
           \A u \in Thread \ {t} : call'[u] = call[u],
           call[t].at \notin Inside, call'[t].at \notin Inside
    PROVE  \A i : {u \in Thread : call'[u].at \in Inside /\ call'[u].gate = i} = Holders(i)
    BY DEF Holders

\* A step away from the semaphore.
LEMMA AwayFromGate ==
    ASSUME Inv, NEW t \in Thread,
           \A u \in Thread \ {t} : call'[u] = call[u],
           call[t].at \notin Inside \cup {"limit"}, call'[t].at \notin Inside \cup {"limit"},
           UNCHANGED gateVars
    PROVE  SlotsHeld' /\ LockHeld' /\ LimitDescribesGate'
<1>1. UNCHANGED <<semaphores, current, limit, lock>>
    BY DEF gateVars
<1>2. \A i : {u \in Thread : call'[u].at \in Inside /\ call'[u].gate = i} = Holders(i)
    BY HoldersStay
<1>3. SlotsHeld'
    BY <1>1, <1>2 DEF Inv, SlotsHeld, Holders
<1>4. LockHeld'
    BY <1>1 DEF Inv, LockHeld
<1>5. LimitDescribesGate'
    BY <1>1 DEF Inv, LimitDescribesGate
<1> QED
    BY <1>3, <1>4, <1>5

LEMMA Lengths ==
    ASSUME Typed
    PROVE  Len(semaphores) \in Nat /\ Len(registries) \in Nat
    BY DEF Typed

\* A step in the registry or in get_config.
LEMMA ApproachStep ==
    ASSUME Inv, NEW t \in Thread, Typed', Knows(t)',
           \A u \in Thread \ {t} : call'[u] = call[u],
           call[t].at \notin Inside \cup {"limit"}, call'[t].at \notin Inside \cup {"limit"},
           UNCHANGED gateVars,
           config # Nothing => config' # Nothing,
           registry # 0 => registry' # 0,
           Len(registries) <= Len(registries')
    PROVE  Inv'
<1>1. SlotsHeld' /\ LockHeld' /\ LimitDescribesGate'
    BY AwayFromGate
<1>2. UNCHANGED <<semaphores, current>>
    BY DEF gateVars
<1>3. Len(semaphores) \in Nat /\ Len(registries) \in Nat /\ Len(registries') \in Nat
    BY Lengths DEF Inv, Typed
<1>4. \A u \in Thread : Knows(u)'
    BY <1>2, <1>3, OthersKnow
<1> QED
    BY <1>1, <1>4 DEF Inv

\* ... that leaves configuration and registry alone.
LEMMA QuietApproachStep ==
    ASSUME Inv, NEW t \in Thread, call' \in [Thread -> CallRecord], Knows(t)',
           \A u \in Thread \ {t} : call'[u] = call[u],
           call[t].at \notin Inside \cup {"limit"}, call'[t].at \notin Inside \cup {"limit"},
           UNCHANGED <<file, configVars, registryVars, gateVars, loop>>
    PROVE  Inv'
<1>1. UNCHANGED <<config, configTime, registries, registry, semaphores, current, limit, lock>>
    BY DEF configVars, registryVars, gateVars
<1>2. Typed'
    BY <1>1 DEF Inv, Typed
<1>3. Len(registries) <= Len(registries')
    BY <1>1, Lengths DEF Inv
<1> QED
    BY <1>1, <1>2, <1>3, ApproachStep

LEMMA IdleKnows ==
    ASSUME Typed', NEW t \in Thread, call'[t] = Idle
    PROVE  Knows(t)' /\ call'[t].at \notin Inside \cup {"limit"}
<1>1. Len(semaphores') \in Nat /\ Len(registries') \in Nat
    BY DEF Typed
<1> QED
    BY <1>1 DEF Knows, Idle, Inside, InGetConfig

-----------------------------------------------------------------------------
(* The registry of providers *)

LEMMA OneMoreName ==
    ASSUME NEW names \in Seq(Name), NEW name \in Name
    PROVE  (IF Contains(names, name) THEN names ELSE Append(names, name)) \in Seq(Name)
    OBVIOUS

LEMMA DefaultIsRegistered ==
    ASSUME NEW names \in Seq(Name), names # <<>>
    PROVE  DefaultOf(names) \in Name
<1>1. Head(names) \in Name
    <2>1. Len(names) # 0 /\ Len(names) \in Nat
        OBVIOUS
    <2>2. 1 \in 1 .. Len(names)
        BY <2>1
    <2> QED
        BY <2>2
<1> QED
    BY <1>1, LlmCallAssumption DEF DefaultOf

LEMMA RegisteringInv ==
    ASSUME Inv, NEW t \in Thread, Registering(t)
    PROVE  Inv'
<1> DEFINE c == call[t]
<1>0. /\ Typed /\ Knows(t) /\ c \in CallRecord
      /\ Len(registries) \in Nat /\ Len(semaphores) \in Nat
    BY Lengths DEF Inv, Typed
<1>1. CASE FindRegistry(t)
    <2> DEFINE to == IF registry = 0 THEN "publish" ELSE "found"
    <2>1. to \in Places /\ Goes(t, "registry", to)
        BY <1>1 DEF FindRegistry, Places, Approaching
    <2>2. /\ call' \in [Thread -> CallRecord] /\ \A u \in Thread \ {t} : call'[u] = call[u]
          /\ c.at = "registry" /\ call'[t] = [c EXCEPT !.at = to]
        BY <1>0, <2>1, GoesOn
    <2>3. UNCHANGED <<file, configVars, registryVars, gateVars, loop>>
        BY <1>1 DEF FindRegistry
    <2>4. Knows(t)'
        BY <1>0, <2>2, <2>3 DEF Knows, CallRecord, InGetConfig, Inside, registryVars, gateVars
    <2> QED
        BY <1>0, <2>2, <2>3, <2>4, QuietApproachStep DEF CallRecord, Inside
<1>2. CASE PublishRegistry(t)
    <2> DEFINE r == [c EXCEPT !.at = "stat", !.site = "register"]
    <2>1. /\ c.at = "publish" /\ call' = [call EXCEPT ![t] = r]
          /\ registries' = Append(registries, <<>>) /\ registry' = Len(registries) + 1
          /\ UNCHANGED <<file, configVars, gateVars, loop>>
        BY <1>0, <1>2 DEF PublishRegistry, At
    <2>2. r \in CallRecord
        BY <1>0 DEF CallRecord, Places, Approaching
    <2>3. /\ registries' \in Seq(Seq(Name)) /\ Len(registries') = Len(registries) + 1
          /\ registry' \in 0 .. Len(registries') /\ registry' # 0
        BY <1>0, <2>1 DEF Typed
    <2>4. Typed'
        BY <1>0, <2>1, <2>2, <2>3 DEF Typed, configVars, gateVars
    <2>5. call'[t] = r /\ \A u \in Thread \ {t} : call'[u] = call[u]
        BY <1>0, <2>1 DEF Typed
    <2>6. /\ r.at = "stat" /\ r.gate = c.gate /\ r.mine = c.mine
          /\ c.mine \in Nat /\ c.gate \in Nat
        BY <1>0 DEF CallRecord
    <2> HIDE DEF r
    <2>7. Knows(t)'
        BY <1>0, <2>1, <2>3, <2>5, <2>6 DEF Knows, InGetConfig, Inside, gateVars
    <2> QED
        <3>1. /\ Len(registries) <= Len(registries') /\ UNCHANGED <<config, gateVars>>
              /\ call[t].at \notin Inside \cup {"limit"} /\ call'[t].at \notin Inside \cup {"limit"}
            BY <1>0, <2>1, <2>3, <2>5, <2>6 DEF Inside, configVars
        <3> QED
            BY <2>3, <2>4, <2>5, <2>7, <3>1, ApproachStep
<1>3. CASE RegisterFrom(t)
    <2> DEFINE r == [c EXCEPT !.at = "fill", !.mine = registry]
    <2>1. /\ c.at = "register" /\ call' = [call EXCEPT ![t] = r]
          /\ UNCHANGED <<file, configVars, registryVars, gateVars, loop>>
        BY <1>0, <1>3 DEF RegisterFrom, At
    <2>2. r \in CallRecord /\ r.at = "fill" /\ r.mine = registry /\ r.gate = c.gate /\ r.view = c.view
        <3>1. registry \in Nat /\ c \in CallRecord
            BY <1>0 DEF Typed
        <3> QED
            BY <3>1 DEF CallRecord, Places, Approaching
    <2> HIDE DEF r
    <2>3. /\ call' \in [Thread -> CallRecord]
          /\ call'[t] = r /\ \A u \in Thread \ {t} : call'[u] = call[u]
        BY <1>0, <2>1, <2>2 DEF Typed
    <2>4. registry # 0 /\ registry <= Len(registries)
        BY <1>0, <2>1 DEF Knows, Typed
    <2>5. Knows(t)'
        BY <1>0, <2>1, <2>2, <2>3, <2>4 DEF Knows, InGetConfig, Inside, registryVars, gateVars
    <2> QED
        BY <2>1, <2>2, <2>3, <2>5, QuietApproachStep DEF Inside
<1>4. CASE RegisterNext(t)
    <2> DEFINE names == ProvidersOf[c.view]
               n == c.round
    <2>1. /\ c.at = "fill" /\ UNCHANGED <<file, configVars, registry, gateVars, loop>>
          /\ c.view \in Loadable /\ c.mine # 0 /\ c.mine \in 1 .. Len(registries)
        BY <1>0, <1>4 DEF RegisterNext, At, Knows, CallRecord
    <2>2. CASE n <= Len(names)
        <3> DEFINE r == [c EXCEPT !.round = n + 1]
        <3>1. /\ call' = [call EXCEPT ![t] = r]
              /\ registries' = [registries EXCEPT ![c.mine] =
                                  IF Contains(@, names[n]) THEN @ ELSE Append(@, names[n])]
            <4>1. names \in Seq(Name) /\ n \in Nat /\ Len(names) \in Nat
                BY <1>0, <2>1, LlmCallAssumption DEF CallRecord
            <4> QED
                BY <1>4, <2>2, <4>1 DEF RegisterNext
        <3>2. r \in CallRecord /\ r.at = "fill" /\ r.gate = c.gate /\ r.mine = c.mine /\ r.view = c.view
            BY <1>0, <2>1 DEF CallRecord
        <3>3. registries' \in Seq(Seq(Name)) /\ Len(registries') = Len(registries)
            <4>1. names[n] \in Name /\ registries[c.mine] \in Seq(Name)
                <5>1. names \in Seq(Name) /\ n \in 1 .. Len(names)
                    BY <1>0, <2>1, <2>2, LlmCallAssumption DEF CallRecord
                <5>2. names[n] \in Name
                    BY <5>1
                <5>3. registries[c.mine] \in Seq(Name)
                    BY <1>0, <2>1 DEF Typed
                <5> QED
                    BY <5>2, <5>3
            <4> DEFINE new == IF Contains(registries[c.mine], names[n]) THEN registries[c.mine]
                              ELSE Append(registries[c.mine], names[n])
            <4>2. new \in Seq(Name)
                BY <4>1, OneMoreName
            <4>3. registries' = [registries EXCEPT ![c.mine] = new]
                BY <3>1
            <4> HIDE DEF new
            <4> QED
                BY <1>0, <2>1, <4>2, <4>3 DEF Typed
        <3> HIDE DEF r
        <3>4. call'[t] = r /\ \A u \in Thread \ {t} : call'[u] = call[u]
            BY <1>0, <3>1, <3>2 DEF Typed
        <3>5. UNCHANGED <<config, semaphores>>
            BY <2>1 DEF configVars, gateVars
        <3>6. Typed'
            BY <1>0, <2>1, <3>1, <3>2, <3>3 DEF Typed, configVars, gateVars
        <3>7. Knows(t)'
            BY <1>0, <2>1, <3>2, <3>3, <3>4, <3>5 DEF Knows, InGetConfig, Inside
        <3>8. Len(registries) <= Len(registries')
            BY <1>0, <3>3
        <3> QED
            BY <2>1, <3>2, <3>4, <3>5, <3>6, <3>7, <3>8, ApproachStep DEF Inside
    <2>3. CASE ~(n <= Len(names))
        <3>1. call' = [call EXCEPT ![t].at = "found"] /\ UNCHANGED registries
            BY <1>4, <2>3 DEF RegisterNext
        <3>2. Goes(t, "fill", "found") /\ "found" \in Places
            BY <2>1, <3>1 DEF Goes, At, Places, Approaching
        <3>3. /\ call' \in [Thread -> CallRecord] /\ \A u \in Thread \ {t} : call'[u] = call[u]
              /\ call'[t] = [c EXCEPT !.at = "found"]
            BY <1>0, <3>2, GoesOn
        <3>4. UNCHANGED <<file, configVars, registryVars, gateVars, loop>>
            BY <2>1, <3>1 DEF registryVars
        <3>5. registry # 0
            BY <1>0, <2>1 DEF Knows
        <3>6. Knows(t)'
            BY <1>0, <3>3, <3>4, <3>5 DEF Knows, CallRecord, InGetConfig, Inside, registryVars, gateVars
        <3> QED
            BY <1>0, <2>1, <3>3, <3>4, <3>6, QuietApproachStep DEF CallRecord, Inside
    <2> QED
        BY <2>2, <2>3
<1>5. CASE ReturnRegistry(t)
    <2> DEFINE r == [c EXCEPT !.at = "provider", !.mine = registry]
    <2>1. /\ c.at = "found" /\ call' = [call EXCEPT ![t] = r]
          /\ UNCHANGED <<file, configVars, registryVars, gateVars, loop>>
        BY <1>0, <1>5 DEF ReturnRegistry, At
    <2>2. r \in CallRecord /\ r.at = "provider" /\ r.mine = registry /\ r.gate = c.gate
        <3>1. registry \in Nat /\ c \in CallRecord
            BY <1>0 DEF Typed
        <3> QED
            BY <3>1 DEF CallRecord, Places, Approaching
    <2> HIDE DEF r
    <2>3. /\ call' \in [Thread -> CallRecord]
          /\ call'[t] = r /\ \A u \in Thread \ {t} : call'[u] = call[u]
        BY <1>0, <2>1, <2>2 DEF Typed
    <2>4. registry # 0 /\ registry <= Len(registries)
        BY <1>0, <2>1 DEF Knows, Typed
    <2>5. Knows(t)'
        BY <1>0, <2>1, <2>2, <2>3, <2>4 DEF Knows, InGetConfig, Inside, registryVars, gateVars
    <2> QED
        BY <2>1, <2>2, <2>3, <2>5, QuietApproachStep DEF Inside
<1>6. CASE GetProvider(t)
    <2> DEFINE names == registries[c.mine]
    <2>1. /\ c.at = "provider" /\ UNCHANGED <<file, configVars, registryVars, gateVars, loop>>
          /\ names \in Seq(Name)
        BY <1>0, <1>6 DEF GetProvider, At, Knows, CallRecord, Typed
    <2>2. CASE names = <<>>
        <3>1. Ends(t)
            BY <1>6, <2>2 DEF GetProvider
        <3>2. /\ call' \in [Thread -> CallRecord] /\ \A u \in Thread \ {t} : call'[u] = call[u]
              /\ call'[t] = Idle
            BY <1>0, <3>1, CallOver
        <3>3. Typed'
            BY <1>0, <2>1, <3>2 DEF Typed, configVars, registryVars, gateVars
        <3> QED
            BY <2>1, <3>2, <3>3, IdleKnows, QuietApproachStep DEF Inside
    <2>3. CASE names # <<>>
        <3> DEFINE r == [c EXCEPT !.at = "stat", !.site = "check", !.provider = DefaultOf(names)]
        <3>1. call' = [call EXCEPT ![t] = r]
            BY <1>6, <2>3 DEF GetProvider
        <3>2. DefaultOf(names) \in Name
            BY <2>1, <2>3, DefaultIsRegistered
        <3>3. r \in CallRecord
            BY <1>0, <3>2 DEF CallRecord, Places, Approaching
        <3>4. r.at = "stat" /\ r.site = "check" /\ r.gate = c.gate /\ r.mine = c.mine
            BY <1>0 DEF CallRecord
        <3> HIDE DEF r
        <3>5. /\ call' \in [Thread -> CallRecord]
              /\ call'[t] = r /\ \A u \in Thread \ {t} : call'[u] = call[u]
            BY <1>0, <3>1, <3>3 DEF Typed
        <3>6. Knows(t)'
            BY <1>0, <2>1, <3>4, <3>5 DEF Knows, InGetConfig, Inside, registryVars, gateVars
        <3> QED
            BY <2>1, <3>4, <3>5, <3>6, QuietApproachStep DEF Inside
    <2> QED
        BY <2>2, <2>3
<1> QED
    BY <1>1, <1>2, <1>3, <1>4, <1>5, <1>6 DEF Registering

-----------------------------------------------------------------------------
(* The configuration *)

LEMMA ConfiguringInv ==
    ASSUME Inv, NEW t \in Thread, Configuring(t)
    PROVE  Inv'
<1> DEFINE c == call[t]
<1>0. /\ Typed /\ Knows(t) /\ c \in CallRecord
      /\ Len(registries) \in Nat /\ Len(semaphores) \in Nat
    BY Lengths DEF Inv, Typed
<1>1. ASSUME Ends(t), c.at \in InGetConfig,
             UNCHANGED <<file, configVars, registryVars, gateVars, loop>>
      PROVE  Inv'
    <2>1. /\ call' \in [Thread -> CallRecord] /\ \A u \in Thread \ {t} : call'[u] = call[u]
          /\ call'[t] = Idle
        BY <1>0, <1>1, CallOver
    <2>2. Typed'
        BY <1>0, <1>1, <2>1 DEF Typed, configVars, registryVars, gateVars
    <2> QED
        BY <1>1, <2>1, <2>2, IdleKnows, QuietApproachStep DEF InGetConfig, Inside
<1>2. CASE StatMissing(t)
    <2>1. c.at = "stat" /\ UNCHANGED <<file, configVars, registryVars, gateVars, loop>>
        BY <1>2 DEF StatMissing, At
    <2>2. CASE config = Nothing
        BY <1>1, <1>2, <2>1, <2>2 DEF StatMissing, InGetConfig
    <2>3. CASE config # Nothing
        <3>1. Goes(t, "stat", "return") /\ "return" \in Places
            BY <1>2, <2>3 DEF StatMissing, Places, Approaching
        <3>2. /\ call' \in [Thread -> CallRecord] /\ \A u \in Thread \ {t} : call'[u] = call[u]
              /\ call'[t] = [c EXCEPT !.at = "return"]
            BY <1>0, <3>1, GoesOn
        <3>3. Knows(t)'
            BY <1>0, <2>1, <2>3, <3>2
            DEF Knows, CallRecord, InGetConfig, Inside, configVars, registryVars, gateVars
        <3> QED
            BY <1>0, <2>1, <3>2, <3>3, QuietApproachStep DEF CallRecord, Inside
    <2> QED
        BY <2>2, <2>3
<1>3. CASE Stat(t)
    <2> DEFINE r == [c EXCEPT !.at = "compare", !.seen = file.time]
    <2>1. /\ c.at = "stat" /\ call' = [call EXCEPT ![t] = r]
          /\ UNCHANGED <<file, configVars, registryVars, gateVars, loop>>
        BY <1>0, <1>3 DEF Stat, At
    <2>3. file.time \in Nat
        BY <1>0 DEF Typed
    <2>4. r \in CallRecord
        BY <1>0, <2>3 DEF CallRecord, Places, Approaching
    <2>5. r.at = "compare" /\ r.site = c.site /\ r.gate = c.gate /\ r.mine = c.mine
        BY <1>0 DEF CallRecord
    <2> HIDE DEF r
    <2>6. /\ call' \in [Thread -> CallRecord]
          /\ call'[t] = r /\ \A u \in Thread \ {t} : call'[u] = call[u]
        BY <1>0, <2>1, <2>4 DEF Typed
    <2>7. Knows(t)'
        BY <1>0, <2>1, <2>5, <2>6
        DEF Knows, InGetConfig, Inside, configVars, registryVars, gateVars
    <2> QED
        BY <2>1, <2>5, <2>6, <2>7, QuietApproachStep DEF Inside
<1>8. CASE Compare(t)
    <2> DEFINE to == IF OutOfDate(t) THEN "load" ELSE "return"
    <2>1. /\ to \in Places /\ Goes(t, "compare", to) /\ to \in {"load", "return"}
          /\ UNCHANGED <<file, configVars, registryVars, gateVars, loop>>
        BY <1>8 DEF Compare, Places, Approaching
    <2>2. to = "return" => config # Nothing
        BY DEF OutOfDate
    <2> HIDE DEF to
    <2>3. /\ call' \in [Thread -> CallRecord] /\ \A u \in Thread \ {t} : call'[u] = call[u]
          /\ c.at = "compare" /\ call'[t] = [c EXCEPT !.at = to]
        BY <1>0, <2>1, GoesOn
    <2>4. Knows(t)'
        BY <1>0, <2>1, <2>2, <2>3
        DEF Knows, CallRecord, InGetConfig, Inside, configVars, registryVars, gateVars
    <2> QED
        BY <1>0, <2>1, <2>3, <2>4, QuietApproachStep DEF CallRecord, Inside
<1>4. CASE Load(t)
    <2>1. c.at = "load" /\ UNCHANGED <<file, configVars, registryVars, gateVars, loop>>
        BY <1>4 DEF Load, At
    <2>2. CASE file.content \notin Loadable
        BY <1>1, <1>4, <2>1, <2>2 DEF Load, InGetConfig
    <2>3. CASE file.content \in Loadable
        <3> DEFINE r == [c EXCEPT !.at = "store", !.view = file.content]
        <3>1. call' = [call EXCEPT ![t] = r]
            BY <1>4, <2>3 DEF Load
        <3>2. r \in CallRecord
            BY <1>0, <2>3 DEF CallRecord, Places, Approaching
        <3>3. /\ r.at = "store" /\ r.view = file.content
              /\ r.site = c.site /\ r.gate = c.gate /\ r.mine = c.mine
            BY <1>0 DEF CallRecord
        <3> HIDE DEF r
        <3>4. /\ call' \in [Thread -> CallRecord]
              /\ call'[t] = r /\ \A u \in Thread \ {t} : call'[u] = call[u]
            BY <1>0, <3>1, <3>2 DEF Typed
        <3>5. Knows(t)'
            BY <1>0, <2>1, <2>3, <3>3, <3>4
            DEF Knows, InGetConfig, Inside, registryVars, gateVars
        <3> QED
            BY <2>1, <3>3, <3>4, <3>5, QuietApproachStep DEF Inside
    <2> QED
        BY <2>2, <2>3
<1>5. CASE StoreConfig(t)
    <2>1. /\ Goes(t, "store", "stamp") /\ "stamp" \in Places /\ config' = c.view
          /\ UNCHANGED <<file, configTime, registryVars, gateVars, loop>>
        BY <1>5 DEF StoreConfig, Places, Approaching
    <2>2. /\ call' \in [Thread -> CallRecord] /\ \A u \in Thread \ {t} : call'[u] = call[u]
          /\ c.at = "store" /\ call'[t] = [c EXCEPT !.at = "stamp"]
        BY <1>0, <2>1, GoesOn
    <2>3. config' \in Loadable /\ config' # Nothing
        BY <1>0, <2>1, <2>2, LlmCallAssumption DEF Knows
    <2>4. Typed'
        BY <1>0, <2>1, <2>2, <2>3 DEF Typed, registryVars, gateVars
    <2>5. Knows(t)'
        BY <1>0, <2>1, <2>2, <2>3 DEF Knows, CallRecord, InGetConfig, Inside, registryVars, gateVars
    <2>6. /\ Len(registries) <= Len(registries') /\ UNCHANGED <<registry, gateVars>>
          /\ call[t].at \notin Inside \cup {"limit"} /\ call'[t].at \notin Inside \cup {"limit"}
        BY <1>0, <2>1, <2>2 DEF registryVars, CallRecord, Inside
    <2> QED
        BY <2>2, <2>3, <2>4, <2>5, <2>6, ApproachStep
<1>6. CASE StampConfig(t)
    <2>1. /\ Goes(t, "stamp", "return") /\ "return" \in Places /\ configTime' = c.seen
          /\ UNCHANGED <<file, config, registryVars, gateVars, loop>>
        BY <1>6 DEF StampConfig, Places, Approaching
    <2>2. /\ call' \in [Thread -> CallRecord] /\ \A u \in Thread \ {t} : call'[u] = call[u]
          /\ c.at = "stamp" /\ call'[t] = [c EXCEPT !.at = "return"]
        BY <1>0, <2>1, GoesOn
    <2>3. configTime' \in Nat
        BY <1>0, <2>1 DEF CallRecord
    <2>4. Typed'
        BY <1>0, <2>1, <2>2, <2>3 DEF Typed, registryVars, gateVars
    <2>5. Knows(t)'
        BY <1>0, <2>1, <2>2 DEF Knows, CallRecord, InGetConfig, Inside, registryVars, gateVars
    <2>6. /\ Len(registries) <= Len(registries') /\ UNCHANGED <<registry, gateVars>>
          /\ call[t].at \notin Inside \cup {"limit"} /\ call'[t].at \notin Inside \cup {"limit"}
        BY <1>0, <2>1, <2>2 DEF registryVars, CallRecord, Inside
    <2> QED
        BY <2>1, <2>2, <2>4, <2>5, <2>6, ApproachStep
<1>7. CASE ReturnConfig(t)
    <2> DEFINE r == [c EXCEPT !.at = c.site, !.view = config]
    <2>1. /\ c.at = "return" /\ call' = [call EXCEPT ![t] = r]
          /\ UNCHANGED <<file, configVars, registryVars, gateVars, loop>>
        BY <1>0, <1>7 DEF ReturnConfig, At
    <2>2. config \in Loadable /\ c.site \in {"check", "register"} /\ (c.site = "register" => registry # 0)
        BY <1>0, <2>1 DEF Knows, Typed, CallRecord, InGetConfig
    <2>3. r \in CallRecord
        BY <1>0, <2>2 DEF CallRecord, Places, Approaching
    <2>4. /\ r.at = c.site /\ r.view = config /\ r.site = c.site
          /\ r.gate = c.gate /\ r.mine = c.mine
        BY <1>0 DEF CallRecord
    <2> HIDE DEF r
    <2>5. /\ call' \in [Thread -> CallRecord]
          /\ call'[t] = r /\ \A u \in Thread \ {t} : call'[u] = call[u]
        BY <1>0, <2>1, <2>3 DEF Typed
    <2>6. Knows(t)'
        BY <1>0, <2>1, <2>2, <2>4, <2>5 DEF Knows, InGetConfig, Inside, registryVars, gateVars
    <2> QED
        BY <2>1, <2>2, <2>4, <2>5, <2>6, QuietApproachStep DEF Inside
<1> QED
    BY <1>2, <1>3, <1>4, <1>5, <1>6, <1>7, <1>8 DEF Configuring

-----------------------------------------------------------------------------
(* The semaphore *)

\* Writing to one place of a sequence.
LEMMA WriteOne ==
    ASSUME NEW S, NEW s \in Seq(S), NEW g \in 1 .. Len(s), NEW x \in S
    PROVE  /\ [s EXCEPT ![g] = x] \in Seq(S)
           /\ Len([s EXCEPT ![g] = x]) = Len(s)
    OBVIOUS

\* One slot more or less in one semaphore.
LEMMA SlotChanges ==
    ASSUME Typed, NEW g \in 1 .. Len(semaphores), NEW n \in Nat,
           semaphores' = [semaphores EXCEPT ![g].used = n]
    PROVE  /\ semaphores' \in Seq(Semaphore)
           /\ Len(semaphores') = Len(semaphores)
           /\ \A i \in 1 .. Len(semaphores) :
                 /\ semaphores'[i].limit = semaphores[i].limit
                 /\ semaphores'[i].used = IF i = g THEN n ELSE semaphores[i].used
<1>1. semaphores[g] \in Semaphore
    BY DEF Typed
<1> DEFINE new == [semaphores[g] EXCEPT !.used = n]
<1>2. /\ new \in Semaphore
      /\ new.limit = semaphores[g].limit /\ new.used = n
    BY <1>1 DEF Semaphore
<1>3. semaphores' = [semaphores EXCEPT ![g] = new]
    OBVIOUS
<1> HIDE DEF new
<1>4. semaphores \in Seq(Semaphore)
    BY DEF Typed
<1>5. semaphores' \in Seq(Semaphore) /\ Len(semaphores') = Len(semaphores)
    BY <1>2, <1>3, <1>4, WriteOne
<1>6. \A i \in 1 .. Len(semaphores) : semaphores'[i] = IF i = g THEN new ELSE semaphores[i]
    BY <1>3, <1>4
<1> QED
    BY <1>2, <1>5, <1>6

LEMMA OneMoreHolder ==
    ASSUME NEW t \in Thread,
           \A u \in Thread \ {t} : call'[u] = call[u],
           call[t].at \notin Inside, call'[t].at \in Inside, NEW g, call'[t].gate = g
    PROVE  LET After(i) == {u \in Thread : call'[u].at \in Inside /\ call'[u].gate = i}
           IN  /\ After(g) = Holders(g) \cup {t} /\ t \notin Holders(g)
               /\ \A i : i # g => After(i) = Holders(i)
    BY DEF Holders

LEMMA OneHolderLess ==
    ASSUME NEW t \in Thread,
           \A u \in Thread \ {t} : call'[u] = call[u],
           call[t].at \in Inside, call'[t].at \notin Inside, NEW g, call[t].gate = g
    PROVE  LET After(i) == {u \in Thread : call'[u].at \in Inside /\ call'[u].gate = i}
           IN  /\ After(g) = Holders(g) \ {t} /\ t \in Holders(g)
               /\ \A i : i # g => After(i) = Holders(i)
    BY DEF Holders

\* What a step at a semaphore leaves alone.
LEMMA GateStep ==
    ASSUME Inv, NEW t \in Thread, Typed', Knows(t)',
           \A u \in Thread \ {t} : call'[u] = call[u],
           call[t].at # "limit", call'[t].at # "limit",
           UNCHANGED <<config, registry, current, limit, lock>>,
           Len(semaphores') = Len(semaphores), Len(registries') = Len(registries),
           \A i \in 1 .. Len(semaphores) : semaphores'[i].limit = semaphores[i].limit
    PROVE  (\A u \in Thread : Knows(u)') /\ LockHeld' /\ LimitDescribesGate'
<1>1. \A u \in Thread : Knows(u)'
    <2>1. Len(semaphores) \in Nat /\ Len(registries) \in Nat
        BY Lengths DEF Inv
    <2> QED
        BY <2>1, OthersKnow
<1>2. current # 0 => semaphores'[current].limit = semaphores[current].limit
    BY DEF Inv, Typed
<1>3. LimitDescribesGate'
    BY <1>2 DEF Inv, LimitDescribesGate
<1>4. ASSUME NEW u \in Thread
      PROVE  /\ call'[u].at = "limit" <=> lock' = u
             /\ call'[u].at = "limit" => semaphores'[current'].limit = LimitOf[call'[u].view]
    <2>1. lock # t
        BY DEF Inv, LockHeld
    <2>2. CASE u = t
        BY <2>1, <2>2
    <2>3. CASE u # t
        <3>1. call'[u] = call[u]
            BY <2>3
        <3>2. Knows(u) /\ LockHeld
            BY DEF Inv
        <3>3. call[u].at = "limit" => current # 0
            BY <3>2 DEF Knows
        <3> QED
            BY <1>2, <3>1, <3>2, <3>3 DEF LockHeld
    <2> QED
        BY <2>2, <2>3
<1>5. LockHeld'
    BY <1>4 DEF LockHeld
<1> QED
    BY <1>1, <1>3, <1>5

LEMMA EnteringInv ==
    ASSUME Inv, NEW t \in Thread, Entering(t)
    PROVE  Inv'
<1> DEFINE c == call[t]
<1>0. /\ Typed /\ Knows(t) /\ c \in CallRecord
      /\ Len(registries) \in Nat /\ Len(semaphores) \in Nat
      /\ current \in 0 .. Len(semaphores) /\ SlotsHeld /\ LockHeld
    BY Lengths DEF Inv, Typed
<1>1. CASE CheckLimit(t)
    <2> DEFINE to == IF NeedsSemaphore(t) THEN "locked" ELSE "take"
    <2>1. to \in Places /\ Goes(t, "check", to) /\ (to = "take" => current # 0)
        BY <1>1 DEF CheckLimit, Places, Approaching, NeedsSemaphore
    <2>2. /\ call' \in [Thread -> CallRecord] /\ \A u \in Thread \ {t} : call'[u] = call[u]
          /\ c.at = "check" /\ call'[t] = [c EXCEPT !.at = to]
        BY <1>0, <2>1, GoesOn
    <2>3. UNCHANGED <<file, configVars, registryVars, gateVars, loop>> /\ to \in {"locked", "take"}
        BY <1>1 DEF CheckLimit
    <2> HIDE DEF to
    <2>4. Knows(t)'
        BY <1>0, <2>1, <2>2, <2>3 DEF Knows, CallRecord, InGetConfig, Inside, registryVars, gateVars
    <2> QED
        BY <1>0, <2>2, <2>3, <2>4, QuietApproachStep DEF CallRecord, Inside
<1>2. CASE FoundByOther(t)
    <2>1. /\ "take" \in Places /\ Goes(t, "locked", "take") /\ current # 0
          /\ UNCHANGED <<file, configVars, registryVars, gateVars, loop>>
        BY <1>2 DEF FoundByOther, Places, Approaching, SecondLook, NeedsSemaphore
    <2>2. /\ call' \in [Thread -> CallRecord] /\ \A u \in Thread \ {t} : call'[u] = call[u]
          /\ c.at = "locked" /\ call'[t] = [c EXCEPT !.at = "take"]
        BY <1>0, <2>1, GoesOn
    <2>3. Knows(t)'
        BY <1>0, <2>1, <2>2 DEF Knows, CallRecord, InGetConfig, Inside, registryVars, gateVars
    <2> QED
        BY <1>0, <2>1, <2>2, <2>3, QuietApproachStep DEF CallRecord, Inside
<1>3. CASE CreateSemaphore(t)
    <2> DEFINE new == [limit |-> Wanted(t), used |-> 0]
               last == Len(semaphores) + 1
    <2>1. /\ "limit" \in Places /\ Goes(t, "locked", "limit")
          /\ lock = Nothing /\ lock' = t
          /\ semaphores' = Append(semaphores, new) /\ current' = last
          /\ UNCHANGED <<file, configVars, registryVars, limit, loop>>
        BY <1>3 DEF CreateSemaphore, Places, Approaching
    <2>2. /\ call' \in [Thread -> CallRecord] /\ \A u \in Thread \ {t} : call'[u] = call[u]
          /\ c.at = "locked" /\ call'[t] = [c EXCEPT !.at = "limit"]
        BY <1>0, <2>1, GoesOn
    <2>3. /\ call'[t].at = "limit" /\ call'[t].view = c.view
          /\ call'[t].gate = c.gate /\ call'[t].mine = c.mine
        BY <1>0, <2>2 DEF CallRecord
    <2>4. Wanted(t) = LimitOf[c.view] /\ Wanted(t) \in Nat \ {0} /\ c.view \in Loadable
        BY <1>0, <2>2, LlmCallAssumption DEF Wanted, Knows
    <2>5. new \in Semaphore /\ new.limit = Wanted(t) /\ new.used = 0
        BY <2>4 DEF Semaphore
    <2> HIDE DEF new
    <2>6. /\ semaphores' \in Seq(Semaphore)
          /\ Len(semaphores') = last /\ semaphores'[last] = new
          /\ \A i \in 1 .. Len(semaphores) : semaphores'[i] = semaphores[i]
        BY <1>0, <2>1, <2>5 DEF Typed
    <2>7. Typed'
        BY <1>0, <2>1, <2>2, <2>6 DEF Typed, configVars, registryVars
    <2>8. Knows(t)'
        <3>1. c.gate \in Nat /\ c.gate <= Len(semaphores) /\ c.mine <= Len(registries)
            BY <1>0 DEF Knows, CallRecord
        <3>2. call'[t].gate <= Len(semaphores') /\ call'[t].mine <= Len(registries') /\ current' # 0
            BY <1>0, <2>1, <2>3, <2>6, <3>1 DEF registryVars
        <3> QED
            BY <2>3, <2>4, <3>2 DEF Knows, InGetConfig, Inside
    <2>9. \A u \in Thread : Knows(u)'
        <3>1. /\ config' = config /\ registry' = registry /\ current' # 0
              /\ Len(registries') = Len(registries) /\ Len(semaphores) <= Len(semaphores')
              /\ Len(semaphores') \in Nat
            BY <1>0, <2>1, <2>6 DEF configVars, registryVars
        <3> QED
            BY <1>0, <2>2, <2>8, <3>1, OthersKnow
    <2>10. SlotsHeld'
        <3>1. \A i : {u \in Thread : call'[u].at \in Inside /\ call'[u].gate = i} = Holders(i)
            BY <2>2, <2>3, HoldersStay DEF Inside
        <3>2. Holders(last) = {}
            <4>1. \A u \in Thread : call[u].gate \in Nat /\ call[u].gate <= Len(semaphores)
                BY DEF Inv, Typed, Knows, CallRecord
            <4> QED
                BY <1>0, <4>1 DEF Holders
        <3>3. ASSUME NEW i \in 1 .. Len(semaphores')
              PROVE  semaphores'[i].used = Cardinality(Holders(i)) /\ semaphores'[i].used <= semaphores'[i].limit
            <4>1. CASE i = last
                <5>1. semaphores'[i] = new
                    BY <2>6, <4>1
                <5>2. Cardinality(Holders(i)) = 0
                    BY <3>2, <4>1, FS_EmptySet
                <5> QED
                    BY <2>4, <2>5, <5>1, <5>2
            <4>2. CASE i # last
                <5>1. i \in 1 .. Len(semaphores)
                    BY <1>0, <2>6, <4>2
                <5> QED
                    BY <1>0, <2>6, <5>1 DEF SlotsHeld
            <4> QED
                BY <4>1, <4>2
        <3> QED
            BY <3>1, <3>3 DEF SlotsHeld, Holders
    <2>11. LockHeld'
        <3>1. \A u \in Thread \ {t} : call'[u].at # "limit"
            BY <1>0, <2>1, <2>2, LlmCallAssumption DEF LockHeld
        <3>2. semaphores'[current'].limit = LimitOf[call'[t].view]
            BY <2>1, <2>3, <2>4, <2>5, <2>6
        <3> QED
            BY <2>1, <2>3, <3>1, <3>2 DEF LockHeld
    <2>12. LimitDescribesGate'
        BY <2>1, LlmCallAssumption DEF LimitDescribesGate
    <2> QED
        BY <2>7, <2>9, <2>10, <2>11, <2>12 DEF Inv
<1>4. CASE SetLimit(t)
    <2>1. /\ "take" \in Places /\ Goes(t, "limit", "take")
          /\ limit' = Wanted(t) /\ lock' = Nothing
          /\ UNCHANGED <<file, configVars, registryVars, semaphores, current, loop>>
        BY <1>4 DEF SetLimit, Places, Approaching
    <2>2. /\ call' \in [Thread -> CallRecord] /\ \A u \in Thread \ {t} : call'[u] = call[u]
          /\ c.at = "limit" /\ call'[t] = [c EXCEPT !.at = "take"]
        BY <1>0, <2>1, GoesOn
    <2>3. call'[t].at = "take" /\ call'[t].gate = c.gate /\ call'[t].mine = c.mine
        BY <1>0, <2>2 DEF CallRecord
    <2>4. lock = t /\ semaphores[current].limit = Wanted(t) /\ Wanted(t) \in Nat
        BY <1>0, <2>2, LlmCallAssumption DEF Inv, LockHeld, Wanted, Knows
    <2>5. Typed'
        BY <1>0, <2>1, <2>2, <2>4 DEF Typed, configVars, registryVars
    <2>6. Knows(t)'
        BY <1>0, <2>1, <2>2, <2>3 DEF Knows, InGetConfig, Inside, registryVars
    <2>7. \A u \in Thread : Knows(u)'
        <3>1. /\ config' = config /\ registry' = registry
              /\ Len(registries') = Len(registries) /\ Len(semaphores') = Len(semaphores)
            BY <2>1 DEF configVars, registryVars
        <3> QED
            BY <1>0, <2>1, <2>2, <2>6, <3>1, OthersKnow
    <2>8. SlotsHeld'
        <3>1. \A i : {u \in Thread : call'[u].at \in Inside /\ call'[u].gate = i} = Holders(i)
            BY <2>2, <2>3, HoldersStay DEF Inside
        <3> QED
            BY <1>0, <2>1, <3>1 DEF SlotsHeld, Holders
    <2>9. LockHeld'
        <3>1. ASSUME NEW u \in Thread PROVE call'[u].at # "limit"
            <4>1. CASE u = t
                BY <2>3, <4>1
            <4>2. CASE u # t
                BY <1>0, <2>2, <2>4, <4>2 DEF LockHeld
            <4> QED
                BY <4>1, <4>2
        <3>2. \A u \in Thread : lock' # u
            BY <2>1, LlmCallAssumption
        <3> QED
            BY <3>1, <3>2 DEF LockHeld
    <2>10. LimitDescribesGate'
        BY <2>1, <2>4 DEF LimitDescribesGate
    <2> QED
        BY <2>5, <2>7, <2>8, <2>9, <2>10 DEF Inv
<1>5. CASE Take(t)
    <2> DEFINE r == [c EXCEPT !.at = "acquire", !.gate = current]
    <2>1. /\ c.at = "take" /\ call' = [call EXCEPT ![t] = r]
          /\ UNCHANGED <<file, configVars, registryVars, gateVars, loop>>
        BY <1>0, <1>5 DEF Take, At
    <2>2. r \in CallRecord /\ r.at = "acquire" /\ r.gate = current /\ r.mine = c.mine
        <3>1. current \in Nat
            BY <1>0
        <3> QED
            BY <1>0, <3>1 DEF CallRecord, Places, Approaching
    <2> HIDE DEF r
    <2>3. /\ call' \in [Thread -> CallRecord]
          /\ call'[t] = r /\ \A u \in Thread \ {t} : call'[u] = call[u]
        BY <1>0, <2>1, <2>2 DEF Typed
    <2>4. Knows(t)'
        BY <1>0, <2>1, <2>2, <2>3 DEF Knows, InGetConfig, Inside, registryVars, gateVars
    <2> QED
        BY <2>1, <2>2, <2>3, <2>4, QuietApproachStep DEF Inside
<1>6. CASE Acquire(t)
    <2> DEFINE g == c.gate
               n == semaphores[g].used + 1
    <2>1. /\ "loop" \in Places /\ Goes(t, "acquire", "loop")
          /\ semaphores[g].used < semaphores[g].limit
          /\ semaphores' = [semaphores EXCEPT ![g].used = n]
          /\ UNCHANGED <<file, configVars, registryVars, current, limit, lock, loop>>
        BY <1>6 DEF Acquire, Places, Inside
    <2>2. /\ call' \in [Thread -> CallRecord] /\ \A u \in Thread \ {t} : call'[u] = call[u]
          /\ c.at = "acquire" /\ call'[t] = [c EXCEPT !.at = "loop"]
        BY <1>0, <2>1, GoesOn
    <2>3. call'[t].at = "loop" /\ call'[t].gate = g /\ call'[t].mine = c.mine
        BY <1>0, <2>2 DEF CallRecord
    <2>4. g \in 1 .. Len(semaphores)
        BY <1>0, <2>2 DEF Knows, CallRecord
    <2>5. semaphores[g].used \in Nat /\ semaphores[g].limit \in Nat /\ n \in Nat
        <3>1. semaphores[g] \in Semaphore
            BY <1>0, <2>4 DEF Typed
        <3> QED
            BY <3>1 DEF Semaphore
    <2>6. /\ semaphores' \in Seq(Semaphore)
          /\ Len(semaphores') = Len(semaphores)
          /\ \A i \in 1 .. Len(semaphores) :
                /\ semaphores'[i].limit = semaphores[i].limit
                /\ semaphores'[i].used = IF i = g THEN n ELSE semaphores[i].used
        <3> HIDE DEF g, n
        <3> QED
            BY <1>0, <2>1, <2>4, <2>5, SlotChanges
    <2>7. Typed'
        BY <1>0, <2>1, <2>2, <2>6 DEF Typed, configVars, registryVars
    <2>8. Knows(t)'
        <3>1. g # 0 /\ g <= Len(semaphores') /\ c.mine <= Len(registries')
            BY <1>0, <2>1, <2>4, <2>6 DEF Knows, registryVars
        <3> QED
            BY <2>3, <3>1 DEF Knows, InGetConfig, Inside
    <2>9. (\A u \in Thread : Knows(u)') /\ LockHeld' /\ LimitDescribesGate'
        <3>1. UNCHANGED <<config, registry, current, limit, lock>> /\ Len(registries') = Len(registries)
            BY <2>1 DEF configVars, registryVars
        <3> QED
            BY <2>2, <2>3, <2>6, <2>7, <2>8, <3>1, GateStep
    <2>10. SlotsHeld'
        <3> DEFINE After(i) == {u \in Thread : call'[u].at \in Inside /\ call'[u].gate = i}
        <3>0. call[t].at \notin Inside /\ call'[t].at \in Inside
            BY <2>2, <2>3 DEF Inside
        <3>1. After(g) = Holders(g) \cup {t} /\ t \notin Holders(g)
            BY <2>2, <2>3, <3>0, OneMoreHolder
        <3>2. \A i : i # g => After(i) = Holders(i)
            BY <2>2, <2>3, <3>0, OneMoreHolder
        <3>3. Cardinality(After(g)) = n
            <4>1. IsFiniteSet(Holders(g))
                BY LlmCallAssumption, FS_Subset DEF Holders
            <4>2. Cardinality(Holders(g)) = semaphores[g].used
                BY <1>0, <2>4 DEF SlotsHeld
            <4> HIDE DEF After
            <4> QED
                BY <3>1, <4>1, <4>2, FS_AddElement
        <3>4. n <= semaphores[g].limit
            BY <2>1, <2>5
        <3> HIDE DEF After, n, g
        <3>5. \A i \in 1 .. Len(semaphores') :
                 semaphores'[i].used = Cardinality(After(i)) /\ semaphores'[i].used <= semaphores'[i].limit
            BY <1>0, <2>4, <2>6, <3>2, <3>3, <3>4 DEF SlotsHeld
        <3> QED
            BY <3>5 DEF After, SlotsHeld, Holders
    <2> QED
        BY <2>7, <2>9, <2>10 DEF Inv
<1> QED
    BY <1>1, <1>2, <1>3, <1>4, <1>5, <1>6 DEF Entering

-----------------------------------------------------------------------------
(* The event loop and the request *)

\* A step that keeps its slot.
LEMMA KeepsItsSlot ==
    ASSUME Inv, NEW t \in Thread, call' \in [Thread -> CallRecord],
           \A u \in Thread \ {t} : call'[u] = call[u],
           call[t].at \in Inside, call'[t].at \in Inside,
           call'[t].gate = call[t].gate, call'[t].mine = call[t].mine,
           loop' \in {"none", "created", "running"},
           UNCHANGED <<file, configVars, registryVars, gateVars>>
    PROVE  Inv'
<1>1. UNCHANGED <<config, configTime, registries, registry, semaphores, current, limit, lock>>
    BY DEF configVars, registryVars, gateVars
<1>2. Typed'
    BY <1>1 DEF Inv, Typed
<1>3. Knows(t)'
    BY <1>1 DEF Inv, Knows, Inside, InGetConfig
<1>4. call[t].at # "limit" /\ call'[t].at # "limit"
    BY DEF Inside
<1>5. (\A u \in Thread : Knows(u)') /\ LockHeld' /\ LimitDescribesGate'
    BY <1>1, <1>2, <1>3, <1>4, GateStep
<1>6. \A i : {u \in Thread : call'[u].at \in Inside /\ call'[u].gate = i} = Holders(i)
    BY DEF Holders
<1>7. SlotsHeld'
    BY <1>1, <1>6 DEF Inv, SlotsHeld, Holders
<1> QED
    BY <1>2, <1>5, <1>7 DEF Inv

LEMMA RequestingInv ==
    ASSUME Inv, NEW t \in Thread, Requesting(t)
    PROVE  Inv'
<1> DEFINE c == call[t]
<1>0. /\ Typed /\ Knows(t) /\ c \in CallRecord /\ SlotsHeld
      /\ Len(registries) \in Nat /\ Len(semaphores) \in Nat
    BY Lengths DEF Inv, Typed
<1>1. CASE GetLoop(t)
    <2> DEFINE to == IF loop = "none" THEN "start" ELSE "request"
               r == [c EXCEPT !.at = to, !.attempt = 1]
    <2>1. /\ c.at = "loop" /\ call' = [call EXCEPT ![t] = r]
          /\ loop' = IF loop = "none" THEN "created" ELSE loop
          /\ UNCHANGED <<file, configVars, registryVars, gateVars>>
        BY <1>0, <1>1 DEF GetLoop, At
    <2>2. to \in Inside
        BY DEF Inside
    <2> HIDE DEF to
    <2>3. r \in CallRecord /\ r.at = to /\ r.gate = c.gate /\ r.mine = c.mine
        <3>1. 1 \in 0 .. MaxAttempts /\ to \in Places
            BY <2>2, LlmCallAssumption DEF Places
        <3> QED
            BY <1>0, <3>1 DEF CallRecord
    <2> HIDE DEF r
    <2>4. /\ call' \in [Thread -> CallRecord]
          /\ call'[t] = r /\ \A u \in Thread \ {t} : call'[u] = call[u]
        BY <1>0, <2>1, <2>3 DEF Typed
    <2>5. loop' \in {"none", "created", "running"} /\ c.at \in Inside
        BY <1>0, <2>1 DEF Typed, Inside
    <2> QED
        BY <2>1, <2>2, <2>3, <2>4, <2>5, KeepsItsSlot
<1>2. CASE StartLoop(t)
    <2>1. /\ "request" \in Places /\ Goes(t, "start", "request") /\ loop' = "running"
          /\ UNCHANGED <<file, configVars, registryVars, gateVars>>
        BY <1>2 DEF StartLoop, Places, Inside
    <2>2. /\ call' \in [Thread -> CallRecord] /\ \A u \in Thread \ {t} : call'[u] = call[u]
          /\ c.at = "start" /\ call'[t] = [c EXCEPT !.at = "request"]
        BY <1>0, <2>1, GoesOn
    <2>3. call'[t].at = "request" /\ call'[t].gate = c.gate /\ call'[t].mine = c.mine
        BY <1>0, <2>2 DEF CallRecord
    <2>4. c.at \in Inside /\ "request" \in Inside
        BY <2>2 DEF Inside
    <2> QED
        BY <2>1, <2>2, <2>3, <2>4, KeepsItsSlot
<1>3. CASE Retry(t)
    <2> DEFINE r == [c EXCEPT !.attempt = c.attempt + 1]
    <2>1. /\ c.at = "request" /\ c.attempt < MaxAttempts /\ call' = [call EXCEPT ![t] = r]
          /\ UNCHANGED <<file, configVars, registryVars, gateVars, loop>>
        BY <1>0, <1>3 DEF Retry, At
    <2>2. r \in CallRecord /\ r.at = c.at /\ r.gate = c.gate /\ r.mine = c.mine
        <3>1. c.attempt + 1 \in 0 .. MaxAttempts
            BY <1>0, <2>1, LlmCallAssumption DEF CallRecord
        <3> QED
            BY <1>0, <3>1 DEF CallRecord
    <2> HIDE DEF r
    <2>3. /\ call' \in [Thread -> CallRecord]
          /\ call'[t] = r /\ \A u \in Thread \ {t} : call'[u] = call[u]
        BY <1>0, <2>1, <2>2 DEF Typed
    <2>4. loop' \in {"none", "created", "running"} /\ c.at \in Inside
        BY <1>0, <2>1 DEF Typed, Inside
    <2> QED
        BY <2>1, <2>2, <2>3, <2>4, KeepsItsSlot
<1>4. CASE Finish(t)
    <2> DEFINE g == c.gate
               n == semaphores[g].used - 1
               After(i) == {u \in Thread : call'[u].at \in Inside /\ call'[u].gate = i}
    <2>1. /\ c.at = "request" /\ Ends(t) /\ semaphores' = [semaphores EXCEPT ![g].used = n]
          /\ UNCHANGED <<file, configVars, registryVars, current, limit, lock, loop>>
        BY <1>4 DEF Finish, At, Release
    <2>2. /\ call' \in [Thread -> CallRecord] /\ \A u \in Thread \ {t} : call'[u] = call[u]
          /\ call'[t] = Idle
        BY <1>0, <2>1, CallOver
    <2>3. c.at \in Inside /\ call'[t].at \notin Inside
        BY <2>1, <2>2 DEF Inside, Idle
    <2>4. g \in 1 .. Len(semaphores)
        BY <1>0, <2>3 DEF Knows, CallRecord
    <2>5. After(g) = Holders(g) \ {t} /\ t \in Holders(g) /\ (\A i : i # g => After(i) = Holders(i))
        BY <2>2, <2>3, OneHolderLess
    <2> HIDE DEF After
    <2>6. /\ semaphores[g].used = Cardinality(Holders(g)) /\ semaphores[g].used \in Nat
          /\ Cardinality(After(g)) = n /\ n \in Nat
        <3>1. IsFiniteSet(Holders(g))
            BY LlmCallAssumption, FS_Subset DEF Holders
        <3>2. semaphores[g].used = Cardinality(Holders(g))
            BY <1>0, <2>4 DEF SlotsHeld
        <3>3. Cardinality(Holders(g)) \in Nat /\ Cardinality(Holders(g)) # 0
            BY <2>5, <3>1, FS_CardinalityType, FS_EmptySet
        <3>4. Cardinality(Holders(g) \ {t}) = Cardinality(Holders(g)) - 1
            BY <2>5, <3>1, FS_RemoveElement
        <3> QED
            BY <2>5, <3>2, <3>3, <3>4
    <2>7. /\ semaphores' \in Seq(Semaphore)
          /\ Len(semaphores') = Len(semaphores)
          /\ \A i \in 1 .. Len(semaphores) :
                /\ semaphores'[i].limit = semaphores[i].limit
                /\ semaphores'[i].used = IF i = g THEN n ELSE semaphores[i].used
        <3> HIDE DEF g, n
        <3> QED
            BY <1>0, <2>1, <2>4, <2>6, SlotChanges
    <2>8. Typed'
        BY <1>0, <2>1, <2>2, <2>7 DEF Typed, configVars, registryVars
    <2>9. (\A u \in Thread : Knows(u)') /\ LockHeld' /\ LimitDescribesGate'
        <3>1. UNCHANGED <<config, registry, current, limit, lock>> /\ Len(registries') = Len(registries)
            BY <2>1 DEF configVars, registryVars
        <3>2. Knows(t)' /\ call[t].at # "limit" /\ call'[t].at # "limit"
            BY <2>1, <2>2, <2>8, IdleKnows
        <3> QED
            BY <2>2, <2>7, <2>8, <3>1, <3>2, GateStep
    <2>10. SlotsHeld'
        <3>1. semaphores[g].used <= semaphores[g].limit /\ semaphores[g].limit \in Nat
            <4>1. semaphores[g] \in Semaphore
                BY <1>0, <2>4 DEF Typed
            <4> QED
                BY <1>0, <2>4, <4>1 DEF SlotsHeld, Semaphore
        <3>2. n <= semaphores[g].limit
            BY <2>6, <3>1
        <3> HIDE DEF n, g
        <3>3. \A i \in 1 .. Len(semaphores') :
                 semaphores'[i].used = Cardinality(After(i)) /\ semaphores'[i].used <= semaphores'[i].limit
            BY <1>0, <2>4, <2>5, <2>6, <2>7, <3>2 DEF SlotsHeld
        <3> QED
            BY <3>3 DEF After, SlotsHeld, Holders
    <2> QED
        BY <2>8, <2>9, <2>10 DEF Inv
<1> QED
    BY <1>1, <1>2, <1>3, <1>4 DEF Requesting

-----------------------------------------------------------------------------
(* The invariant, and what follows from it *)

LEMMA BeginInv ==
    ASSUME Inv, NEW t \in Thread, Begin(t)
    PROVE  Inv'
<1> DEFINE c == call[t]
<1>0. Typed /\ Knows(t) /\ c \in CallRecord
    BY DEF Inv, Typed
<1>1. /\ "registry" \in Places /\ Goes(t, "idle", "registry")
      /\ UNCHANGED <<file, configVars, registryVars, gateVars, loop>>
    BY DEF Begin, Places, Approaching
<1>2. /\ call' \in [Thread -> CallRecord] /\ \A u \in Thread \ {t} : call'[u] = call[u]
      /\ c.at = "idle" /\ call'[t] = [c EXCEPT !.at = "registry"]
    BY <1>0, <1>1, GoesOn
<1>3. Knows(t)'
    BY <1>0, <1>1, <1>2 DEF Knows, CallRecord, InGetConfig, Inside, registryVars, gateVars
<1> QED
    BY <1>0, <1>1, <1>2, <1>3, QuietApproachStep DEF CallRecord, Inside

LEMMA InitInv == Init => Inv
<1> SUFFICES ASSUME Init PROVE Inv
    OBVIOUS
<1>1. Idle \in CallRecord
    BY LlmCallAssumption DEF Idle, CallRecord, Places
<1>2. Len(semaphores) = 0 /\ Len(registries) = 0
    BY DEF Init
<1>3. \A t \in Thread : call[t] = Idle
    BY DEF Init
<1>4. Typed
    BY <1>1, <1>2 DEF Init, Typed
<1>5. \A t \in Thread : Knows(t)
    BY <1>2, <1>3 DEF Knows, Idle, InGetConfig, Inside
<1>6. SlotsHeld
    BY <1>2 DEF SlotsHeld
<1>7. LockHeld
    BY <1>3, LlmCallAssumption DEF LockHeld, Idle, Init
<1>8. LimitDescribesGate
    BY DEF Init, LimitDescribesGate
<1> QED
    BY <1>4, <1>5, <1>6, <1>7, <1>8 DEF Inv

LEMMA StepInv == Inv /\ [Next]_vars => Inv'
<1> SUFFICES ASSUME Inv, [Next]_vars PROVE Inv'
    OBVIOUS
<1>1. CASE \E t \in Thread : Begin(t) \/ CallStep(t)
    BY <1>1, BeginInv, RegisteringInv, ConfiguringInv, EnteringInv, RequestingInv DEF CallStep
<1>2. CASE (\E c \in Content \cup {Gone} : Edit(c)) \/ UNCHANGED vars
    <2>1. /\ UNCHANGED <<config, configTime, registries, registry, semaphores, current, limit,
                         lock, loop, call>>
          /\ file' \in [content : Content \cup {Gone}, time : Nat]
        BY <1>2 DEF Edit, vars, configVars, registryVars, gateVars, Inv, Typed
    <2>2. Typed'
        BY <2>1 DEF Inv, Typed
    <2>3. (\A t \in Thread : Knows(t)') /\ SlotsHeld' /\ LockHeld' /\ LimitDescribesGate'
        BY <2>1 DEF Inv, Knows, SlotsHeld, Holders, LockHeld, LimitDescribesGate
    <2> QED
        BY <2>2, <2>3 DEF Inv
<1> QED
    BY <1>1, <1>2 DEF Next

THEOREM Bookkeeping == Spec => []Inv
    BY InitInv, StepInv, PTL DEF Spec

\* Every variable keeps its type, and no semaphore hands out more slots than it
\* has, for any number of threads (chat_completion).
THEOREM TypeCorrect == Spec => []TypeOK
<1>1. Inv => TypeOK
    <2> SUFFICES ASSUME Inv PROVE TypeOK
        OBVIOUS
    <2>1. Typed /\ SlotsHeld /\ \A t \in Thread : Knows(t)
        BY DEF Inv
    <2>2. ASSUME NEW i \in 1 .. Len(semaphores)
          PROVE  semaphores[i].limit \in Nat \ {0} /\ semaphores[i].used \in 0 .. semaphores[i].limit
        <3>1. semaphores[i] \in Semaphore
            BY <2>1 DEF Typed
        <3> QED
            BY <2>1, <3>1 DEF SlotsHeld, Semaphore
    <2>3. ASSUME NEW t \in Thread
          PROVE  /\ call[t].at \in Approaching \cup Inside \cup {"idle"}
                 /\ call[t].gate \in 0 .. Len(semaphores)
                 /\ call[t].mine \in 0 .. Len(registries)
                 /\ call[t].attempt \in 0 .. MaxAttempts
        <3>1. call[t] \in CallRecord /\ Knows(t)
            BY <2>1 DEF Typed
        <3>2. Len(semaphores) \in Nat /\ Len(registries) \in Nat
            BY <2>1, Lengths
        <3> QED
            BY <3>1, <3>2 DEF CallRecord, Knows, Places
    <2> QED
        BY <2>1, <2>2, <2>3 DEF TypeOK, Typed
<1> QED
    BY <1>1, Bookkeeping, PTL

\* Whenever the lock is free, the limit a thread compares with is that of the
\* semaphore it would take, however the unlocked reads and the reloads of the
\* configuration interleave (_get_semaphore).
THEOREM LimitIsTrue == Spec => []LimitDescribesGate
<1>1. Inv => LimitDescribesGate
    BY DEF Inv
<1> QED
    BY <1>1, Bookkeeping, PTL
-----------------------------------------------------------------------------
(* A new limit takes over *)

(***************************************************************************)
(* The calls between chat_completion and their semaphore are either all    *)
(* settled, or none is and no other call is either.  As long as they are,  *)
(* the file does not change and there is one configuration that get_config *)
(* returns: the content of the file, if it is yet to be loaded, and the    *)
(* cached instance otherwise.                                              *)
(***************************************************************************)
Renewed == \A t \in Thread : call[t].at \in Approaching => settled[t]

Stale == config = Nothing \/ file.time # configTime

Due == IF Stale /\ file.content \in Loadable THEN file.content ELSE config

InForce == current # 0 /\ limit = LimitOf[Due]

\* The part of a settled call in the change, by its place.
Follows(t) ==
    LET c == call[t] IN
    /\ c.at \in {"compare", "load", "store", "stamp"} => c.seen = file.time
    /\ c.at = "load" /\ file.content \in Loadable => Due = file.content
    /\ c.at \in {"store", "stamp"} => file.content \in Loadable /\ Due = file.content
    /\ c.at = "store" => c.view = file.content
    /\ c.at \in {"stamp", "return"} => config = Due
    /\ c.at \in {"check", "locked", "limit"} => c.view = Due
    /\ c.at = "limit" => limit # LimitOf[Due]
    /\ c.at = "take" => InForce
    /\ c.at \in {"acquire"} \cup Inside => InForce /\ c.gate = current

TakesOver ==
    /\ settled \in [Thread -> BOOLEAN]
    /\ current = 0 => limit = 0
    /\ \A t \in Thread : settled[t] => Renewed /\ Follows(t)

\* A step of one thread that changes nothing the others follow.
LEMMA OwnStep ==
    ASSUME TakesOver, NEW t \in Thread,
           \A u \in Thread \ {t} : call'[u] = call[u],
           call'[t].at \in Approaching => call[t].at \in Approaching,
           settled[t] /\ Follows(t) => Follows(t)',
           UNCHANGED <<file, config, configTime, current, limit, settled>>
    PROVE  TakesOver'
<1>1. Renewed => Renewed'
    BY DEF Renewed
<1>2. ASSUME NEW u \in Thread \ {t}, Follows(u)
      PROVE  Follows(u)'
    BY <1>2 DEF Follows, Due, Stale, InForce
<1>3. ASSUME NEW u \in Thread, settled[u]
      PROVE  Renewed' /\ Follows(u)'
    BY <1>1, <1>2, <1>3 DEF TakesOver
<1> QED
    BY <1>3 DEF TakesOver

\* A step before the semaphore that does change something: if any call is
\* settled, the one that takes the step is.
LEMMA SharedStep ==
    ASSUME TakesOver, NEW t \in Thread, call[t].at \in Approaching,
           \A u \in Thread \ {t} : call'[u] = call[u],
           UNCHANGED <<file, settled>>,
           current' = 0 => limit' = 0,
           ASSUME settled[t], Follows(t)
           PROVE  /\ Follows(t)'
                  /\ \A u \in Thread \ {t} : Follows(u) => Follows(u)'
    PROVE  TakesOver'
<1>1. Renewed => Renewed'
    BY DEF Renewed
<1>2. ASSUME NEW u \in Thread, settled[u]
      PROVE  Renewed' /\ Follows(u)'
    <2>1. Renewed /\ settled[t] /\ Follows(t) /\ Follows(u)
        BY <1>2 DEF TakesOver, Renewed
    <2> QED
        BY <1>1, <2>1
<1> QED
    BY <1>2 DEF TakesOver

LEMMA TakesOverInit == Init => TakesOver
    BY DEF Init, TakesOver
\* In the registry a call follows nothing yet, and after its end nothing more.
LEMMA Uncommitted ==
    ASSUME NEW t \in Thread,
           call'[t].at \in {"idle", "publish", "register", "fill", "found", "provider", "stat"}
    PROVE  Follows(t)'
    BY DEF Follows, Inside

LEMMA RegisteringTakesOver ==
    ASSUME Inv, TakesOver, NEW t \in Thread, Registering(t)
    PROVE  TakesOver'
<1>1. call \in [Thread -> CallRecord]
    BY DEF Inv, Typed
<1>2. /\ call[t].at \in Approaching
      /\ UNCHANGED <<file, config, configTime, current, limit, settled>>
    BY DEF Registering, FindRegistry, PublishRegistry, RegisterFrom, RegisterNext, ReturnRegistry,
         GetProvider, Goes, At, Approaching, configVars, gateVars, historyVars
<1>3. \A u \in Thread \ {t} : call'[u] = call[u]
    BY <1>1 DEF Registering, FindRegistry, PublishRegistry, RegisterFrom, RegisterNext,
         ReturnRegistry, GetProvider, Goes, Ends
<1>4. call'[t].at \in {"idle", "publish", "register", "fill", "found", "provider", "stat"}
    <2>1. CASE FindRegistry(t) \/ PublishRegistry(t) \/ RegisterFrom(t) \/ ReturnRegistry(t)
        BY <1>1, <2>1 DEF FindRegistry, PublishRegistry, RegisterFrom, ReturnRegistry, Goes, CallRecord
    <2>2. CASE RegisterNext(t)
        BY <1>1, <2>2 DEF RegisterNext, At, CallRecord
    <2>3. CASE GetProvider(t)
        BY <1>1, <2>3 DEF GetProvider, Ends, Idle, CallRecord
    <2> QED
        BY <2>1, <2>2, <2>3 DEF Registering
<1> QED
    BY <1>2, <1>3, <1>4, Uncommitted, OwnStep

\* The settled calls bring the cached instance to what is due, and stay there.
LEMMA ConfiguringTakesOver ==
    ASSUME Inv, TakesOver, NEW t \in Thread, Configuring(t)
    PROVE  TakesOver'
<1> DEFINE c == call[t]
<1>1. call \in [Thread -> CallRecord] /\ c \in CallRecord /\ Gone \notin Loadable
    BY LlmCallAssumption DEF Inv, Typed
<1>2. CASE StatMissing(t)
    <2>1. /\ c.at = "stat" /\ file.content = Gone
          /\ UNCHANGED <<file, config, configTime, current, limit, settled>>
          /\ \A u \in Thread \ {t} : call'[u] = call[u]
          /\ call'[t].at \in {"idle", "return"}
        BY <1>1, <1>2 DEF StatMissing, Goes, Ends, At, Idle, CallRecord, configVars, gateVars, historyVars
    <2>2. Follows(t)'
        BY <1>1, <2>1 DEF Follows, Due, Inside
    <2> QED
        BY <2>1, <2>2, OwnStep DEF Approaching
<1>3. CASE Stat(t)
    <2>1. /\ c.at = "stat"
          /\ UNCHANGED <<file, config, configTime, current, limit, settled>>
          /\ \A u \in Thread \ {t} : call'[u] = call[u]
          /\ call'[t].at = "compare" /\ call'[t].seen = file.time
        BY <1>1, <1>3 DEF Stat, At, CallRecord, configVars, gateVars, historyVars
    <2>2. Follows(t)'
        BY <2>1 DEF Follows, Inside
    <2> QED
        BY <2>1, <2>2, OwnStep DEF Approaching
<1>8. CASE Compare(t)
    <2>1. /\ c.at = "compare"
          /\ UNCHANGED <<file, config, configTime, current, limit, settled>>
          /\ \A u \in Thread \ {t} : call'[u] = call[u]
          /\ call'[t].at = IF OutOfDate(t) THEN "load" ELSE "return"
          /\ call'[t].seen = c.seen
        BY <1>1, <1>8 DEF Compare, Goes, At, CallRecord, configVars, gateVars, historyVars
    <2>2. Follows(t) => Follows(t)'
        BY <2>1 DEF Follows, Due, Stale, OutOfDate, Inside
    <2> QED
        BY <2>1, <2>2, OwnStep DEF Approaching
<1>4. CASE Load(t)
    <2>1. /\ c.at = "load"
          /\ UNCHANGED <<file, config, configTime, current, limit, settled>>
          /\ \A u \in Thread \ {t} : call'[u] = call[u]
          /\ \/ call'[t].at = "idle"
             \/ /\ file.content \in Loadable /\ call'[t].at = "store"
                /\ call'[t].view = file.content /\ call'[t].seen = c.seen
        BY <1>1, <1>4 DEF Load, Ends, At, Idle, CallRecord, configVars, gateVars, historyVars
    <2>2. Follows(t) => Follows(t)'
        BY <2>1 DEF Follows, Due, Stale, Inside
    <2> QED
        BY <2>1, <2>2, OwnStep DEF Approaching
<1>5. CASE StoreConfig(t)
    <2>1. /\ c.at = "store" /\ config' = c.view
          /\ UNCHANGED <<file, configTime, current, limit, settled>>
          /\ \A u \in Thread \ {t} : call'[u] = call[u]
          /\ call'[t] = [c EXCEPT !.at = "stamp"]
        BY <1>1, <1>5 DEF StoreConfig, Goes, At, CallRecord, gateVars, historyVars
    <2>2. ASSUME Follows(t)
          PROVE  /\ Follows(t)'
                 /\ \A u \in Thread \ {t} : Follows(u) => Follows(u)'
        <3>1. /\ config' = file.content /\ Due = file.content /\ Due' = Due
              /\ file.content \in Loadable /\ c.seen = file.time
            BY <2>1, <2>2 DEF Follows, Due
        <3>2. call'[t].at = "stamp" /\ call'[t].seen = c.seen
            BY <1>1, <2>1 DEF CallRecord
        <3>3. Follows(t)'
            BY <2>1, <3>1, <3>2 DEF Follows, Inside
        <3>4. ASSUME NEW u \in Thread \ {t}, Follows(u)
              PROVE  Follows(u)'
            BY <2>1, <3>1, <3>4 DEF Follows, InForce
        <3> QED
            BY <3>3, <3>4
    <2> QED
        BY <2>1, <2>2, SharedStep DEF TakesOver, Approaching
<1>6. CASE StampConfig(t)
    <2>1. /\ c.at = "stamp" /\ configTime' = c.seen
          /\ UNCHANGED <<file, config, current, limit, settled>>
          /\ \A u \in Thread \ {t} : call'[u] = call[u]
          /\ call'[t] = [c EXCEPT !.at = "return"]
        BY <1>1, <1>6 DEF StampConfig, Goes, At, CallRecord, gateVars, historyVars
    <2>2. ASSUME Follows(t)
          PROVE  /\ Follows(t)'
                 /\ \A u \in Thread \ {t} : Follows(u) => Follows(u)'
        <3>1. config = file.content /\ Due = file.content /\ Due' = Due
            BY <2>1, <2>2 DEF Follows, Due
        <3>2. call'[t].at = "return"
            BY <1>1, <2>1 DEF CallRecord
        <3>3. Follows(t)'
            BY <2>1, <3>1, <3>2 DEF Follows, Inside
        <3>4. ASSUME NEW u \in Thread \ {t}, Follows(u)
              PROVE  Follows(u)'
            BY <2>1, <3>1, <3>4 DEF Follows, InForce
        <3> QED
            BY <3>3, <3>4
    <2> QED
        BY <2>1, <2>2, SharedStep DEF TakesOver, Approaching
<1>7. CASE ReturnConfig(t)
    <2>1. /\ c.at = "return"
          /\ UNCHANGED <<file, config, configTime, current, limit, settled>>
          /\ \A u \in Thread \ {t} : call'[u] = call[u]
          /\ call'[t].at \in {"check", "register"} /\ call'[t].view = config
        BY <1>1, <1>7 DEF ReturnConfig, At, CallRecord, configVars, gateVars, historyVars
    <2>2. Follows(t) => Follows(t)'
        BY <2>1 DEF Follows, Due, Stale, Inside
    <2> QED
        BY <2>1, <2>2, OwnStep DEF Approaching
<1> QED
    BY <1>2, <1>3, <1>4, <1>5, <1>6, <1>7, <1>8 DEF Configuring
\* The semaphore is replaced at most once, by one with the limit that is due.
LEMMA EnteringTakesOver ==
    ASSUME Inv, TakesOver, NEW t \in Thread, Entering(t)
    PROVE  TakesOver'
<1> DEFINE c == call[t]
<1>1. /\ call \in [Thread -> CallRecord] /\ c \in CallRecord /\ Knows(t)
      /\ Len(semaphores) \in Nat /\ current \in Nat
    BY Lengths DEF Inv, Typed
<1>2. CASE CheckLimit(t)
    <2>1. /\ c.at = "check"
          /\ UNCHANGED <<file, config, configTime, current, limit, settled>>
          /\ \A u \in Thread \ {t} : call'[u] = call[u]
          /\ call'[t] = [c EXCEPT !.at = IF NeedsSemaphore(t) THEN "locked" ELSE "take"]
        BY <1>1, <1>2 DEF CheckLimit, Goes, At, configVars, gateVars, historyVars
    <2>2. call'[t].view = c.view /\ call'[t].at = IF NeedsSemaphore(t) THEN "locked" ELSE "take"
        BY <1>1, <2>1 DEF CallRecord
    <2>3. Follows(t) => Follows(t)'
        BY <2>1, <2>2 DEF Follows, Due, Stale, InForce, NeedsSemaphore, Wanted, Inside
    <2> QED
        BY <2>1, <2>2, <2>3, OwnStep DEF Approaching
<1>3. CASE FoundByOther(t)
    <2>1. /\ c.at = "locked" /\ current # 0 /\ limit = LimitOf[c.view]
          /\ UNCHANGED <<file, config, configTime, current, limit, settled>>
          /\ \A u \in Thread \ {t} : call'[u] = call[u]
          /\ call'[t].at = "take"
        BY <1>1, <1>3 DEF FoundByOther, SecondLook, NeedsSemaphore, Wanted, Goes, At, CallRecord,
             configVars, gateVars, historyVars
    <2>2. Follows(t) => Follows(t)'
        BY <2>1 DEF Follows, Due, Stale, InForce, Inside
    <2> QED
        BY <2>1, <2>2, OwnStep DEF Approaching
<1>4. CASE CreateSemaphore(t)
    <2>1. /\ c.at = "locked" /\ (current = 0 \/ LimitOf[c.view] # limit)
          /\ current' = Len(semaphores) + 1
          /\ UNCHANGED <<file, config, configTime, limit, settled>>
          /\ \A u \in Thread \ {t} : call'[u] = call[u]
          /\ call'[t] = [c EXCEPT !.at = "limit"]
        BY <1>1, <1>4 DEF CreateSemaphore, SecondLook, NeedsSemaphore, Wanted, Goes, At, configVars,
             historyVars
    <2>2. call'[t].view = c.view /\ call'[t].at = "limit" /\ current' # 0
        BY <1>1, <2>1 DEF CallRecord
    <2>3. LimitOf[c.view] # limit
        <3>1. c.view \in Loadable
            BY <1>1, <2>1 DEF Knows
        <3>2. LimitOf[c.view] # 0
            BY <3>1, LlmCallAssumption
        <3> QED
            BY <2>1, <3>2 DEF TakesOver
    <2>4. ASSUME Follows(t)
          PROVE  /\ Follows(t)'
                 /\ \A u \in Thread \ {t} : Follows(u) => Follows(u)'
        <3>1. c.view = Due /\ Due' = Due /\ ~InForce
            BY <2>1, <2>3, <2>4 DEF Follows, Due, Stale, InForce
        <3>2. Follows(t)'
            BY <2>1, <2>2, <2>3, <3>1 DEF Follows, Inside
        <3>3. ASSUME NEW u \in Thread \ {t}, Follows(u)
              PROVE  Follows(u)'
            BY <2>1, <3>1, <3>3 DEF Follows
        <3> QED
            BY <3>2, <3>3
    <2> QED
        BY <2>1, <2>2, <2>4, SharedStep DEF Approaching
<1>5. CASE SetLimit(t)
    <2>1. /\ c.at = "limit" /\ limit' = LimitOf[c.view] /\ current # 0
          /\ UNCHANGED <<file, config, configTime, current, settled>>
          /\ \A u \in Thread \ {t} : call'[u] = call[u] /\ call[u].at # "limit"
          /\ call'[t].at = "take"
        BY <1>1, <1>5 DEF SetLimit, Wanted, Goes, At, CallRecord, Knows, Inv, LockHeld, configVars,
             historyVars
    <2>2. ASSUME Follows(t)
          PROVE  /\ Follows(t)'
                 /\ \A u \in Thread \ {t} : Follows(u) => Follows(u)'
        <3>1. c.view = Due /\ Due' = Due /\ ~InForce
            BY <2>1, <2>2 DEF Follows, Due, Stale, InForce
        <3>2. Follows(t)'
            BY <2>1, <3>1 DEF Follows, InForce, Inside
        <3>3. ASSUME NEW u \in Thread \ {t}, Follows(u)
              PROVE  Follows(u)'
            BY <2>1, <3>1, <3>3 DEF Follows
        <3> QED
            BY <3>2, <3>3
    <2> QED
        BY <2>1, <2>2, SharedStep DEF Approaching
<1>6. CASE Take(t)
    <2>1. /\ c.at = "take"
          /\ UNCHANGED <<file, config, configTime, current, limit, settled>>
          /\ \A u \in Thread \ {t} : call'[u] = call[u]
          /\ call'[t].at = "acquire" /\ call'[t].gate = current
        BY <1>1, <1>6 DEF Take, At, CallRecord, configVars, gateVars, historyVars
    <2>2. Follows(t) => Follows(t)'
        BY <2>1 DEF Follows, Due, Stale, InForce, Inside
    <2> QED
        BY <2>1, <2>2, OwnStep DEF Approaching
<1>7. CASE Acquire(t)
    <2>1. /\ c.at = "acquire"
          /\ UNCHANGED <<file, config, configTime, current, limit, settled>>
          /\ \A u \in Thread \ {t} : call'[u] = call[u]
          /\ call'[t].at = "loop" /\ call'[t].gate = c.gate
        BY <1>1, <1>7 DEF Acquire, Goes, At, CallRecord, configVars, historyVars
    <2>2. Follows(t) => Follows(t)'
        BY <2>1 DEF Follows, Due, Stale, InForce, Inside
    <2> QED
        BY <2>1, <2>2, OwnStep DEF Approaching
<1> QED
    BY <1>2, <1>3, <1>4, <1>5, <1>6, <1>7 DEF Entering

LEMMA RequestingTakesOver ==
    ASSUME Inv, TakesOver, NEW t \in Thread, Requesting(t)
    PROVE  TakesOver'
<1>1. call \in [Thread -> CallRecord] /\ call[t] \in CallRecord
    BY DEF Inv, Typed
<1>2. /\ call[t].at \in Inside
      /\ UNCHANGED <<file, config, configTime, current, limit, settled>>
      /\ \A u \in Thread \ {t} : call'[u] = call[u]
    BY <1>1 DEF Requesting, GetLoop, StartLoop, Retry, Finish, Goes, Ends, At, Inside, configVars,
         gateVars, historyVars
<1>3. \/ call'[t].at \in Inside /\ call'[t].gate = call[t].gate
      \/ call'[t].at = "idle"
    BY <1>1 DEF Requesting, GetLoop, StartLoop, Retry, Finish, Goes, Ends, At, Idle, Inside, CallRecord
<1>4. Follows(t) => Follows(t)'
    BY <1>2, <1>3 DEF Follows, Due, Stale, InForce, Inside
<1> QED
    BY <1>2, <1>3, <1>4, OwnStep DEF Approaching, Inside

\* A call that begins beside settled ones only is settled, and one that begins
\* beside another finds none that is.
LEMMA BeginTakesOver ==
    ASSUME Inv, TakesOver, NEW t \in Thread, Begin(t)
    PROVE  TakesOver'
<1>1. call \in [Thread -> CallRecord]
    BY DEF Inv, Typed
<1>2. /\ call[t].at = "idle" /\ call'[t].at = "registry"
      /\ UNCHANGED <<file, config, configTime, current, limit>>
      /\ \A u \in Thread \ {t} : call'[u] = call[u]
    BY <1>1 DEF Begin, Goes, At, CallRecord, configVars, gateVars
<1>3. /\ settled' \in [Thread -> BOOLEAN] /\ settled'[t] = Renewed
      /\ \A u \in Thread \ {t} : settled'[u] = settled[u]
    BY DEF Begin, TakesOver, Renewed
<1>4. ASSUME NEW u \in Thread, settled'[u]
      PROVE  Renewed' /\ Follows(u)'
    <2>1. Renewed
        BY <1>3, <1>4 DEF TakesOver
    <2>2. Renewed'
        BY <1>2, <1>3, <2>1 DEF Renewed
    <2>3. Follows(t)'
        BY <1>2 DEF Follows, Inside
    <2>4. CASE u # t
        <3>1. Follows(u) /\ call'[u] = call[u]
            BY <1>2, <1>3, <1>4, <2>4 DEF TakesOver
        <3> QED
            BY <1>2, <2>2, <3>1 DEF Follows, Due, Stale, InForce
    <2> QED
        BY <2>2, <2>3, <2>4
<1> QED
    BY <1>2, <1>3, <1>4 DEF TakesOver

LEMMA TakesOverStep == Inv /\ TakesOver /\ [Next]_vars => TakesOver'
<1> SUFFICES ASSUME Inv, TakesOver, [Next]_vars PROVE TakesOver'
    OBVIOUS
<1>1. CASE \E t \in Thread : Begin(t) \/ CallStep(t)
    BY <1>1, BeginTakesOver, RegisteringTakesOver, ConfiguringTakesOver, EnteringTakesOver,
       RequestingTakesOver DEF CallStep
<1>2. CASE \E c \in Content \cup {Gone} : Edit(c)
    BY <1>2 DEF Edit, TakesOver, gateVars
<1>3. CASE UNCHANGED vars
    BY <1>3 DEF vars, configVars, gateVars, historyVars, TakesOver, Renewed, Follows, Due, Stale,
         InForce
<1> QED
    BY <1>1, <1>2, <1>3 DEF Next

\* After a change of the configured limit, the calls that began since and have
\* a slot share one semaphore and are no more than its limit, for any number of
\* threads and changes (_get_semaphore and get_config, read and written without
\* a common lock).
THEOREM NewLimitTakesOver == Spec => []LimitRestored
<1>1. Inv /\ TakesOver => LimitRestored
    <2> SUFFICES ASSUME Inv, TakesOver, NEW t \in {u \in InFlight : settled[u]}
                 PROVE  Cardinality({u \in InFlight : settled[u]}) <= semaphores[call[t].gate].limit
        BY DEF LimitRestored
    <2> DEFINE late == {u \in InFlight : settled[u]}
    <2>1. \A u \in late : call[u].at \in Inside /\ call[u].gate = current
        BY DEF TakesOver, Follows, InFlight
    <2>2. late \subseteq Holders(current)
        BY <2>1 DEF Holders, InFlight
    <2>3. IsFiniteSet(Thread) /\ Holders(current) \subseteq Thread
        BY LlmCallAssumption DEF Holders
    <2>4. IsFiniteSet(Holders(current))
        BY <2>3, FS_Subset
    <2>5. /\ Cardinality(late) <= Cardinality(Holders(current))
          /\ Cardinality(late) \in Nat /\ Cardinality(Holders(current)) \in Nat
        BY <2>2, <2>4, FS_Subset, FS_CardinalityType
    <2>6. current \in 1 .. Len(semaphores)
        <3>1. current # 0
            BY DEF InFlight, TakesOver, Follows, InForce
        <3>2. current \in 0 .. Len(semaphores) /\ Len(semaphores) \in Nat
            BY Lengths DEF Inv, Typed
        <3> QED
            BY <3>1, <3>2
    <2>7. /\ semaphores[current] \in Semaphore
          /\ Cardinality(Holders(current)) <= semaphores[current].limit
        BY <2>6 DEF Inv, Typed, SlotsHeld
    <2>8. semaphores[current].limit \in Nat
        BY <2>7 DEF Semaphore
    <2> QED
        BY <2>1, <2>5, <2>7, <2>8
<1>2. Spec => []TakesOver
    BY InitInv, StepInv, TakesOverInit, TakesOverStep, PTL DEF Spec
<1> QED
    BY <1>1, <1>2, Bookkeeping, PTL
=============================================================================
