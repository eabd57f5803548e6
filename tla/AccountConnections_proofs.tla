----------------------- MODULE AccountConnections_proofs -----------------------
(***************************************************************************)
(* Proofs about AccountConnections, for any tabs, kinds, failures and        *)
(* numbers of goroutines and logins.                                        *)
(***************************************************************************)
EXTENDS AccountConnections, TLAPS

-------------------------------------------------------------------------------
\* The inductive invariant

\* What the account's cancel functions and the Stop of its SignalR objects reach
\* was started, and is of their kind.
Reach ==
    /\ \A k \in AllKinds : cancelFn[k] # NoConn =>
            conn[cancelFn[k]].kind = k /\ conn[cancelFn[k]].phase # "unused"
    /\ \A n \in 1..MaxLogins : stopFn[n] # NoConn =>
            conn[stopFn[n]].kind = "signalr" /\ conn[stopFn[n]].phase # "unused"

Reached == \A k \in AllKinds : LiveOfKind(k) \subseteq {cancelFn[k]}

\* A flag that is not set allows a start: nothing runs.
UnsetIsIdle == \A k \in AllKinds : ~started[k] => LiveOfKind(k) = {}

\* Who has stopped a connection and not yet let go of the account finds it stopped.
StaysStopped ==
    /\ smu = "paused" => LiveOfKind("signalr") = {}
    /\ smu \in {"relogin", "removing"} \/ ~inMap => \A k \in AllKinds : LiveOfKind(k) = {}

\* A flag that is set, and that nobody is about to clear for having stopped its
\* connection, has a goroutine that runs or will clear it.
SetIsAlive ==
    \A k \in AllKinds :
        /\ inMap /\ started[k]
        /\ smu \in {"none", "pausing"} \/ (smu = "paused" /\ k = "fcm")
        => /\ cancelFn[k] # NoConn
           /\ Live(cancelFn[k]) \/ conn[cancelFn[k]].phase = "failed"

OpenIsCurrent ==
    \A c \in LiveOfKind("fcm") : conn[c].phase = "open" => pns = login

Calm == Reached /\ UnsetIsIdle /\ StaysStopped /\ SetIsAlive /\ OpenIsCurrent

Inv ==
    /\ TypeOK
    /\ smu = "relogin" => login < MaxLogins
    /\ Reach
    /\ races = {} => Calm

ConnType == [kind : AllKinds,
             phase : {"unused", "spawned", "dialing", "open", "unheard", "failed", "dead"},
             cancelled : BOOLEAN]

-------------------------------------------------------------------------------
\* What a step does to the goroutines

LEMMA PhaseEffect ==
    ASSUME TypeOK, NEW c \in ConnIds, Phase(c, "dialing") \/ Phase(c, "open")
             \/ Phase(c, "unheard") \/ Phase(c, "failed") \/ Phase(c, "dead")
    PROVE  /\ conn' \in [ConnIds -> ConnType]
           /\ \A d \in ConnIds : /\ conn'[d].kind = conn[d].kind
                                 /\ conn'[d].cancelled = conn[d].cancelled
                                 /\ conn'[d].phase # conn[d].phase => d = c
           /\ conn'[c].phase # "unused"
BY DEF Phase, TypeOK, ConnType

LEMMA CancelEffect ==
    ASSUME TypeOK, NEW cs, Cancel(cs)
    PROVE  /\ conn' \in [ConnIds -> ConnType]
           /\ \A d \in ConnIds : /\ conn'[d].kind = conn[d].kind
                                 /\ conn'[d].phase = conn[d].phase
                                 /\ Live(d)' => Live(d) /\ d \notin cs
                                 /\ Live(d) /\ d \notin cs => Live(d)'
<1>1. conn' \in [ConnIds -> ConnType]
    <2>1. ASSUME NEW d \in ConnIds
          PROVE  (IF d \in cs THEN [conn[d] EXCEPT !.cancelled = TRUE] ELSE conn[d]) \in ConnType
        <3>1. conn[d] \in ConnType
            BY DEF TypeOK, ConnType
        <3>2. CASE d \in cs
            BY <3>1, <3>2 DEF ConnType
        <3>3. CASE d \notin cs
            BY <3>1, <3>3
        <3>4. QED
            BY <3>2, <3>3
    <2>2. QED
        BY <2>1 DEF Cancel
<1>2. ASSUME NEW d \in ConnIds
      PROVE  /\ conn'[d].kind = conn[d].kind
             /\ conn'[d].phase = conn[d].phase
             /\ Live(d)' => Live(d) /\ d \notin cs
             /\ Live(d) /\ d \notin cs => Live(d)'
    <2>1. conn[d] \in ConnType
        BY DEF TypeOK, ConnType
    <2>2. CASE d \in cs
        <3>1. conn'[d] = [conn[d] EXCEPT !.cancelled = TRUE]
            BY <2>2 DEF Cancel
        <3>2. QED
            BY <2>1, <2>2, <3>1 DEF ConnType, Live
    <2>3. CASE d \notin cs
        <3>1. conn'[d] = conn[d]
            BY <2>3 DEF Cancel
        <3>2. QED
            BY <2>3, <3>1 DEF Live
    <2>4. QED
        BY <2>2, <2>3
<1>3. QED
    BY <1>1, <1>2

LEMMA SpawnEffect ==
    ASSUME TypeOK, NEW c \in ConnIds, NEW k \in AllKinds, Spawn(c, k)
    PROVE  /\ conn' \in [ConnIds -> ConnType]
           /\ conn[c].phase = "unused"
           /\ conn'[c].kind = k /\ conn'[c].phase = "spawned" /\ ~conn'[c].cancelled
           /\ \A d \in ConnIds : d # c => conn'[d] = conn[d]
           /\ cancelFn' = [cancelFn EXCEPT ![k] = c]
           /\ races' = races \cup StartRace
<1>1. conn[c].phase = "unused"
    BY DEF Spawn, Fresh, ConnIds
<1>2. conn' \in [ConnIds -> ConnType]
    BY DEF Spawn, Unused, TypeOK, ConnType
<1>3. conn'[c] = [kind |-> k, phase |-> "spawned", cancelled |-> FALSE]
    BY DEF Spawn, Unused, TypeOK
<1>4. conn'[c].kind = k /\ conn'[c].phase = "spawned" /\ conn'[c].cancelled = FALSE
    BY <1>3
<1>5. \A d \in ConnIds : d # c => conn'[d] = conn[d]
    BY DEF Spawn, TypeOK
<1>6. cancelFn' = [cancelFn EXCEPT ![k] = c] /\ races' = races \cup StartRace
    BY DEF Spawn
<1>7. QED
    BY <1>1, <1>2, <1>4, <1>5, <1>6

\* A step after which no other goroutines are alive than before.
LEMMA LiveShrinks ==
    ASSUME \A d \in ConnIds : conn'[d].kind = conn[d].kind /\ (Live(d)' => Live(d))
    PROVE  \A k \in AllKinds : LiveOfKind(k)' \subseteq LiveOfKind(k)
BY DEF LiveOfKind

-------------------------------------------------------------------------------
\* Types and kinds

LEMMA InitInv == Init => Inv
<1> SUFFICES ASSUME Init PROVE Inv
    OBVIOUS
<1>1. 1 \in ConnIds /\ 1 # NoConn /\ 1 \in 1..MaxLogins /\ NoConn \notin ConnIds
    BY ConnectionsAssumption DEF ConnIds, NoConn
<1>2. PICK restored \in BOOLEAN :
          /\ started = [k \in AllKinds |-> restored /\ k = "fcm"]
          /\ cancelFn = [k \in AllKinds |-> IF restored /\ k = "fcm" THEN 1 ELSE NoConn]
          /\ conn = [c \in ConnIds |->
                       IF restored /\ c = 1
                       THEN [kind |-> "fcm", phase |-> "spawned", cancelled |-> FALSE]
                       ELSE Unused]
    BY DEF Init
<1>3. started \in [AllKinds -> BOOLEAN] /\ cancelFn \in [AllKinds -> ConnIds \cup {NoConn}]
    BY <1>1, <1>2
<1>4. conn \in [ConnIds -> ConnType]
    BY <1>2 DEF ConnType, AllKinds, Unused
<1>5. TypeOK
    BY <1>1, <1>3, <1>4, ConnectionsAssumption DEF Init, TypeOK, ConnType
<1>6. CASE restored
    <2>1. /\ \A c \in ConnIds : Live(c) <=> c = 1
          /\ conn[1].kind = "fcm" /\ conn[1].phase = "spawned"
          /\ started["fcm"] /\ ~started["signalr"] /\ cancelFn["fcm"] = 1
          /\ cancelFn["signalr"] = NoConn
        BY <1>1, <1>2, <1>6 DEF Live, Unused, AllKinds
    <2>2. LiveOfKind("fcm") = {1} /\ LiveOfKind("signalr") = {}
        BY <1>1, <2>1 DEF LiveOfKind
    <2>3. QED
        BY <1>1, <1>5, <2>1, <2>2
        DEF Init, Inv, Reach, Calm, Reached, UnsetIsIdle, StaysStopped, SetIsAlive, OpenIsCurrent,
            AllKinds
<1>7. CASE ~restored
    <2>1. /\ \A c \in ConnIds : ~Live(c)
          /\ \A k \in AllKinds : ~started[k] /\ cancelFn[k] = NoConn
        BY <1>2, <1>7 DEF Live, Unused
    <2>2. \A k \in AllKinds : LiveOfKind(k) = {}
        BY <2>1 DEF LiveOfKind
    <2>3. QED
        BY <1>5, <2>1, <2>2
        DEF Init, Inv, Reach, Calm, Reached, UnsetIsIdle, StaysStopped, SetIsAlive, OpenIsCurrent,
            AllKinds
<1>8. QED
    BY <1>6, <1>7

LEMMA TypeStep == Inv /\ [Next]_vars => TypeOK' /\ (smu = "relogin" => login < MaxLogins)'
<1> DEFINE Bounded == smu = "relogin" => login < MaxLogins
<1> SUFFICES ASSUME Inv, [Next]_vars PROVE TypeOK' /\ Bounded'
    OBVIOUS
<1>0. TypeOK /\ Bounded
    BY DEF Inv
<1>1. ASSUME NEW t \in Tabs, EnterSSE(t) \/ Subscribe(t) \/ CloseTab(t) PROVE TypeOK' /\ Bounded'
    BY <1>0, <1>1 DEF EnterSSE, Subscribe, CloseTab, TypeOK, AllKinds
<1>2. ASSUME NEW t \in Tabs, NEW k \in AllKinds, Ensure(t, k) PROVE TypeOK' /\ Bounded'
    <2>1. tab' \in [Tabs -> AllKinds \cup {"idle", "subscribe", "open"}]
        BY <1>0, <1>2 DEF Ensure, After, TypeOK, AllKinds
    <2>2. UNCHANGED <<inMap, login, stopFn, smu, pns>>
        BY <1>2 DEF Ensure
    <2>3. CASE k \in Kinds /\ ~started[k]
        <3>1. PICK c \in ConnIds : Spawn(c, k)
            BY <1>2, <2>3 DEF Ensure
        <3>2. conn' \in [ConnIds -> ConnType]
            BY <1>0, <3>1, SpawnEffect
        <3>3. cancelFn' \in [AllKinds -> ConnIds \cup {NoConn}]
            BY <1>0, <3>1 DEF Spawn, TypeOK
        <3>4. started' \in [AllKinds -> BOOLEAN]
            BY <1>0, <1>2, <2>3 DEF Ensure, TypeOK
        <3>5. races' \subseteq {"lateHandler", "midRelogin", "midPause", "staleReset"}
            BY <1>0, <3>1 DEF Spawn, StartRace, TypeOK
        <3>6. QED
            BY <1>0, <2>1, <2>2, <3>2, <3>3, <3>4, <3>5 DEF TypeOK, ConnType
    <2>4. CASE ~(k \in Kinds /\ ~started[k])
        BY <1>0, <1>2, <2>1, <2>2, <2>4 DEF Ensure, TypeOK
    <2>5. QED
        BY <2>3, <2>4
<1>3. ASSUME NEW c \in ConnIds, Goroutine(c) PROVE TypeOK' /\ Bounded'
    <2>1. conn' \in [ConnIds -> ConnType]
        BY <1>0, <1>3, PhaseEffect
        DEF Goroutine, StartBegin, ListenFCM, OpenSignalR, StartFails, ClearStarted, ConnCloses
    <2>2. login \in 1..MaxLogins
        BY <1>0 DEF TypeOK
    <2>3. UNCHANGED <<inMap, login, cancelFn, tab, smu>>
        BY <1>3
        DEF Goroutine, StartBegin, ListenFCM, OpenSignalR, StartFails, ClearStarted, ConnCloses
    <2>4. stopFn' \in [1..MaxLogins -> ConnIds \cup {NoConn}]
        BY <1>0, <1>3
        DEF Goroutine, StartBegin, ListenFCM, OpenSignalR, StartFails, ClearStarted, ConnCloses,
            TypeOK
    <2>5. started' \in [AllKinds -> BOOLEAN]
        BY <1>0, <1>3
        DEF Goroutine, StartBegin, ListenFCM, OpenSignalR, StartFails, ClearStarted, ConnCloses,
            TypeOK
    <2>6. pns' \in {pns, login}
        BY <1>3
        DEF Goroutine, StartBegin, ListenFCM, OpenSignalR, StartFails, ClearStarted, ConnCloses
    <2>7. pns' \in 0..MaxLogins
        BY <1>0, <2>6, ConnectionsAssumption DEF TypeOK
    <2>8. races' \subseteq races \cup {"staleReset"}
        BY <1>3
        DEF Goroutine, StartBegin, ListenFCM, OpenSignalR, StartFails, ClearStarted, ConnCloses
    <2>9. QED
        BY <1>0, <2>1, <2>3, <2>4, <2>5, <2>7, <2>8 DEF TypeOK, ConnType
<1>4. ASSUME NEW ks, Cancel(Stopped(ks)), UNCHANGED <<inMap, login, started, cancelFn, stopFn,
                                                      tab, pns, races>>,
             smu' \in {"paused", "removing"} \/ (smu' = "relogin" /\ login < MaxLogins)
      PROVE  TypeOK' /\ Bounded'
    <2>1. conn' \in [ConnIds -> ConnType]
        BY <1>0, <1>4, CancelEffect
    <2>2. smu' \in {"none", "pausing", "paused", "relogin", "removing"} /\ Bounded'
        BY <1>4
    <2>3. QED
        BY <1>0, <1>4, <2>1, <2>2 DEF TypeOK, ConnType
<1>5. ASSUME ReaperStops \/ ReloginStops \/ StopAccount PROVE TypeOK' /\ Bounded'
    BY <1>4, <1>5 DEF ReaperStops, ReloginStops, StopAccount
<1>6. ASSUME ReaperPicks \/ ReaperClears \/ RemoveAccount PROVE TypeOK' /\ Bounded'
    BY <1>0, <1>6 DEF ReaperPicks, ReaperClears, RemoveAccount, TypeOK
<1>7. ASSUME ReloginSwaps PROVE TypeOK' /\ Bounded'
    <2>1. login' \in 1..MaxLogins /\ smu' = "none"
        BY <1>0, <1>7, ConnectionsAssumption DEF ReloginSwaps, TypeOK
    <2>2. QED
        BY <1>0, <1>7, <2>1 DEF ReloginSwaps, TypeOK
<1>8. ASSUME UNCHANGED vars PROVE TypeOK' /\ Bounded'
    BY <1>0, <1>8 DEF vars, TypeOK
<1>9. QED
    BY <1>1, <1>2, <1>3, <1>5, <1>6, <1>7, <1>8
    DEF Next, HandleSSE, Reaper, Relogin, LogoutAll

LEMMA ReachStep == Inv /\ [Next]_vars => Reach'
<1> SUFFICES ASSUME Inv, [Next]_vars PROVE Reach'
    OBVIOUS
<1>0. TypeOK /\ Reach
    BY DEF Inv
\* A goroutine that was started keeps its kind.
<1>1. ASSUME UNCHANGED <<cancelFn, stopFn>>,
             \A d \in ConnIds : conn[d].phase # "unused" =>
                conn'[d].kind = conn[d].kind /\ conn'[d].phase # "unused"
      PROVE  Reach'
    BY <1>0, <1>1 DEF Reach, TypeOK
<1>2. ASSUME NEW t \in Tabs, NEW k \in AllKinds, Ensure(t, k) PROVE Reach'
    <2>1. CASE k \in Kinds /\ ~started[k]
        <3>1. PICK c \in ConnIds : Spawn(c, k)
            BY <1>2, <2>1 DEF Ensure
        <3>2. /\ conn[c].phase = "unused"
              /\ conn'[c].kind = k /\ conn'[c].phase = "spawned"
              /\ \A d \in ConnIds : d # c => conn'[d] = conn[d]
              /\ cancelFn' = [cancelFn EXCEPT ![k] = c]
            BY <1>0, <3>1, SpawnEffect
        <3>3. stopFn' = stopFn
            BY <1>2 DEF Ensure
        <3>4. ASSUME NEW j \in AllKinds, cancelFn'[j] # NoConn
              PROVE  conn'[cancelFn'[j]].kind = j /\ conn'[cancelFn'[j]].phase # "unused"
            <4>1. CASE j = k
                BY <1>0, <3>2, <4>1 DEF TypeOK
            <4>2. CASE j # k
                BY <1>0, <3>2, <3>4, <4>2 DEF TypeOK, Reach
            <4>3. QED
                BY <4>1, <4>2
        <3>5. ASSUME NEW n \in 1..MaxLogins, stopFn'[n] # NoConn
              PROVE  conn'[stopFn'[n]].kind = "signalr" /\ conn'[stopFn'[n]].phase # "unused"
            BY <1>0, <3>2, <3>3, <3>5 DEF TypeOK, Reach
        <3>6. QED
            BY <3>4, <3>5 DEF Reach
    <2>2. CASE ~(k \in Kinds /\ ~started[k])
        BY <1>1, <1>2, <2>2 DEF Ensure
    <2>3. QED
        BY <2>1, <2>2
<1>3. ASSUME NEW c \in ConnIds, StartBegin(c) PROVE Reach'
    <2>1. /\ \A d \in ConnIds : /\ conn'[d].kind = conn[d].kind
                                /\ conn'[d].phase # conn[d].phase => d = c
          /\ conn'[c].phase # "unused" /\ cancelFn' = cancelFn
        BY <1>0, <1>3, PhaseEffect DEF StartBegin
    <2>2. \A n \in 1..MaxLogins : stopFn'[n] = stopFn[n] \/ (stopFn'[n] = c /\ conn[c].kind = "signalr")
        BY <1>0, <1>3 DEF StartBegin, TypeOK
    <2>3. QED
        BY <1>0, <2>1, <2>2 DEF Reach, TypeOK
<1>4. ASSUME NEW c \in ConnIds,
             ListenFCM(c) \/ OpenSignalR(c) \/ StartFails(c) \/ ClearStarted(c) \/ ConnCloses(c)
      PROVE  Reach'
    <2>1. UNCHANGED <<cancelFn, stopFn>>
        BY <1>4 DEF ListenFCM, OpenSignalR, StartFails, ClearStarted, ConnCloses
    <2>2. /\ \A d \in ConnIds : /\ conn'[d].kind = conn[d].kind
                                /\ conn'[d].phase # conn[d].phase => d = c
          /\ conn'[c].phase # "unused"
        BY <1>0, <1>4, PhaseEffect
        DEF ListenFCM, OpenSignalR, StartFails, ClearStarted, ConnCloses
    <2>3. QED
        BY <1>1, <2>1, <2>2
<1>5. ASSUME ReaperStops \/ ReloginStops \/ StopAccount PROVE Reach'
    <2>1. PICK ks \in SUBSET AllKinds : Cancel(Stopped(ks)) /\ UNCHANGED <<cancelFn, stopFn>>
        BY <1>5 DEF ReaperStops, ReloginStops, StopAccount, AllKinds
    <2>2. QED
        BY <1>0, <1>1, <2>1, CancelEffect
<1>6. ASSUME UNCHANGED <<conn, cancelFn, stopFn>> PROVE Reach'
    BY <1>1, <1>6
<1>7. QED
    BY <1>2, <1>3, <1>4, <1>5, <1>6
    DEF Next, HandleSSE, EnterSSE, Subscribe, CloseTab, Goroutine, Reaper, Relogin, LogoutAll,
        ReaperPicks, ReaperClears, ReloginSwaps, RemoveAccount, vars

-------------------------------------------------------------------------------
\* What runs

\* A step of a goroutine that stays alive, or ends.
LEMMA GoroutineLives ==
    ASSUME TypeOK, NEW c \in ConnIds, Goroutine(c)
    PROVE  /\ \A d \in ConnIds : /\ conn'[d].kind = conn[d].kind
                                 /\ Live(d)' => Live(d)
                                 /\ Live(d) => Live(d)' \/ (d = c /\ conn'[d].phase = "failed")
                                 /\ conn[d].phase = "failed" =>
                                        conn'[d].phase = "failed" \/ (d = c /\ ClearStarted(c))
                                 /\ conn'[d].phase = "open" =>
                                        conn[d].phase = "open" \/ conn[d].kind = "signalr"
                                        \/ (d = c /\ pns' = login)
           /\ UNCHANGED <<inMap, login, cancelFn, smu>>
<1>1. /\ \A d \in ConnIds : /\ conn'[d].kind = conn[d].kind
                            /\ conn'[d].cancelled = conn[d].cancelled
                            /\ conn'[d].phase # conn[d].phase => d = c
      /\ UNCHANGED <<inMap, login, cancelFn, smu>>
    BY PhaseEffect
    DEF Goroutine, StartBegin, ListenFCM, OpenSignalR, StartFails, ClearStarted, ConnCloses
<1>2. /\ Live(c)' => Live(c)
      /\ Live(c) => Live(c)' \/ conn'[c].phase = "failed"
      /\ conn[c].phase = "failed" => ClearStarted(c)
      /\ conn'[c].phase = "open" => conn[c].kind = "signalr" \/ pns' = login
    <2>1. ASSUME NEW ph, Phase(c, ph) PROVE conn'[c].phase = ph /\ conn'[c].cancelled = conn[c].cancelled
        BY <2>1 DEF Phase, TypeOK
    <2>2. CASE StartBegin(c)
        BY <2>1, <2>2 DEF StartBegin, Live
    <2>3. CASE ListenFCM(c)
        BY <2>1, <2>3 DEF ListenFCM, Live
    <2>4. CASE OpenSignalR(c)
        BY <2>1, <2>4 DEF OpenSignalR, Live
    <2>5. CASE StartFails(c)
        BY <2>1, <2>5 DEF StartFails, Live
    <2>6. CASE ClearStarted(c)
        BY <2>1, <2>6 DEF ClearStarted, Live
    <2>7. CASE ConnCloses(c)
        <3>1. conn'[c].phase = "dead" /\ conn[c].cancelled /\ conn[c].phase \in {"open", "unheard"}
            BY <2>1, <2>7 DEF ConnCloses
        <3>2. QED
            BY <3>1 DEF Live
    <2>8. QED
        BY <2>2, <2>3, <2>4, <2>5, <2>6, <2>7 DEF Goroutine
<1>3. ASSUME NEW d \in ConnIds, d # c
      PROVE  conn'[d].phase = conn[d].phase /\ (Live(d)' <=> Live(d))
    BY <1>1, <1>3 DEF Live
<1>4. QED
    BY <1>1, <1>2, <1>3

\* Of what it stops, nothing is left alive that was of the account.
LEMMA StoppedIsDead ==
    ASSUME TypeOK, Reached, NEW ks \in SUBSET AllKinds, Cancel(Stopped(ks))
    PROVE  \A k \in ks : LiveOfKind(k)' = {}
<1> SUFFICES ASSUME NEW k \in ks, NEW d \in LiveOfKind(k)' PROVE FALSE
    OBVIOUS
<1>1. d \in ConnIds /\ Live(d) /\ d \notin Stopped(ks) /\ conn[d].kind = k
    BY CancelEffect DEF LiveOfKind
<1>2. d = cancelFn[k]
    BY <1>1 DEF Reached, LiveOfKind
<1>3. QED
    BY <1>1, <1>2 DEF Stopped

LEMMA CalmStep == Inv /\ [Next]_vars /\ races' = {} => Calm'
<1> SUFFICES ASSUME Inv, [Next]_vars, races' = {} PROVE Calm'
    OBVIOUS
<1>0. TypeOK /\ Reach
    BY DEF Inv
<1>1. races = {}
    BY DEF Next, HandleSSE, EnterSSE, Ensure, Spawn, Subscribe, CloseTab, Goroutine, StartBegin,
           ListenFCM, OpenSignalR, StartFails, ClearStarted, ConnCloses, Reaper, ReaperPicks,
           ReaperStops, ReaperClears, Relogin, ReloginStops, ReloginSwaps, LogoutAll, StopAccount,
           RemoveAccount, vars
<1>2. Reached /\ UnsetIsIdle /\ StaysStopped /\ SetIsAlive /\ OpenIsCurrent
    BY <1>1 DEF Inv, Calm
<1>3. ASSUME UNCHANGED <<inMap, login, started, cancelFn, conn, smu, pns>> PROVE Calm'
    BY <1>2, <1>3
    DEF Calm, Reached, UnsetIsIdle, StaysStopped, SetIsAlive, OpenIsCurrent, LiveOfKind, Live
\* A start: the flag was not set, so nothing of the kind runs; no race, so nobody
\* is stopping the account.
<1>4. ASSUME NEW t \in Tabs, NEW k \in AllKinds, Ensure(t, k) PROVE Calm'
    <2>1. CASE k \in Kinds /\ ~started[k]
        <3>1. PICK c \in ConnIds : Spawn(c, k)
            BY <1>4, <2>1 DEF Ensure
        <3>2. /\ conn'[c].kind = k /\ conn'[c].phase = "spawned" /\ ~conn'[c].cancelled
              /\ \A d \in ConnIds : d # c => conn'[d] = conn[d]
              /\ cancelFn' = [cancelFn EXCEPT ![k] = c]
              /\ races' = races \cup StartRace
              /\ conn[c].phase = "unused"
            BY <1>0, <3>1, SpawnEffect
        <3>3. /\ UNCHANGED <<inMap, login, smu, pns>>
              /\ started' = [started EXCEPT ![k] = TRUE]
            BY <1>4, <2>1 DEF Ensure
        <3>4. inMap /\ smu \in {"none", "pausing"}
            <4>1. StartRace = {}
                BY <3>2
            <4>2. QED
                BY <1>0, <4>1 DEF StartRace, TypeOK
        <3>5. /\ Live(c)' /\ ~Live(c)
              /\ \A d \in ConnIds : d # c => (Live(d)' <=> Live(d))
            BY <3>2 DEF Live
        <3>6. LiveOfKind(k)' = {c}
            <4>1. LiveOfKind(k) = {}
                BY <1>2, <2>1 DEF UnsetIsIdle
            <4>2. QED
                BY <3>2, <3>5, <4>1 DEF LiveOfKind
        <3>7. \A j \in AllKinds : j # k => LiveOfKind(j)' = LiveOfKind(j)
            BY <3>2, <3>5 DEF LiveOfKind
        <3>8. /\ cancelFn'[k] = c /\ started'[k]
              /\ \A j \in AllKinds : j # k => /\ cancelFn'[j] = cancelFn[j]
                                              /\ started'[j] = started[j]
            BY <1>0, <3>2, <3>3 DEF TypeOK
        <3>9. Reached'
            BY <1>2, <3>6, <3>7, <3>8 DEF Reached
        <3>10. UnsetIsIdle'
            BY <1>2, <3>7, <3>8 DEF UnsetIsIdle
        <3>11. StaysStopped'
            BY <3>3, <3>4 DEF StaysStopped
        <3>12. SetIsAlive'
            <4> SUFFICES ASSUME NEW j \in AllKinds, started'[j]
                         PROVE  /\ cancelFn'[j] # NoConn
                                /\ Live(cancelFn[j])' \/ conn'[cancelFn'[j]].phase = "failed"
                BY DEF SetIsAlive, Live
            <4>1. CASE j = k
                BY <3>5, <3>8, <4>1 DEF ConnIds, NoConn, Live
            <4>2. CASE j # k
                <5>1. /\ cancelFn[j] # NoConn
                      /\ Live(cancelFn[j]) \/ conn[cancelFn[j]].phase = "failed"
                    BY <1>2, <3>4, <3>8, <4>2 DEF SetIsAlive
                <5>2. cancelFn[j] \in ConnIds /\ cancelFn[j] # c
                    BY <1>0, <3>2, <5>1 DEF Reach, TypeOK
                <5>3. QED
                    BY <3>2, <3>8, <4>2, <5>1, <5>2 DEF Live
            <4>3. QED
                BY <4>1, <4>2
        <3>13. OpenIsCurrent'
            <4>1. \A d \in LiveOfKind("fcm")' : conn'[d].phase = "open" => d \in LiveOfKind("fcm") /\ conn[d].phase = "open"
                BY <3>2, <3>5 DEF LiveOfKind
            <4>2. QED
                BY <1>2, <3>3, <4>1 DEF OpenIsCurrent
        <3>14. QED
            BY <3>9, <3>10, <3>11, <3>12, <3>13 DEF Calm
    <2>2. CASE ~(k \in Kinds /\ ~started[k])
        BY <1>3, <1>4, <2>2 DEF Ensure
    <2>3. QED
        BY <2>1, <2>2
<1>5. ASSUME NEW c \in ConnIds, Goroutine(c) PROVE Calm'
    <2>1. /\ \A d \in ConnIds : /\ conn'[d].kind = conn[d].kind
                                /\ Live(d)' => Live(d)
                                /\ Live(d) => Live(d)' \/ (d = c /\ conn'[d].phase = "failed")
                                /\ conn[d].phase = "failed" =>
                                       conn'[d].phase = "failed" \/ (d = c /\ ClearStarted(c))
                                /\ conn'[d].phase = "open" =>
                                        conn[d].phase = "open" \/ conn[d].kind = "signalr"
                                        \/ (d = c /\ pns' = login)
          /\ UNCHANGED <<inMap, login, cancelFn, smu>>
        BY <1>0, <1>5, GoroutineLives
    <2>2. \A k \in AllKinds : LiveOfKind(k)' \subseteq LiveOfKind(k)
        BY <2>1, LiveShrinks
    <2>3. Reached' /\ StaysStopped'
        BY <1>2, <2>1, <2>2 DEF Reached, StaysStopped, AllKinds
    <2>4. pns' \in {pns, login}
        BY <1>5
        DEF Goroutine, StartBegin, ListenFCM, OpenSignalR, StartFails, ClearStarted, ConnCloses
    <2>5. OpenIsCurrent'
        <3> SUFFICES ASSUME NEW d \in LiveOfKind("fcm")', conn'[d].phase = "open"
                     PROVE  pns' = login
            BY <2>1 DEF OpenIsCurrent
        <3>1. d \in ConnIds /\ d \in LiveOfKind("fcm") /\ conn[d].kind = "fcm"
            BY <2>2 DEF LiveOfKind, AllKinds
        <3>2. QED
            BY <1>2, <2>1, <2>4, <3>1 DEF OpenIsCurrent
    <2>6. CASE ClearStarted(c)
        <3>1. PICK j \in AllKinds : /\ j = conn[c].kind /\ cancelFn[j] = c
                                    /\ started' = [started EXCEPT ![j] = FALSE]
                                    /\ conn[c].phase = "failed"
            BY <1>0, <1>1, <2>6 DEF ClearStarted, TypeOK
        <3>2. LiveOfKind(j)' = {}
            <4>1. ~Live(c)
                BY <3>1 DEF Live
            <4>2. LiveOfKind(j) = {}
                BY <1>2, <3>1, <4>1 DEF Reached, LiveOfKind
            <4>3. QED
                BY <2>2, <3>1, <4>2
        <3>3. \A k \in AllKinds : started'[k] = IF k = j THEN FALSE ELSE started[k]
            BY <1>0, <3>1 DEF TypeOK
        <3>4. UnsetIsIdle'
            BY <1>2, <2>2, <3>2, <3>3 DEF UnsetIsIdle
        <3>5. SetIsAlive'
            <4> SUFFICES ASSUME NEW k \in AllKinds, started'[k],
                                inMap /\ (smu \in {"none", "pausing"} \/ (smu = "paused" /\ k = "fcm"))
                         PROVE  /\ cancelFn'[k] # NoConn
                                /\ Live(cancelFn[k])' \/ conn'[cancelFn'[k]].phase = "failed"
                BY <2>1 DEF SetIsAlive, Live
            <4>1. k # j /\ started[k]
                BY <3>3
            <4>2. /\ cancelFn[k] # NoConn
                  /\ Live(cancelFn[k]) \/ conn[cancelFn[k]].phase = "failed"
                BY <1>2, <4>1 DEF SetIsAlive
            <4>3. cancelFn[k] \in ConnIds /\ cancelFn[k] # c
                BY <1>0, <3>1, <4>1, <4>2 DEF Reach, TypeOK
            <4>4. QED
                BY <2>1, <4>2, <4>3 DEF Live
        <3>6. QED
            BY <2>3, <2>5, <3>4, <3>5 DEF Calm
    <2>7. CASE ~ClearStarted(c)
        <3>1. started' = started
            BY <1>5, <2>7
            DEF Goroutine, StartBegin, ListenFCM, OpenSignalR, StartFails, ConnCloses
        <3>2. UnsetIsIdle'
            BY <1>2, <2>2, <3>1 DEF UnsetIsIdle
        <3>3. SetIsAlive'
            <4> SUFFICES ASSUME NEW k \in AllKinds, started[k],
                                inMap /\ (smu \in {"none", "pausing"} \/ (smu = "paused" /\ k = "fcm"))
                         PROVE  /\ cancelFn'[k] # NoConn
                                /\ Live(cancelFn[k])' \/ conn'[cancelFn'[k]].phase = "failed"
                BY <2>1, <3>1 DEF SetIsAlive, Live
            <4>1. /\ cancelFn[k] # NoConn
                  /\ Live(cancelFn[k]) \/ conn[cancelFn[k]].phase = "failed"
                BY <1>2 DEF SetIsAlive
            <4>2. cancelFn[k] \in ConnIds
                BY <1>0, <4>1 DEF TypeOK
            <4>3. QED
                BY <2>1, <2>7, <4>1, <4>2 DEF Live
        <3>4. QED
            BY <2>3, <2>5, <3>2, <3>3 DEF Calm
    <2>8. QED
        BY <2>6, <2>7
\* Whoever stops a connection holds sm.mu until it has cleared the flag, or the
\* account has left the map.
<1>6. ASSUME NEW ks \in SUBSET AllKinds, Cancel(Stopped(ks)), Reached
      PROVE  /\ \A k \in AllKinds : LiveOfKind(k)' \subseteq LiveOfKind(k)
             /\ \A k \in ks : LiveOfKind(k)' = {}
             /\ \A d \in ConnIds : conn'[d].phase = conn[d].phase
    <2>1. \A d \in ConnIds : conn'[d].kind = conn[d].kind /\ (Live(d)' => Live(d))
        BY <1>0, <1>6, CancelEffect
    <2>2. \A k \in AllKinds : LiveOfKind(k)' \subseteq LiveOfKind(k)
        BY <2>1, LiveShrinks
    <2>3. QED
        BY <1>0, <1>6, <2>2, CancelEffect, StoppedIsDead
<1>7. ASSUME ReaperStops PROVE Calm'
    <2>1. /\ Cancel(Stopped({"signalr"})) /\ smu' = "paused" /\ smu = "pausing"
          /\ UNCHANGED <<inMap, login, started, cancelFn, stopFn, pns>>
        BY <1>7 DEF ReaperStops
    <2>2. {"signalr"} \in SUBSET AllKinds
        BY DEF AllKinds
    <2>3. /\ \A k \in AllKinds : LiveOfKind(k)' \subseteq LiveOfKind(k)
          /\ LiveOfKind("signalr")' = {}
          /\ \A d \in ConnIds : conn'[d].phase = conn[d].phase
        BY <1>2, <1>6, <2>1, <2>2
    <2>4. Reached' /\ UnsetIsIdle' /\ StaysStopped'
        BY <1>2, <2>1, <2>3 DEF Reached, UnsetIsIdle, StaysStopped
    <2>5. OpenIsCurrent'
        <3>1. \A d \in LiveOfKind("fcm")' : d \in LiveOfKind("fcm") /\ d \in ConnIds
            BY <2>3 DEF LiveOfKind, AllKinds
        <3>2. QED
            BY <1>2, <2>1, <2>3, <3>1 DEF OpenIsCurrent
    <2>6. SetIsAlive'
        <3> SUFFICES ASSUME inMap, started["fcm"]
                     PROVE  /\ cancelFn["fcm"] # NoConn
                            /\ Live(cancelFn["fcm"])' \/ conn'[cancelFn["fcm"]].phase = "failed"
            BY <2>1 DEF SetIsAlive, Live
        <3> DEFINE c == cancelFn["fcm"]
        <3>1. c # NoConn /\ (Live(c) \/ conn[c].phase = "failed")
            BY <1>2, <2>1 DEF SetIsAlive, AllKinds
        <3>2. c \in ConnIds /\ conn[c].kind = "fcm"
            BY <1>0, <3>1 DEF Reach, TypeOK, AllKinds
        \* The reaper's Stop reaches SignalR goroutines only.
        <3>3. c \notin Stopped({"signalr"})
            <4>1. cancelFn["signalr"] # c /\ stopFn[login] # c
                BY <1>0, <3>1, <3>2 DEF Reach, TypeOK, AllKinds
            <4>2. QED
                BY <4>1 DEF Stopped
        <3> HIDE DEF c
        <3>4. Live(c) => conn'[c].phase = conn[c].phase /\ conn'[c].cancelled = conn[c].cancelled
            BY <2>1, <3>2, <3>3 DEF Cancel
        <3>5. Live(c) => conn'[c].phase \in {"spawned", "dialing", "open", "unheard"}
                         /\ ~conn'[c].cancelled
            BY <3>4 DEF Live
        <3>6. conn'[c].phase = conn[c].phase
            BY <2>3, <3>2
        <3>7. cancelFn' = cancelFn
            BY <2>1
        <3>8. QED
            BY <3>1, <3>5, <3>6, <3>7 DEF c, Live
    <2>7. QED
        BY <2>4, <2>5, <2>6 DEF Calm
<1>8. ASSUME ReloginStops \/ StopAccount PROVE Calm'
    <2>1. /\ Cancel(Stopped(AllKinds)) /\ smu' \in {"relogin", "removing"}
          /\ UNCHANGED <<inMap, login, started, cancelFn, pns>>
        BY <1>8 DEF ReloginStops, StopAccount
    <2>2. \A k \in AllKinds : LiveOfKind(k)' = {}
        BY <1>2, <1>6, <2>1
    <2>3. QED
        BY <2>1, <2>2
        DEF Calm, Reached, UnsetIsIdle, StaysStopped, SetIsAlive, OpenIsCurrent, AllKinds
<1>9. ASSUME UNCHANGED conn PROVE \A k \in AllKinds : LiveOfKind(k)' = LiveOfKind(k)
    BY <1>9 DEF LiveOfKind, Live
<1>10. ASSUME ReaperPicks PROVE Calm'
    <2>1. UNCHANGED <<inMap, login, started, cancelFn, conn, pns>> /\ smu' = "pausing"
          /\ smu = "none" /\ inMap
        BY <1>10 DEF ReaperPicks
    <2>2. \A k \in AllKinds : LiveOfKind(k)' = LiveOfKind(k)
        BY <1>9, <2>1
    <2>3. QED
        BY <1>2, <2>1, <2>2
        DEF Calm, Reached, UnsetIsIdle, StaysStopped, SetIsAlive, OpenIsCurrent, Live, AllKinds
<1>11. ASSUME ReaperClears PROVE Calm'
    <2>1. UNCHANGED <<inMap, login, cancelFn, conn, pns>> /\ smu' = "none" /\ smu = "paused"
          /\ started' = [started EXCEPT !["signalr"] = FALSE]
        BY <1>11 DEF ReaperClears
    <2>2. \A k \in AllKinds : LiveOfKind(k)' = LiveOfKind(k)
        BY <1>9, <2>1
    <2>3. LiveOfKind("signalr") = {}
        BY <1>2, <2>1 DEF StaysStopped
    <2>4. ~started'["signalr"] /\ started'["fcm"] = started["fcm"]
        BY <1>0, <2>1 DEF TypeOK, AllKinds
    <2>5. Reached' /\ StaysStopped' /\ OpenIsCurrent'
        BY <1>2, <2>1, <2>2 DEF Reached, StaysStopped, OpenIsCurrent, AllKinds
    <2>6. UnsetIsIdle'
        BY <1>2, <2>2, <2>3, <2>4 DEF UnsetIsIdle, AllKinds
    <2>7. SetIsAlive'
        BY <1>2, <2>1, <2>4 DEF SetIsAlive, Live, AllKinds
    <2>8. QED
        BY <2>5, <2>6, <2>7 DEF Calm
<1>12. ASSUME ReloginSwaps \/ RemoveAccount PROVE Calm'
    <2>1. /\ UNCHANGED <<cancelFn, conn>> /\ smu' = "none" /\ smu \in {"relogin", "removing"}
          /\ \/ \A k \in AllKinds : ~started'[k]
             \/ ~inMap'
        BY <1>12 DEF ReloginSwaps, RemoveAccount
    <2>2. \A k \in AllKinds : LiveOfKind(k)' = {}
        BY <1>2, <1>9, <2>1 DEF StaysStopped
    <2>3. QED
        BY <2>1, <2>2
        DEF Calm, Reached, UnsetIsIdle, StaysStopped, SetIsAlive, OpenIsCurrent, AllKinds
<1>13. QED
    BY <1>3, <1>4, <1>5, <1>7, <1>8, <1>10, <1>11, <1>12
    DEF Next, HandleSSE, EnterSSE, Subscribe, CloseTab, Reaper, Relogin, LogoutAll, vars

LEMMA Invariance == Spec => []Inv
<1>1. Inv /\ [Next]_vars => Inv'
    BY TypeStep, ReachStep, CalmStep DEF Inv
<1>2. QED
    BY <1>1, InitInv, PTL DEF Spec

-------------------------------------------------------------------------------
\* Theorems

\* Every variable keeps its type.
THEOREM ConnectionsTypeCorrect == Spec => []TypeOK
<1>1. Inv => TypeOK
    BY DEF Inv
<1>2. QED
    BY <1>1, Invariance, PTL

\* However tabs, failed starts, pauses and logins interleave, an account never
\* has two connections of a kind, or one that its cancel function does not reach,
\* unless one of the named races has disowned it.
THEOREM NeverTwoUndisowned == Spec => []OneConnection
<1>1. Inv => OneConnection
    BY DEF Inv, Calm, Reached, OneConnection
<1>2. QED
    BY <1>1, Invariance, PTL

\* Between two operations on the account no flag ever blocks a start that is
\* needed, short of those races.
THEOREM FlagsStayHonest == Spec => []FlagIsHonest
<1>1. Inv => FlagIsHonest
    <2> SUFFICES ASSUME Inv, races = {}, inMap, smu = "none", NEW k \in AllKinds, started[k]
                 PROVE  LiveOfKind(k) # {} \/ conn[cancelFn[k]].phase = "failed"
        BY DEF FlagIsHonest
    <2>1. cancelFn[k] # NoConn /\ (Live(cancelFn[k]) \/ conn[cancelFn[k]].phase = "failed")
        BY DEF Inv, Calm, SetIsAlive
    <2>2. cancelFn[k] \in ConnIds /\ conn[cancelFn[k]].kind = k
        BY <2>1 DEF Inv, Reach, TypeOK
    <2>3. QED
        BY <2>1, <2>2 DEF LiveOfKind
<1>2. QED
    BY <1>1, Invariance, PTL

\* A full logout leaves no connection of the account running, short of those races.
THEOREM LogoutLeavesNothing == Spec => []LogoutStopsAll
<1>1. Inv => LogoutStopsAll
    BY DEF Inv, Calm, StaysStopped, LogoutStopsAll, LiveOfKind, TypeOK
<1>2. QED
    BY <1>1, Invariance, PTL

\* Garmin sends to the registration of the current login whenever a listener of
\* the account has been accepted, short of those races.
THEOREM PnsStaysCurrent == Spec => []PnsIsCurrent
<1>1. Inv => PnsIsCurrent
    BY DEF Inv, Calm, OpenIsCurrent, PnsIsCurrent
<1>2. QED
    BY <1>1, Invariance, PTL

===============================================================================
