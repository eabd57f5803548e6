-------------------------- MODULE AccountConnections --------------------------
(***************************************************************************)
(* The two connections a UserAccount shares between its browser tabs: the  *)
(* SignalR websocket and the FCM listener.  EnsureSignalR and EnsureFCM     *)
(* start one on a goroutine of its own unless a flag says it was started;   *)
(* the reaper pauses SignalR when no tab is subscribed, a login with fresh  *)
(* credentials stops both for the next tab to start, a full logout for good. *)
(*                                                                         *)
(* The flags and the cancel functions are guarded by UserAccount.mu, the    *)
(* maps by SessionManager.mu, and the goroutine that dials reports a        *)
(* failure under UserAccount.mu long after it was started.  This module     *)
(* keeps those three apart, for one UserAccount and the handlers that hold  *)
(* a pointer to it.                                                         *)
(***************************************************************************)
EXTENDS Naturals, FiniteSets

CONSTANTS Kinds,     \* which of "signalr" and "fcm" the instance follows
          Tabs,      \* handleSSE requests
          Failures,  \* what may go wrong: "dial", "pns"
          MaxConns,  \* bound: goroutines started
          MaxLogins  \* bound: logins with fresh credentials

AllKinds == {"signalr", "fcm"}

ASSUME ConnectionsAssumption ==
    /\ Kinds \subseteq AllKinds
    /\ Failures \subseteq {"dial", "pns"}
    /\ MaxConns \in Nat \ {0}
    /\ MaxLogins \in Nat \ {0}

VARIABLES
    inMap,     \* sm.accounts still holds the account
    login,     \* number of the login whose Auth and SignalR the account has
    started,   \* kind -> signalRStarted, fcmStarted
    cancelFn,  \* kind -> goroutine that signalRCancel, fcmCancel cancels
    stopFn,    \* login -> goroutine that its SignalR object's Stop cancels
    conn,      \* goroutine -> its kind, where it is, whether it was cancelled
    tab,       \* request -> where handleSSE is
    smu,       \* what the holder of SessionManager.mu, if any, has done
    pns,       \* login whose Garmin registration was told the FCM token
    races      \* history: the interleavings that disown a connection

vars == <<inMap, login, started, cancelFn, stopFn, conn, tab, smu, pns, races>>

-------------------------------------------------------------------------------

ConnIds == 1..MaxConns
NoConn  == 0
Unused  == [kind |-> "signalr", phase |-> "unused", cancelled |-> FALSE]

\* A goroutine that dials or is connected and that nothing has told to stop.
Live(c) ==
    conn[c].phase \in {"spawned", "dialing", "open", "unheard"} /\ ~conn[c].cancelled

Subscribed == {t \in Tabs : tab[t] = "open"}

\* Where handleSSE goes next: EnsureSignalR, EnsureFCM, Subscribe.
After(k) == IF k = "signalr" THEN "fcm" ELSE "subscribe"

\* The context of every goroutine in cs is cancelled.
Cancel(cs) ==
    conn' = [c \in ConnIds |->
               IF c \in cs THEN [conn[c] EXCEPT !.cancelled = TRUE] ELSE conn[c]]

\* HermesSignalR.Stop and the account's own cancel functions.
Stopped(ks) ==
    {cancelFn[k] : k \in ks} \cup (IF "signalr" \in ks THEN {stopFn[login]} ELSE {})

-------------------------------------------------------------------------------
\* handleSSE

\* requireSession finds the session, and with it the account.
EnterSSE(t) ==
    /\ inMap /\ smu = "none" /\ tab[t] = "idle"
    /\ tab' = [tab EXCEPT ![t] = "signalr"]
    /\ UNCHANGED <<inMap, login, started, cancelFn, stopFn, conn, smu, pns, races>>

\* The interleaving, if any, in which a start now will be forgotten later: the
\* account has been stopped, or its flag is about to be cleared.
StartRace ==
    IF ~inMap \/ smu = "removing" THEN {"lateHandler"}
    ELSE IF smu = "relogin" THEN {"midRelogin"}
    ELSE IF smu = "paused" THEN {"midPause"}
    ELSE {}

\* The goroutine an Ensure call starts: ids are handed out in order.
Fresh(c) == \A d \in ConnIds : conn[d].phase = "unused" <=> d >= c

Spawn(c, k) ==
    /\ Fresh(c)
    /\ conn' = [conn EXCEPT ![c] = [Unused EXCEPT !.kind = k, !.phase = "spawned"]]
    /\ cancelFn' = [cancelFn EXCEPT ![k] = c]
    /\ races' = races \cup StartRace

\* EnsureSignalR, EnsureFCM: under acct.mu, whoever else holds sm.mu.
Ensure(t, k) ==
    /\ tab[t] = k
    /\ tab' = [tab EXCEPT ![t] = After(k)]
    /\ IF k \in Kinds /\ ~started[k]
       THEN /\ \E c \in ConnIds : Spawn(c, k)
            /\ started' = [started EXCEPT ![k] = TRUE]
       ELSE UNCHANGED <<conn, cancelFn, started, races>>
    /\ UNCHANGED <<inMap, login, stopFn, smu, pns>>

\* SSEBroker.Subscribe.
Subscribe(t) ==
    /\ tab[t] = "subscribe"
    /\ tab' = [tab EXCEPT ![t] = "open"]
    /\ UNCHANGED <<inMap, login, started, cancelFn, stopFn, conn, smu, pns, races>>

\* The request's context ends; handleSSE unsubscribes.
CloseTab(t) ==
    /\ tab[t] = "open"
    /\ tab' = [tab EXCEPT ![t] = "idle"]
    /\ UNCHANGED <<inMap, login, started, cancelFn, stopFn, conn, smu, pns, races>>

-------------------------------------------------------------------------------
\* The goroutine that Ensure started

Phase(c, ph) == conn' = [conn EXCEPT ![c].phase = ph]

\* It reads acct.SignalR, of whichever login is current by then, and Start
\* makes that object's Stop cancel this goroutine.
StartBegin(c) ==
    /\ conn[c].phase = "spawned"
    /\ Phase(c, "dialing")
    /\ stopFn' = IF conn[c].kind = "signalr" THEN [stopFn EXCEPT ![login] = c]
                 ELSE stopFn
    /\ UNCHANGED <<inMap, login, started, cancelFn, tab, smu, pns, races>>

\* Garmin may refuse the FCM token; a cancelled context makes it fail too.
PnsFails(c) == conn[c].cancelled \/ "pns" \in Failures

\* Wrong variant: the token is registered by the first login only.
UnregisteredListener(c) ==
    /\ conn[c].kind = "fcm" /\ conn[c].phase = "dialing"
    /\ \/ ~conn[c].cancelled /\ Phase(c, "open")
       \/ PnsFails(c) /\ Phase(c, "unheard")
    /\ pns' = IF pns = 0 THEN login ELSE pns
    /\ UNCHANGED <<inMap, login, started, cancelFn, stopFn, tab, smu, races>>

\* FCM: Register returns the stored token, even to a cancelled goroutine;
\* UpdatePnsHandle is tried once, with the Auth of the current login, and the
\* listener runs whether or not Garmin took the token ("unheard" if not).
ListenFCM(c) ==
    /\ conn[c].kind = "fcm" /\ conn[c].phase = "dialing"
    /\ \/ ~conn[c].cancelled /\ Phase(c, "open") /\ pns' = login
       \/ PnsFails(c) /\ Phase(c, "unheard") /\ UNCHANGED pns
    /\ UNCHANGED <<inMap, login, started, cancelFn, stopFn, tab, smu, races>>

\* SignalR: WaitForState sees the client connected; the client reconnects by
\* itself from then on, until its context is cancelled.
OpenSignalR(c) ==
    /\ conn[c].kind = "signalr" /\ conn[c].phase = "dialing" /\ ~conn[c].cancelled
    /\ Phase(c, "open")
    /\ UNCHANGED <<inMap, login, started, cancelFn, stopFn, tab, smu, pns, races>>

\* Start or Register returns an error: cancelled, refused or timed out.
StartFails(c) ==
    /\ conn[c].phase = "dialing"
    /\ conn[c].cancelled \/ "dial" \in Failures
    /\ Phase(c, "failed")
    /\ UNCHANGED <<inMap, login, started, cancelFn, stopFn, tab, smu, pns, races>>

\* Wrong variant: a start that failed leaves the flag set.
SilentFailure(c) ==
    /\ conn[c].phase = "failed"
    /\ Phase(c, "dead")
    /\ UNCHANGED <<inMap, login, started, cancelFn, stopFn, tab, smu, pns, races>>

\* It then clears the flag, by then perhaps that of a newer goroutine.
ClearStarted(c) ==
    /\ conn[c].phase = "failed"
    /\ Phase(c, "dead")
    /\ started' = [started EXCEPT ![conn[c].kind] = FALSE]
    /\ races' = IF cancelFn[conn[c].kind] = c THEN races ELSE races \cup {"staleReset"}
    /\ UNCHANGED <<inMap, login, cancelFn, stopFn, tab, smu, pns>>

\* A connected goroutine ends once its context is cancelled.
ConnCloses(c) ==
    /\ conn[c].phase \in {"open", "unheard"} /\ conn[c].cancelled
    /\ Phase(c, "dead")
    /\ UNCHANGED <<inMap, login, started, cancelFn, stopFn, tab, smu, pns, races>>

-------------------------------------------------------------------------------
\* The callers that hold SessionManager.mu

\* The reaper counts subscribers and reads the flag, without acct.mu.
ReaperPicks ==
    /\ smu = "none" /\ inMap
    /\ "signalr" \in Kinds /\ started["signalr"] /\ Subscribed = {}
    /\ smu' = "pausing"
    /\ UNCHANGED <<inMap, login, started, cancelFn, stopFn, conn, tab, pns, races>>

\* Wrong variant: the reaper clears the flag and never cancels.
UncancelledPause ==
    /\ smu = "pausing"
    /\ smu' = "paused"
    /\ UNCHANGED <<inMap, login, started, cancelFn, stopFn, conn, tab, pns, races>>

ReaperStops ==
    /\ smu = "pausing"
    /\ smu' = "paused"
    /\ Cancel(Stopped({"signalr"}))
    /\ UNCHANGED <<inMap, login, started, cancelFn, stopFn, tab, pns, races>>

ReaperClears ==
    /\ smu = "paused"
    /\ smu' = "none"
    /\ started' = [started EXCEPT !["signalr"] = FALSE]
    /\ UNCHANGED <<inMap, login, cancelFn, stopFn, conn, tab, pns, races>>

\* Wrong variant: the old connections are left to die with their Auth.
UnstoppedRelogin ==
    /\ smu = "none" /\ inMap /\ login < MaxLogins
    /\ smu' = "relogin"
    /\ UNCHANGED <<inMap, login, started, cancelFn, stopFn, conn, tab, pns, races>>

\* getOrCreateAccount with fresh credentials stops both connections, calls
\* Garmin to deregister the old instance...
ReloginStops ==
    /\ smu = "none" /\ inMap /\ login < MaxLogins
    /\ smu' = "relogin"
    /\ Cancel(Stopped(AllKinds))
    /\ UNCHANGED <<inMap, login, started, cancelFn, stopFn, tab, pns, races>>

\* Wrong variant: Auth and SignalR are swapped as if by two logins.
TwofoldRelogin ==
    /\ smu = "relogin"
    /\ smu' = "none"
    /\ login' = login + 2
    /\ started' = [k \in AllKinds |-> FALSE]
    /\ UNCHANGED <<inMap, cancelFn, stopFn, conn, tab, pns, races>>

\* ...and then takes acct.mu to swap Auth and SignalR and clear the flags.
ReloginSwaps ==
    /\ smu = "relogin"
    /\ smu' = "none"
    /\ login' = login + 1
    /\ started' = [k \in AllKinds |-> FALSE]
    /\ UNCHANGED <<inMap, cancelFn, stopFn, conn, tab, pns, races>>

\* Wrong variant: stopAccount stops SignalR only.
HalfStopAccount ==
    /\ smu = "none" /\ inMap
    /\ smu' = "removing"
    /\ Cancel(Stopped({"signalr"}))
    /\ UNCHANGED <<inMap, login, started, cancelFn, stopFn, tab, pns, races>>

\* RemoveAllForPhone: stopAccount, which calls Garmin and clears no flag...
StopAccount ==
    /\ smu = "none" /\ inMap
    /\ smu' = "removing"
    /\ Cancel(Stopped(AllKinds))
    /\ UNCHANGED <<inMap, login, started, cancelFn, stopFn, tab, pns, races>>

\* ...and then the account leaves the map.
RemoveAccount ==
    /\ smu = "removing"
    /\ smu' = "none"
    /\ inMap' = FALSE
    /\ UNCHANGED <<login, started, cancelFn, stopFn, conn, tab, pns, races>>

-------------------------------------------------------------------------------

\* CreateSession has just made the account, or wireRestoredAccounts has
\* restored it from the file and called EnsureFCM.
Init ==
    /\ inMap = TRUE
    /\ login = 1
    /\ \E restored \in IF "fcm" \in Kinds THEN BOOLEAN ELSE {FALSE} :
          /\ started = [k \in AllKinds |-> restored /\ k = "fcm"]
          /\ cancelFn = [k \in AllKinds |->
                           IF restored /\ k = "fcm" THEN 1 ELSE NoConn]
          /\ conn = [c \in ConnIds |->
                       IF restored /\ c = 1
                       THEN [kind |-> "fcm", phase |-> "spawned", cancelled |-> FALSE]
                       ELSE Unused]
    /\ stopFn = [n \in 1..MaxLogins |-> NoConn]
    /\ tab = [t \in Tabs |-> "idle"]
    /\ smu = "none"
    /\ pns = 0
    /\ races = {}

HandleSSE(t) ==
    \/ EnterSSE(t)
    \/ \E k \in AllKinds : Ensure(t, k)
    \/ Subscribe(t)
    \/ CloseTab(t)

Goroutine(c) ==
    \/ StartBegin(c)
    \/ ListenFCM(c)
    \/ OpenSignalR(c)
    \/ StartFails(c)
    \/ ClearStarted(c)
    \/ ConnCloses(c)

Reaper == ReaperPicks \/ ReaperStops \/ ReaperClears

Relogin == ReloginStops \/ ReloginSwaps

LogoutAll == StopAccount \/ RemoveAccount

Next ==
    \/ \E t \in Tabs : HandleSSE(t)
    \/ \E c \in ConnIds : Goroutine(c)
    \/ Reaper
    \/ Relogin
    \/ LogoutAll

Spec == Init /\ [][Next]_vars

\* Goroutines run, the ticker keeps waking the reaper, a handler that holds
\* sm.mu lets go of it.  Browsers open and close tabs, and users log in and
\* out, only if they like.
FairSpec ==
    /\ Spec
    /\ \A c \in ConnIds : WF_vars(Goroutine(c))
    /\ WF_vars(Reaper)
    /\ WF_vars(ReloginSwaps)
    /\ WF_vars(RemoveAccount)
    /\ \A t \in Tabs : WF_vars(Subscribe(t) \/ \E k \in AllKinds : Ensure(t, k))

-------------------------------------------------------------------------------
\* Properties

TypeOK ==
    /\ inMap \in BOOLEAN
    /\ login \in 1..MaxLogins
    /\ started \in [AllKinds -> BOOLEAN]
    /\ cancelFn \in [AllKinds -> ConnIds \cup {NoConn}]
    /\ stopFn \in [1..MaxLogins -> ConnIds \cup {NoConn}]
    /\ conn \in [ConnIds -> [kind : AllKinds,
                              phase : {"unused", "spawned", "dialing", "open",
                                       "unheard", "failed", "dead"},
                              cancelled : BOOLEAN]]
    /\ tab \in [Tabs -> AllKinds \cup {"idle", "subscribe", "open"}]
    /\ smu \in {"none", "pausing", "paused", "relogin", "removing"}
    /\ pns \in 0..MaxLogins
    /\ races \subseteq {"lateHandler", "midRelogin", "midPause", "staleReset"}

LiveOfKind(k) == {c \in ConnIds : conn[c].kind = k /\ Live(c)}

\* However tabs, failed starts, pauses and logins interleave, an account has
\* at most one SignalR and one FCM goroutine that nothing has told to stop,
\* and it is the one the account's cancel function reaches, unless one of the
\* named races has disowned a connection.
OneConnection ==
    races = {} => \A k \in AllKinds : LiveOfKind(k) \subseteq {cancelFn[k]}

\* The flag never blocks a start that is needed: between two operations on
\* the account, signalRStarted or fcmStarted is set only if a goroutine is
\* alive, or is about to clear the flag.
FlagIsHonest ==
    races = {} /\ inMap /\ smu = "none" =>
        \A k \in AllKinds :
            started[k] => \/ LiveOfKind(k) # {}
                          \/ conn[cancelFn[k]].phase = "failed"

\* RemoveAllForPhone leaves nothing running for the account that it took out
\* of the map, unless a handler that already had it came late.
LogoutStopsAll == races = {} /\ ~inMap => \A c \in ConnIds : ~Live(c)

\* A listener whose token Garmin accepted is the one of the current
\* registration: a login with a new instance never leaves pushes addressed to
\* the instance it has just deleted.
PnsIsCurrent ==
    races = {} /\ inMap /\ smu = "none" =>
        \A c \in LiveOfKind("fcm") : conn[c].phase = "open" => pns = login

\* Once no browser tab is open or opening, SignalR is stopped for good: the
\* reaper pauses it, or the account was left with a disowned connection.
IdleAccountIsPaused ==
    <>[](\A t \in Tabs : tab[t] = "idle")
        => <>[](LiveOfKind("signalr") = {}) \/ <>(races # {})

-------------------------------------------------------------------------------
\* What comments say and the code does not do

\* "Start shared SignalR + FCM for this account (idempotent)"; "starts SignalR
\* for the account if not already started": one connection at most, always.
NeverTwoConnections == \A k \in AllKinds : Cardinality(LiveOfKind(k)) <= 1

===============================================================================
