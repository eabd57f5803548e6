-------------------------- MODULE SessionPersistence --------------------------
(***************************************************************************)
(* What survives a restart of the server: the accounts and browser         *)
(* sessions a SessionManager keeps in memory, the encrypted file           *)
(* sessions.enc they are copied to, the Garmin token pairs that are        *)
(* rotated underneath them, and NewServer, which reads the file back.      *)
(*                                                                         *)
(* persistSessions copies the maps under sm.mu and writes the copy after   *)
(* releasing it, and is called from every login, every logout and from a   *)
(* goroutine of its own after every token refresh.  Nothing orders two     *)
(* such calls, so each is modelled by a Writer whose copy and whose write  *)
(* are separate steps.                                                     *)
(*                                                                         *)
(* A token pair is the number of the generation Garmin issued it in.  The  *)
(* access and the refresh half are kept apart because persistSessions      *)
(* reads them without HermesAuth.mu and may see one of each generation.    *)
(***************************************************************************)
EXTENDS Naturals, FiniteSets

CONSTANTS Phones,      \* phone numbers, one account each
          SessionIDs,  \* cookie values CreateSession may draw
          Writers,     \* calls of PersistSessions that may be under way
          Boot,        \* the call NewServer itself makes
          NoPhone,     \* "no session has this id"
          SessionTTL,  \* days of idleness after which a session expires
          Hazards,     \* the faults the environment may produce
          MaxGen,      \* bound: token pairs Garmin issues per phone
          MaxDay       \* bound: days that may pass

AllFaults == {"crash", "outage", "io"}

ASSUME ConstantsAssumption ==
    /\ Boot \notin Writers
    /\ NoPhone \notin Phones
    /\ SessionTTL \in Nat
    /\ Hazards \subseteq AllFaults
    /\ MaxGen \in Nat \ {0}
    /\ MaxDay \in Nat

VARIABLES
    mode,       \* "down", "restoring", "saving" (NewServer) or "up"
    accounts,   \* sm.accounts: phone -> token pair of the account's HermesAuth
    sessions,   \* sm.sessions: cookie -> phone and LastActivity
    storing,    \* phone -> storeCredentials has set AccessToken only
    writer,     \* call of PersistSessions -> where it is, its copy, its logout
    disk,       \* sessions.enc
    garmin,     \* external: phone -> generations Garmin still accepts
    issued,     \* external: phone -> generations issued so far
    todo,       \* RestoreSessions: accounts of the file not yet tried
    today,      \* the clock
    drawn,      \* cookie values drawn so far
    faults,     \* history: what went wrong since the process started
    before,     \* history: the logins a quiet, faultless crash interrupted
    loggedOut   \* history: cookies whose logout was answered after its save

vars == <<mode, accounts, sessions, storing, writer, disk, garmin, issued,
          todo, today, drawn, faults, before, loggedOut>>

environment == <<garmin, issued, today>>
history     == <<faults, before, loggedOut>>

-------------------------------------------------------------------------------
\* Types

Calls     == Writers \cup {Boot}
Pair      == [access : Nat, refresh : Nat]      \* generation 0: no token
Session   == [phone : Phones \cup {NoPhone}, last : Nat]
State     == [accounts : [Phones -> Pair], sessions : [SessionIDs -> Session]]
Phase     == {"idle", "pending", "copied", "truncated"}

NoAccount == [access |-> 0, refresh |-> 0]
NoSession == [phone |-> NoPhone, last |-> 0]

\* What Load returns for a file that is missing, cut short or undecryptable.
EmptyState == [accounts |-> [p \in Phones |-> NoAccount],
               sessions |-> [s \in SessionIDs |-> NoSession]]

Idle == [phase |-> "idle", copy |-> EmptyState, ends |-> {}]

Issue(g) == [access |-> g, refresh |-> g]

-------------------------------------------------------------------------------
\* Helper state formulae

Known(p)  == accounts[p] # NoAccount
Live(s)   == sessions[s] # NoSession
Busy(w)   == writer[w].phase \in {"copied", "truncated"}
Free(w)   == writer[w].phase = "idle"
Quiet     == (\A w \in Calls : Free(w)) /\ (\A p \in Phones : ~storing[p])

Expired(s) == s # NoSession /\ today - s.last > SessionTTL

\* Wrong variant: the copy is made before the handler's change.
EarlyCall(ws, w, ends) ==
    writer' = [x \in Calls |->
                 IF x \in ws
                 THEN [phase |-> "copied",
                       copy |-> [accounts |-> accounts, sessions |-> sessions],
                       ends |-> IF x = w THEN ends ELSE {}]
                 ELSE writer[x]]

\* PersistSessions is called by w on behalf of a handler that removed the
\* cookies in ends, and by the token callbacks that rotated on the way.
Call(ws, w, ends) ==
    writer' = [x \in Calls |->
                 IF x \in ws
                 THEN [phase |-> "pending", copy |-> EmptyState,
                       ends |-> IF x = w THEN ends ELSE {}]
                 ELSE writer[x]]

-------------------------------------------------------------------------------
\* Garmin: every refresh issues a new generation and retires the one used.

Rotate(p, g) ==
    /\ g \in garmin[p]
    /\ issued[p] < MaxGen
    /\ issued' = [issued EXCEPT ![p] = @ + 1]
    /\ garmin' = [garmin EXCEPT ![p] = (@ \ {g}) \cup {issued[p] + 1}]

\* Deregistration of the account's instance, on a full logout and on a login
\* with fresh credentials: a refresh first when the access token has expired,
\* then DeleteAppRegistration, whose failure is only logged.  The instance a
\* fresh OTP confirmation registered is already in accepted.
Deregister(p, accepted, gens, refreshed) ==
    LET old == accounts[p].refresh
        new == gens + 1
    IN  \/ /\ ~refreshed
           /\ issued' = [issued EXCEPT ![p] = gens]
           /\ garmin' \in {[garmin EXCEPT ![p] = accepted],
                           [garmin EXCEPT ![p] = accepted \ {old}]}
        \/ /\ refreshed
           /\ old \in accepted /\ new <= MaxGen
           /\ issued' = [issued EXCEPT ![p] = new]
           /\ garmin' \in {[garmin EXCEPT ![p] = (accepted \ {old}) \cup {new}],
                           [garmin EXCEPT ![p] = accepted \ {old}]}

-------------------------------------------------------------------------------
\* Handlers.  Each changes the maps under sm.mu and then calls PersistSessions.

Handler(w) == mode = "up" /\ w \in Writers /\ Free(w)

\* Wrong variant: LastActivity starts one day back.
BackdatedLogin(s, p) ==
    /\ s \notin drawn
    /\ drawn' = drawn \cup {s}
    /\ sessions' = [sessions EXCEPT ![s] = [phone |-> p, last |-> today - 1]]

\* CreateSession: a random cookie for a session of p.
Login(s, p) ==
    /\ s \notin drawn
    /\ drawn' = drawn \cup {s}
    /\ sessions' = [sessions EXCEPT ![s] = [phone |-> p, last |-> today]]

\* The writers busy on behalf of a handler: its own call, and the callback of
\* the refresh made while deregistering.
Callers(w, refreshed) ==
    IF refreshed THEN {{w, c} : c \in {x \in Writers \ {w} : Free(x)}} ELSE {{w}}

\* handleConfirmOTP: the pair of a fresh registration replaces the account's.
ConfirmOTP(w, p, s) ==
    /\ Handler(w) /\ issued[p] < MaxGen /\ ~storing[p]
    /\ Login(s, p)
    /\ LET new == issued[p] + 1 IN
       /\ accounts' = [accounts EXCEPT ![p] = Issue(new)]
       /\ \/ /\ ~Known(p)
             /\ issued' = [issued EXCEPT ![p] = new]
             /\ garmin' = [garmin EXCEPT ![p] = @ \cup {new}]
             /\ Call({w}, w, {})
          \/ /\ Known(p)
             /\ \E refreshed \in BOOLEAN :
                  /\ Deregister(p, garmin[p] \cup {new}, new, refreshed)
                  /\ \E ws \in Callers(w, refreshed) : Call(ws, w, {})
    /\ UNCHANGED <<mode, storing, disk, todo, today, history>>

\* handlePasskeyLoginFinish on an account whose token is usable: a session more.
PasskeyLogin(w, p, s) ==
    /\ Handler(w) /\ Known(p)
    /\ Login(s, p)
    /\ Call({w}, w, {})
    /\ UNCHANGED <<mode, accounts, storing, disk, environment, todo, history>>

\* Wrong variant: handleLogout forgets to save.
UnsavedLogout(w, s) ==
    /\ Handler(w) /\ Live(s)
    /\ sessions' = [sessions EXCEPT ![s] = NoSession]
    /\ UNCHANGED <<mode, accounts, storing, writer, disk, environment, todo,
                   drawn, history>>

\* handleLogout: the cookie goes, the account stays.
Logout(w, s) ==
    /\ Handler(w) /\ Live(s)
    /\ sessions' = [sessions EXCEPT ![s] = NoSession]
    /\ Call({w}, w, {s})
    /\ UNCHANGED <<mode, accounts, storing, disk, environment, todo, drawn,
                   history>>

\* Wrong variant: RemoveAllForPhone stops at the first cookie it finds.
FirstCookie(p) == {CHOOSE s \in SessionIDs : sessions[s].phone = p}

\* RemoveAllForPhone: the cookies it deletes.
Cookies(p) == {s \in SessionIDs : sessions[s].phone = p}

\* handleLogoutAll: every cookie of the phone and the account go.
LogoutAll(w, s) ==
    LET p    == sessions[s].phone
        ends == Cookies(p)
    IN  /\ Handler(w) /\ Live(s) /\ ~storing[p]
        /\ sessions' = [x \in SessionIDs |->
                          IF x \in ends THEN NoSession ELSE sessions[x]]
        /\ accounts' = [accounts EXCEPT ![p] = NoAccount]
        /\ \E refreshed \in BOOLEAN :
             /\ Deregister(p, garmin[p], issued[p], refreshed)
             /\ \E ws \in Callers(w, refreshed) : Call(ws, w, ends)
        /\ UNCHANGED <<mode, storing, disk, todo, today, drawn, history>>

\* requireSession: every authenticated request renews LastActivity, in memory.
Touch(s) ==
    /\ mode = "up" /\ Live(s) /\ sessions[s].last # today
    /\ sessions' = [sessions EXCEPT ![s].last = today]
    /\ UNCHANGED <<mode, accounts, storing, writer, disk, environment, todo,
                   drawn, history>>

\* reaper: sessions idle for too long are dropped, without a save.
ReapSessions ==
    /\ mode = "up" /\ \E s \in SessionIDs : Expired(sessions[s])
    /\ sessions' = [s \in SessionIDs |->
                      IF Expired(sessions[s]) THEN NoSession ELSE sessions[s]]
    /\ UNCHANGED <<mode, accounts, storing, writer, disk, environment, todo,
                   drawn, history>>

-------------------------------------------------------------------------------
\* refreshHermesTokenLocked and storeCredentials, under HermesAuth.mu but not
\* under sm.mu: a copy made between the two assignments has half a pair.

StoreAccessToken(p) ==
    /\ mode \in {"saving", "up"} /\ Known(p) /\ ~storing[p]
    /\ Rotate(p, accounts[p].refresh)
    /\ accounts' = [accounts EXCEPT ![p].access = issued[p] + 1]
    /\ storing' = [storing EXCEPT ![p] = TRUE]
    /\ UNCHANGED <<mode, sessions, writer, disk, todo, today, drawn, history>>

StoreRefreshToken(w, p) ==
    /\ storing[p] /\ w \in Writers /\ Free(w)
    /\ accounts' = [accounts EXCEPT ![p].refresh = accounts[p].access]
    /\ storing' = [storing EXCEPT ![p] = FALSE]
    /\ Call({w}, w, {})
    /\ UNCHANGED <<mode, sessions, disk, environment, todo, drawn, history>>

\* The refresh reached Garmin and its answer did not come back.
RefreshAnswerLost(p) ==
    /\ "outage" \in Hazards
    /\ mode \in {"saving", "up"} /\ Known(p) /\ ~storing[p]
    /\ Rotate(p, accounts[p].refresh)
    /\ UNCHANGED <<mode, accounts, sessions, storing, writer, disk, todo,
                   today, drawn, history>>

\* A handler that outlived its account's logout refreshes an auth that is no
\* longer in sm.accounts: its callback saves whatever is there now.
DetachedCallback(w) ==
    /\ Handler(w)
    /\ Call({w}, w, {})
    /\ UNCHANGED <<mode, accounts, sessions, storing, disk, environment, todo,
                   drawn, history>>

-------------------------------------------------------------------------------
\* persistSessions: the copy is taken under sm.mu, the write follows without it.

Copy(w) ==
    /\ writer[w].phase = "pending"
    /\ writer' = [writer EXCEPT ![w].phase = "copied",
                                ![w].copy = [accounts |-> accounts,
                                             sessions |-> sessions]]
    /\ faults' = IF \E x \in Calls \ {w} : Busy(x)
                 THEN faults \cup {"overlap"} ELSE faults
    /\ UNCHANGED <<mode, accounts, sessions, storing, disk, environment, todo,
                   drawn, before, loggedOut>>

\* os.WriteFile opens the file with O_TRUNC ...
Truncate(w) ==
    /\ writer[w].phase = "copied"
    /\ writer' = [writer EXCEPT ![w].phase = "truncated"]
    /\ disk' = [bytes |-> "none", state |-> EmptyState]
    /\ UNCHANGED <<mode, accounts, sessions, storing, environment, todo, drawn,
                   history>>

\* The handler's answer follows its save; NewServer returns after its own.
Done(w) ==
    /\ writer' = [writer EXCEPT ![w] = Idle]
    /\ mode' = IF w = Boot THEN "up" ELSE mode
    /\ before' = IF w = Boot THEN {} ELSE before

\* ... and writes from offset 0.  Over the bytes of a call that opened the file
\* as well and wrote first, a shorter text leaves a tail that fails to decrypt.
WriteOut(w) ==
    /\ writer[w].phase = "truncated"
    /\ \/ disk' = [bytes |-> "good", state |-> writer[w].copy]
       \/ /\ disk.bytes # "none"
          /\ disk' = [bytes |-> "bad", state |-> EmptyState]
    /\ loggedOut' = IF faults = {} THEN loggedOut \cup writer[w].ends
                                   ELSE loggedOut
    /\ Done(w)
    /\ UNCHANGED <<accounts, sessions, storing, environment, todo, drawn,
                   faults>>

\* Save logs an I/O error and returns; the handler answers all the same.
SaveFails(w) ==
    /\ "io" \in Hazards /\ Busy(w)
    /\ faults' = faults \cup {"io"}
    /\ Done(w)
    /\ UNCHANGED <<accounts, sessions, storing, disk, environment, todo, drawn,
                   loggedOut>>

-------------------------------------------------------------------------------
\* The process ends at any point: main installs no signal handler.  The logins
\* of before are those the documentation promises to bring back.

Restorable(s) ==
    LET p == sessions[s].phone IN
    /\ Live(s)
    /\ accounts[p].refresh \in garmin[p]

Crash ==
    /\ mode # "down"
    /\ Quiet \/ "crash" \in Hazards
    /\ mode' = "down"
    /\ accounts' = EmptyState.accounts
    /\ sessions' = EmptyState.sessions
    /\ storing' = [p \in Phones |-> FALSE]
    /\ writer' = [w \in Calls |-> Idle]
    /\ todo' = {}
    /\ before' = IF mode = "up" /\ Quiet /\ faults = {}
                 THEN {s \in SessionIDs : Restorable(s)} ELSE {}
    /\ faults' = {}
    /\ UNCHANGED <<disk, environment, drawn, loggedOut>>

\* NewServer: RestoreSessions loads the file ...
Start ==
    /\ mode = "down"
    /\ mode' = "restoring"
    /\ todo' = {p \in Phones : disk.state.accounts[p] # NoAccount}
    /\ UNCHANGED <<accounts, sessions, storing, writer, disk, environment,
                   drawn, history>>

\* ... tries each account, refreshing an expired token, and keeps it when
\* Garmin answers the probe ...
RestoreAccount(p) ==
    LET pair == disk.state.accounts[p] IN
    /\ p \in todo
    /\ todo' = todo \ {p}
    /\ \/ /\ garmin[p] # {}
          /\ accounts' = [accounts EXCEPT ![p] = pair]
          /\ UNCHANGED environment
       \/ /\ Rotate(p, pair.refresh)
          /\ accounts' = [accounts EXCEPT ![p] = Issue(issued[p] + 1)]
          /\ UNCHANGED today
    /\ UNCHANGED <<mode, sessions, storing, writer, disk, drawn, history>>

\* ... and skips it otherwise: Garmin refuses a retired token, or is not there.
SkipAccount(p) ==
    LET pair == disk.state.accounts[p] IN
    /\ p \in todo
    /\ todo' = todo \ {p}
    /\ \/ /\ {pair.access, pair.refresh} \ garmin[p] # {}
          /\ UNCHANGED <<environment, faults>>
       \/ /\ "outage" \in Hazards
          /\ faults' = faults \cup {"outage"}
          /\ \/ UNCHANGED environment
             \/ Rotate(p, pair.refresh) /\ UNCHANGED today
    /\ UNCHANGED <<mode, accounts, sessions, storing, writer, disk, drawn,
                   before, loggedOut>>

\* Wrong variant: a session idle for exactly its lifetime is dropped.
StrictRestoreSessions ==
    /\ mode = "restoring" /\ todo = {}
    /\ mode' = "saving"
    /\ sessions' = [s \in SessionIDs |->
                      LET entry == disk.state.sessions[s] IN
                      IF \/ entry # NoSession /\ today - entry.last >= SessionTTL
                         \/ \A p \in Phones : entry.phone = p => ~Known(p)
                      THEN NoSession ELSE entry]
    /\ Call({Boot}, Boot, {})
    /\ UNCHANGED <<accounts, storing, disk, environment, todo, drawn, history>>

\* ... then attaches the sessions, and NewServer writes the result back.
RestoreSessions ==
    /\ mode = "restoring" /\ todo = {}
    /\ mode' = "saving"
    /\ sessions' = [s \in SessionIDs |->
                      LET entry == disk.state.sessions[s] IN
                      IF \/ Expired(entry)
                         \/ \A p \in Phones : entry.phone = p => ~Known(p)
                      THEN NoSession ELSE entry]
    /\ Call({Boot}, Boot, {})
    /\ UNCHANGED <<accounts, storing, disk, environment, todo, drawn, history>>

Tick ==
    /\ today < MaxDay
    /\ today' = today + 1
    /\ UNCHANGED <<mode, accounts, sessions, storing, writer, disk, garmin,
                   issued, todo, drawn, history>>

-------------------------------------------------------------------------------

Init ==
    /\ mode = "down"
    /\ accounts = EmptyState.accounts
    /\ sessions = EmptyState.sessions
    /\ storing = [p \in Phones |-> FALSE]
    /\ writer = [w \in Calls |-> Idle]
    /\ disk = [bytes |-> "none", state |-> EmptyState]
    /\ garmin = [p \in Phones |-> {}]
    /\ issued = [p \in Phones |-> 0]
    /\ todo = {}
    /\ today = 0
    /\ drawn = {}
    /\ faults = {}
    /\ before = {}
    /\ loggedOut = {}

Handle(w) ==
    \/ \E p \in Phones, s \in SessionIDs : ConfirmOTP(w, p, s)
                                        \/ PasskeyLogin(w, p, s)
    \/ \E s \in SessionIDs : Logout(w, s) \/ LogoutAll(w, s)
    \/ DetachedCallback(w)

Persist(w) == Copy(w) \/ Truncate(w) \/ WriteOut(w) \/ SaveFails(w)

Restore ==
    \/ Start
    \/ \E p \in Phones : RestoreAccount(p) \/ SkipAccount(p)
    \/ RestoreSessions

Next ==
    \/ \E w \in Calls : Persist(w)
    \/ \E w \in Writers : Handle(w)
    \/ \E p \in Phones : \/ StoreAccessToken(p)
                         \/ \E w \in Writers : StoreRefreshToken(w, p)
                         \/ RefreshAnswerLost(p)
    \/ \E s \in SessionIDs : Touch(s)
    \/ ReapSessions \/ Tick
    \/ Crash \/ Restore

Spec == Init /\ [][Next]_vars

-------------------------------------------------------------------------------
\* Properties

\* Every variable keeps its type.
TypeOK ==
    /\ mode \in {"down", "restoring", "saving", "up"}
    /\ accounts \in [Phones -> Pair]
    /\ sessions \in [SessionIDs -> Session]
    /\ storing \in [Phones -> BOOLEAN]
    /\ writer \in [Calls -> [phase : Phase, copy : State,
                             ends : SUBSET SessionIDs]]
    /\ disk \in [bytes : {"none", "good", "bad"}, state : State]
    /\ garmin \in [Phones -> SUBSET Nat]
    /\ issued \in [Phones -> Nat]
    /\ todo \subseteq Phones
    /\ today \in Nat
    /\ drawn \subseteq SessionIDs
    /\ faults \subseteq AllFaults \cup {"overlap"}
    /\ before \subseteq SessionIDs
    /\ loggedOut \subseteq SessionIDs

\* No session outlives its account, in memory, in any copy under way and in the
\* file: a restart never brings up a browser login whose Garmin account is gone.
Closed(state) ==
    \A s \in SessionIDs : state.sessions[s] # NoSession =>
        /\ state.sessions[s].phone \in Phones
        /\ state.accounts[state.sessions[s].phone] # NoAccount

SessionsHaveAccount ==
    /\ Closed([accounts |-> accounts, sessions |-> sessions])
    /\ \A w \in Calls : Closed(writer[w].copy)
    /\ Closed(disk.state)

\* A logout that was answered, and whose save neither failed nor overlapped
\* another, is final: no later save and no restart brings the cookie back.
LogoutIsFinal ==
    \A s \in loggedOut :
        /\ ~Live(s)
        /\ disk.state.sessions[s] = NoSession
        /\ \A w \in Calls : writer[w].copy.sessions[s] = NoSession

\* As long as no two saves overlapped and none failed, the file is what memory
\* is once every save is done: the pairs are the current ones, no half pair
\* stays, and a session of the file missing in memory is one the reaper took.
FileIsCurrent ==
    /\ disk.state.accounts = accounts
    /\ \A s \in SessionIDs :
         /\ Live(s) => disk.state.sessions[s].phone = sessions[s].phone
         /\ disk.state.sessions[s] # NoSession /\ ~Live(s) =>
              Expired(disk.state.sessions[s])

QuietFileIsCurrent ==
    (mode = "up" /\ Quiet /\ faults = {}) => FileIsCurrent

\* A restart between saves, with Garmin within reach, brings back every login
\* whose pair Garmin still accepts and whose idle time the file shows in bounds.
LoginsSurviveRestart ==
    [][ (mode = "restoring" /\ mode' = "saving" /\ faults = {}) =>
          \A s \in before : Live(s)' \/ Expired(disk.state.sessions[s]) ]_vars

-------------------------------------------------------------------------------
\* What the comments and the README promise without the conditions above.

\* "logins, push and FCM survive restarts": also when Garmin cannot be reached
\* while the server starts.
LoginsSurviveOutage ==
    [][ (mode = "restoring" /\ mode' = "saving" /\ faults \subseteq {"outage"}) =>
          \A s \in before : Live(s)' \/ Expired(disk.state.sessions[s]) ]_vars

===============================================================================
