----------------------- MODULE SessionPersistence_proofs -----------------------
(***************************************************************************)
(* Proofs about SessionPersistence, for any sets of phones, cookies and    *)
(* concurrent saves and any bounds: its types, that no session is ever     *)
(* without its account, that an undisturbed logout is final, that the file *)
(* is current between saves, and that logins survive a restart.            *)
(***************************************************************************)
EXTENDS SessionPersistence, TLAPS

-------------------------------------------------------------------------------
\* Type correctness

\* A call of PersistSessions begins with nothing copied.
LEMMA CallType ==
    ASSUME TypeOK, NEW ws, NEW w, NEW ends \in SUBSET SessionIDs,
           Call(ws, w, ends)
    PROVE  writer' \in [Calls -> [phase : Phase, copy : State,
                                  ends : SUBSET SessionIDs]]
<1>1. EmptyState \in State
    BY DEF EmptyState, State, NoAccount, NoSession, Pair, Session
<1>2. QED
    BY <1>1 DEF Call, TypeOK, Phase

\* Deregistering leaves Garmin's tables well typed.
LEMMA DeregisterType ==
    ASSUME TypeOK, NEW p \in Phones, NEW accepted \in SUBSET Nat,
           NEW gens \in Nat, NEW refreshed,
           Deregister(p, accepted, gens, refreshed)
    PROVE  /\ garmin' \in [Phones -> SUBSET Nat]
           /\ issued' \in [Phones -> Nat]
<1> DEFINE old == accounts[p].refresh
<1>1. /\ accepted \ {old} \in SUBSET Nat
      /\ (accepted \ {old}) \cup {gens + 1} \in SUBSET Nat
      /\ gens + 1 \in Nat
    <2>1. gens + 1 \in Nat
        OBVIOUS
    <2>2. accepted \ {old} \in SUBSET Nat
        OBVIOUS
    <2>3. QED
        BY <2>1, <2>2
<1>2. PICK a \in SUBSET Nat : garmin' = [garmin EXCEPT ![p] = a]
    BY <1>1 DEF Deregister
<1>3. PICK n \in Nat : issued' = [issued EXCEPT ![p] = n]
    BY <1>1 DEF Deregister
<1>4. QED
    BY <1>2, <1>3 DEF TypeOK

LEMMA RotateType ==
    ASSUME TypeOK, NEW p \in Phones, NEW g, Rotate(p, g)
    PROVE  /\ garmin' \in [Phones -> SUBSET Nat]
           /\ issued' \in [Phones -> Nat]
           /\ issued[p] + 1 \in Nat
<1>1. issued[p] + 1 \in Nat
    BY DEF TypeOK
<1>2. (garmin[p] \ {g}) \cup {issued[p] + 1} \in SUBSET Nat
    BY <1>1 DEF TypeOK
<1>3. QED
    BY <1>1, <1>2 DEF Rotate, TypeOK

\* Every variable keeps its type: the maps of the SessionManager, the copies
\* its saves carry, the file, and the tables of the environment.
THEOREM TypeCorrect == Spec => []TypeOK
<1>1. Init => TypeOK
    BY ConstantsAssumption
    DEF Init, TypeOK, EmptyState, State, NoAccount, NoSession, Pair, Session,
        Idle, Phase
<1>2. TypeOK /\ [Next]_vars => TypeOK'
    <2> SUFFICES ASSUME TypeOK, [Next]_vars PROVE TypeOK'
        OBVIOUS
    <2>0. /\ EmptyState \in State
          /\ NoAccount \in Pair
          /\ NoSession \in Session
          /\ \A g \in Nat : Issue(g) \in Pair
        BY DEF EmptyState, State, NoAccount, NoSession, Pair, Session, Issue
    <2>1. ASSUME NEW w \in Calls, Copy(w) PROVE TypeOK'
        <3>1. [accounts |-> accounts, sessions |-> sessions] \in State
            BY DEF TypeOK, State
        <3>2. writer' \in [Calls -> [phase : Phase, copy : State,
                                     ends : SUBSET SessionIDs]]
            <4>1. writer' = [writer EXCEPT
                               ![w] = [[writer[w] EXCEPT !.phase = "copied"]
                                         EXCEPT !.copy = [accounts |-> accounts,
                                                          sessions |-> sessions]]]
                BY <2>1 DEF Copy, TypeOK
            <4>2. writer[w] \in [phase : Phase, copy : State, ends : SUBSET SessionIDs]
                BY DEF TypeOK
            <4>3. [writer[w] EXCEPT !.phase = "copied"]
                     \in [phase : Phase, copy : State, ends : SUBSET SessionIDs]
                BY <4>2 DEF Phase
            <4>4. QED
                BY <3>1, <4>1, <4>3 DEF TypeOK
        <3>3. faults' \subseteq AllFaults \cup {"overlap"}
            BY <2>1 DEF Copy, TypeOK
        <3>4. QED
            BY <2>1, <3>2, <3>3 DEF Copy, TypeOK, environment
    <2>2. ASSUME NEW w \in Calls, Truncate(w) PROVE TypeOK'
        BY <2>0, <2>2 DEF Truncate, TypeOK, Phase, environment, history
    <2>3. ASSUME NEW w \in Calls, WriteOut(w) PROVE TypeOK'
        BY <2>0, <2>3
        DEF WriteOut, Done, Idle, TypeOK, Phase, environment
    <2>4. ASSUME NEW w \in Calls, SaveFails(w) PROVE TypeOK'
        BY <2>0, <2>4
        DEF SaveFails, Done, Idle, TypeOK, Phase, environment, AllFaults
    <2>5. ASSUME NEW w \in Writers, NEW p \in Phones, NEW s \in SessionIDs,
                 ConfirmOTP(w, p, s)
          PROVE  TypeOK'
        <3>1. issued[p] + 1 \in Nat /\ garmin[p] \cup {issued[p] + 1} \in SUBSET Nat
            BY DEF TypeOK
        <3>2. accounts' \in [Phones -> Pair]
            BY <2>0, <2>5, <3>1 DEF ConfirmOTP, TypeOK
        <3>3. sessions' \in [SessionIDs -> Session] /\ drawn' \subseteq SessionIDs
            BY <2>5 DEF ConfirmOTP, Login, TypeOK, Session
        <3>4. /\ garmin' \in [Phones -> SUBSET Nat]
              /\ issued' \in [Phones -> Nat]
            <4>1. CASE ~Known(p)
                BY <2>5, <3>1, <4>1 DEF ConfirmOTP, TypeOK
            <4>2. CASE Known(p)
                BY <2>5, <3>1, <4>2, DeregisterType DEF ConfirmOTP
            <4>3. QED
                BY <4>1, <4>2
        <3>5. writer' \in [Calls -> [phase : Phase, copy : State,
                                     ends : SUBSET SessionIDs]]
            BY <2>5, CallType DEF ConfirmOTP
        <3>6. QED
            BY <2>5, <3>2, <3>3, <3>4, <3>5 DEF ConfirmOTP, TypeOK, history
    <2>6. ASSUME NEW w \in Writers, NEW p \in Phones, NEW s \in SessionIDs,
                 PasskeyLogin(w, p, s)
          PROVE  TypeOK'
        <3>1. sessions' \in [SessionIDs -> Session] /\ drawn' \subseteq SessionIDs
            BY <2>6 DEF PasskeyLogin, Login, TypeOK, Session
        <3>2. QED
            BY <2>6, <3>1, CallType
            DEF PasskeyLogin, TypeOK, history, environment
    <2>7. ASSUME NEW w \in Writers, NEW s \in SessionIDs, Logout(w, s)
          PROVE  TypeOK'
        BY <2>0, <2>7, CallType DEF Logout, TypeOK, history, environment
    <2>8. ASSUME NEW w \in Writers, NEW s \in SessionIDs, LogoutAll(w, s)
          PROVE  TypeOK'
        <3> DEFINE p == sessions[s].phone
        <3>1. p \in Phones \/ p = NoPhone
            BY DEF TypeOK, Session
        <3>2. sessions' \in [SessionIDs -> Session]
            BY <2>0, <2>8 DEF LogoutAll, TypeOK
        <3>3. accounts' \in [Phones -> Pair]
            BY <2>0, <2>8 DEF LogoutAll, TypeOK
        <3>4. /\ garmin' \in [Phones -> SUBSET Nat]
              /\ issued' \in [Phones -> Nat]
            <4>1. CASE p \in Phones
                BY <2>8, <4>1, DeregisterType DEF LogoutAll, TypeOK
            <4>2. CASE p = NoPhone
                <5>1. /\ issued' = [issued EXCEPT ![p] = issued'[p]]
                    BY <2>8 DEF LogoutAll, Deregister, TypeOK
                <5>2. QED
                    BY <2>8, <4>2, ConstantsAssumption
                    DEF LogoutAll, Deregister, TypeOK
            <4>3. QED
                BY <3>1, <4>1, <4>2
        <3>5. Cookies(p) \in SUBSET SessionIDs
            BY DEF Cookies
        <3>6. writer' \in [Calls -> [phase : Phase, copy : State,
                                     ends : SUBSET SessionIDs]]
            BY <2>8, <3>5, CallType DEF LogoutAll
        <3>7. QED
            BY <2>8, <3>2, <3>3, <3>4, <3>6 DEF LogoutAll, TypeOK, history
    <2>9. ASSUME NEW w \in Writers, DetachedCallback(w) PROVE TypeOK'
        BY <2>9, CallType DEF DetachedCallback, TypeOK, history, environment
    <2>10. ASSUME NEW p \in Phones, StoreAccessToken(p) PROVE TypeOK'
        BY <2>10, RotateType DEF StoreAccessToken, TypeOK, Pair, history
    <2>11. ASSUME NEW p \in Phones, NEW w \in Writers, StoreRefreshToken(w, p)
           PROVE  TypeOK'
        BY <2>11, CallType
        DEF StoreRefreshToken, TypeOK, Pair, history, environment
    <2>12. ASSUME NEW p \in Phones, RefreshAnswerLost(p) PROVE TypeOK'
        BY <2>12, RotateType DEF RefreshAnswerLost, TypeOK, history
    <2>13. ASSUME NEW s \in SessionIDs, Touch(s) PROVE TypeOK'
        BY <2>13 DEF Touch, TypeOK, Session, history, environment
    <2>14. CASE ReapSessions
        BY <2>0, <2>14 DEF ReapSessions, TypeOK, history, environment
    <2>15. CASE Tick
        BY <2>15 DEF Tick, TypeOK, history
    <2>16. CASE Crash
        BY <2>0, <2>16
        DEF Crash, TypeOK, State, Idle, Phase, history, environment
    <2>17. CASE Start
        BY <2>17 DEF Start, TypeOK, history, environment
    <2>18. ASSUME NEW p \in Phones, RestoreAccount(p) PROVE TypeOK'
        BY <2>0, <2>18, RotateType
        DEF RestoreAccount, TypeOK, State, history, environment
    <2>19. ASSUME NEW p \in Phones, SkipAccount(p) PROVE TypeOK'
        BY <2>19, RotateType
        DEF SkipAccount, TypeOK, history, environment, AllFaults
    <2>20. CASE RestoreSessions
        BY <2>0, <2>20, CallType
        DEF RestoreSessions, TypeOK, State, history, environment
    <2>21. CASE UNCHANGED vars
        BY <2>21 DEF vars, TypeOK, history, environment
    <2>22. QED
        BY <2>1, <2>2, <2>3, <2>4, <2>5, <2>6, <2>7, <2>8, <2>9, <2>10, <2>11,
           <2>12, <2>13, <2>14, <2>15, <2>16, <2>17, <2>18, <2>19, <2>20, <2>21
        DEF Next, Persist, Handle, Restore
<1>3. QED
    BY <1>1, <1>2, PTL DEF Spec

-------------------------------------------------------------------------------
\* No session without its account

\* What makes SessionsHaveAccount inductive: while NewServer restores accounts
\* there is no session yet and no refresh and no save under way, and a refresh under way
\* belongs to an account that has a token.
AccountInv ==
    /\ SessionsHaveAccount
    /\ mode \in {"down", "restoring"} =>
         /\ sessions = EmptyState.sessions
         /\ \A p \in Phones : ~storing[p]
         /\ \A w \in Calls : writer[w] = Idle
    /\ todo # {} => mode = "restoring"
    /\ \A p \in Phones : storing[p] => accounts[p].access # 0

Memory == [accounts |-> accounts, sessions |-> sessions]

LEMMA EmptyIsClosed == Closed(EmptyState)
    BY DEF Closed, EmptyState

\* A new call of PersistSessions leaves every copy closed.
LEMMA CallClosed ==
    ASSUME \A w \in Calls : Closed(writer[w].copy),
           NEW ws, NEW w, NEW ends, Call(ws, w, ends)
    PROVE  \A x \in Calls : Closed(writer'[x].copy)
    BY EmptyIsClosed DEF Call

LEMMA AccountInvInit == Init => AccountInv
    BY DEF Init, AccountInv, SessionsHaveAccount, Closed, EmptyState, Idle

LEMMA AccountInvNext == TypeOK /\ AccountInv /\ [Next]_vars => AccountInv'
<1> SUFFICES ASSUME TypeOK, AccountInv, [Next]_vars PROVE AccountInv'
    OBVIOUS
<1> USE EmptyIsClosed
<1>0. /\ Closed(Memory)
      /\ \A w \in Calls : Closed(writer[w].copy)
      /\ Closed(disk.state)
    BY DEF AccountInv, SessionsHaveAccount, Memory
<1>1. ASSUME NEW w \in Calls, Copy(w) PROVE AccountInv'
    <2>1. \A x \in Calls : Closed(writer'[x].copy)
        BY <1>0, <1>1 DEF Copy, TypeOK, Memory
    <2>2. mode \notin {"down", "restoring"}
        BY <1>1 DEF Copy, AccountInv, Idle
    <2>3. QED
        BY <1>0, <1>1, <2>1, <2>2
        DEF Copy, AccountInv, SessionsHaveAccount, Memory
<1>2. ASSUME NEW w \in Calls, Truncate(w) PROVE AccountInv'
    <2>1. \A x \in Calls : Closed(writer'[x].copy)
        BY <1>0, <1>2 DEF Truncate, TypeOK
    <2>2. mode \notin {"down", "restoring"}
        BY <1>2 DEF Truncate, AccountInv, Idle
    <2>3. QED
        BY <1>0, <1>2, <2>1, <2>2
        DEF Truncate, AccountInv, SessionsHaveAccount
<1>3. ASSUME NEW w \in Calls, WriteOut(w) PROVE AccountInv'
    <2>1. \A x \in Calls : Closed(writer'[x].copy)
        BY <1>0, <1>3 DEF WriteOut, Done, Idle, TypeOK
    <2>2. Closed(disk'.state)
        BY <1>0, <1>3 DEF WriteOut
    <2>3. mode \notin {"down", "restoring"} /\ mode' \notin {"down", "restoring"}
        BY <1>3 DEF WriteOut, Done, AccountInv, Idle
    <2>4. QED
        BY <1>0, <1>3, <2>1, <2>2, <2>3
        DEF WriteOut, AccountInv, SessionsHaveAccount, Memory
<1>5. ASSUME NEW w \in Writers, NEW p \in Phones, NEW s \in SessionIDs,
             ConfirmOTP(w, p, s)
      PROVE  AccountInv'
    <2>1. \A x \in Calls : Closed(writer'[x].copy)
        BY <1>0, <1>5, CallClosed DEF ConfirmOTP
    <2>2. Issue(issued[p] + 1) # NoAccount
        BY DEF TypeOK, Issue, NoAccount
    <2>3. Closed(Memory')
        BY <1>0, <1>5, <2>2
        DEF ConfirmOTP, Login, Closed, Memory, TypeOK
    <2>4. QED
        BY <1>0, <1>5, <2>1, <2>3
        DEF ConfirmOTP, Handler, AccountInv, SessionsHaveAccount, Memory, TypeOK
<1>6. ASSUME NEW w \in Writers, NEW p \in Phones, NEW s \in SessionIDs,
             PasskeyLogin(w, p, s)
      PROVE  AccountInv'
    <2>1. \A x \in Calls : Closed(writer'[x].copy)
        BY <1>0, <1>6, CallClosed DEF PasskeyLogin
    <2>2. Closed(Memory')
        BY <1>0, <1>6 DEF PasskeyLogin, Login, Known, Closed, Memory, TypeOK
    <2>3. QED
        BY <1>0, <1>6, <2>1, <2>2
        DEF PasskeyLogin, Handler, AccountInv, SessionsHaveAccount, Memory
<1>7. ASSUME NEW w \in Writers, NEW s \in SessionIDs, Logout(w, s)
      PROVE  AccountInv'
    <2>1. \A x \in Calls : Closed(writer'[x].copy)
        BY <1>0, <1>7, CallClosed DEF Logout
    <2>2. Closed(Memory')
        BY <1>0, <1>7 DEF Logout, Closed, Memory, TypeOK
    <2>3. QED
        BY <1>0, <1>7, <2>1, <2>2
        DEF Logout, Handler, AccountInv, SessionsHaveAccount, Memory
<1>8. ASSUME NEW w \in Writers, NEW s \in SessionIDs, LogoutAll(w, s)
      PROVE  AccountInv'
    <2> DEFINE p == sessions[s].phone
    <2>1. \A x \in Calls : Closed(writer'[x].copy)
        BY <1>0, <1>8, CallClosed DEF LogoutAll
    <2>2. ~storing[p] /\ sessions' = [x \in SessionIDs |->
               IF sessions[x].phone = p THEN NoSession ELSE sessions[x]]
        BY <1>8 DEF LogoutAll, Cookies
    <2>3. accounts' = [accounts EXCEPT ![p] = NoAccount]
        BY <1>8 DEF LogoutAll
    <2>4. Closed(Memory')
        BY <1>0, <2>2, <2>3 DEF Closed, Memory, TypeOK
    <2>5. \A q \in Phones : storing'[q] => accounts'[q].access # 0
        BY <1>8, <2>2, <2>3 DEF LogoutAll, AccountInv, TypeOK
    <2>6. QED
        BY <1>0, <1>8, <2>1, <2>4, <2>5
        DEF LogoutAll, Handler, AccountInv, SessionsHaveAccount, Memory
<1>9. ASSUME NEW w \in Writers, DetachedCallback(w) PROVE AccountInv'
    BY <1>0, <1>9, CallClosed
    DEF DetachedCallback, Handler, AccountInv, SessionsHaveAccount
<1>10. ASSUME NEW p \in Phones, StoreAccessToken(p) PROVE AccountInv'
    <2>1. issued[p] + 1 # 0
        BY DEF TypeOK
    <2>2. accounts'[p].access = issued[p] + 1 /\ accounts'[p] # NoAccount
        BY <1>10, <2>1 DEF StoreAccessToken, TypeOK, Pair, NoAccount
    <2>3. \A q \in Phones : q # p => accounts'[q] = accounts[q]
        BY <1>10 DEF StoreAccessToken, TypeOK
    <2>4. Closed(Memory')
        BY <1>0, <1>10, <2>2, <2>3 DEF StoreAccessToken, Closed, Memory
    <2>5. \A q \in Phones : storing'[q] => accounts'[q].access # 0
        BY <1>10, <2>1, <2>2, <2>3 DEF StoreAccessToken, AccountInv, TypeOK
    <2>6. QED
        BY <1>0, <1>10, <2>4, <2>5
        DEF StoreAccessToken, AccountInv, SessionsHaveAccount, Memory
<1>11. ASSUME NEW p \in Phones, NEW w \in Writers, StoreRefreshToken(w, p)
       PROVE  AccountInv'
    <2>1. \A x \in Calls : Closed(writer'[x].copy)
        BY <1>0, <1>11, CallClosed DEF StoreRefreshToken
    <2>2. accounts'[p].access # 0 /\ accounts'[p] # NoAccount
        BY <1>11 DEF StoreRefreshToken, AccountInv, TypeOK, Pair, NoAccount
    <2>3. \A q \in Phones : q # p => accounts'[q] = accounts[q]
        BY <1>11 DEF StoreRefreshToken, TypeOK
    <2>4. Closed(Memory')
        BY <1>0, <1>11, <2>2, <2>3 DEF StoreRefreshToken, Closed, Memory
    <2>5. \A q \in Phones : storing'[q] => accounts'[q].access # 0
        BY <1>11, <2>2, <2>3 DEF StoreRefreshToken, AccountInv, TypeOK
    <2>6. mode \notin {"down", "restoring"}
        BY <1>11 DEF StoreRefreshToken, AccountInv
    <2>7. QED
        BY <1>0, <1>11, <2>1, <2>4, <2>5, <2>6
        DEF StoreRefreshToken, AccountInv, SessionsHaveAccount, Memory
<1>13. ASSUME NEW s \in SessionIDs, Touch(s) PROVE AccountInv'
    <2>1. \A x \in SessionIDs : sessions'[x].phone = sessions[x].phone
        BY <1>13 DEF Touch, TypeOK, Session
    <2>2. \A x \in SessionIDs : sessions'[x] # NoSession => sessions[x] # NoSession
        BY <1>13 DEF Touch, Live, TypeOK, Session
    <2>3. Closed(Memory')
        BY <1>0, <1>13, <2>1, <2>2 DEF Touch, Closed, Memory
    <2>4. QED
        BY <1>0, <1>13, <2>3
        DEF Touch, AccountInv, SessionsHaveAccount, Memory
<1>14. CASE ReapSessions
    <2>1. Closed(Memory')
        BY <1>0, <1>14 DEF ReapSessions, Closed, Memory
    <2>2. QED
        BY <1>0, <1>14, <2>1
        DEF ReapSessions, AccountInv, SessionsHaveAccount, Memory
<1>16. CASE Crash
    BY <1>0, <1>16
    DEF Crash, AccountInv, SessionsHaveAccount, Closed, EmptyState, Idle
<1>17. CASE Start
    BY <1>0, <1>17 DEF Start, AccountInv, SessionsHaveAccount
<1>18. ASSUME NEW p \in Phones, RestoreAccount(p) PROVE AccountInv'
    <2>1. mode = "restoring" /\ mode' = mode
        BY <1>18 DEF RestoreAccount, AccountInv
    <2>2. /\ sessions' = EmptyState.sessions
          /\ \A q \in Phones : ~storing'[q]
          /\ \A w \in Calls : writer'[w] = Idle
        BY <1>18, <2>1 DEF RestoreAccount, AccountInv
    <2>3. Closed(Memory')
        BY <2>2 DEF Closed, Memory, EmptyState
    <2>4. QED
        BY <1>0, <1>18, <2>1, <2>2, <2>3
        DEF RestoreAccount, AccountInv, SessionsHaveAccount, Memory
<1>19. ASSUME NEW p \in Phones, SkipAccount(p) PROVE AccountInv'
    BY <1>0, <1>19 DEF SkipAccount, AccountInv, SessionsHaveAccount
<1>20. CASE RestoreSessions
    <2>1. \A x \in Calls : Closed(writer'[x].copy)
        BY <1>0, <1>20, CallClosed DEF RestoreSessions
    <2>2. Closed(Memory')
        BY <1>20 DEF RestoreSessions, Known, Closed, Memory
    <2>3. QED
        BY <1>0, <1>20, <2>1, <2>2
        DEF RestoreSessions, AccountInv, SessionsHaveAccount, Memory
<1>21. CASE \/ UNCHANGED vars \/ Tick
            \/ \E p \in Phones : RefreshAnswerLost(p)
    BY <1>0, <1>21
    DEF vars, Tick, RefreshAnswerLost, AccountInv, SessionsHaveAccount
<1>22. ASSUME NEW w \in Calls, SaveFails(w) PROVE AccountInv'
    <2>1. \A x \in Calls : Closed(writer'[x].copy)
        BY <1>0, <1>22 DEF SaveFails, Done, Idle, TypeOK
    <2>2. mode \notin {"down", "restoring"} /\ mode' \notin {"down", "restoring"}
        BY <1>22 DEF SaveFails, Done, Busy, AccountInv, Idle
    <2>3. QED
        BY <1>0, <1>22, <2>1, <2>2
        DEF SaveFails, AccountInv, SessionsHaveAccount, Memory
<1>23. QED
    BY <1>1, <1>2, <1>3, <1>5, <1>6, <1>7, <1>8, <1>9, <1>10, <1>11, <1>13,
       <1>14, <1>16, <1>17, <1>18, <1>19, <1>20, <1>21, <1>22
    DEF Next, Persist, Handle, Restore

\* No browser login is ever without its Garmin account: not in memory, not in a
\* copy a save carries, not in sessions.enc, so not after a restart either.
THEOREM SessionsAlwaysHaveAccount == Spec => []SessionsHaveAccount
<1>1. AccountInv => SessionsHaveAccount
    BY DEF AccountInv
<1>2. QED
    BY <1>1, AccountInvInit, AccountInvNext, TypeCorrect, PTL DEF Spec

-------------------------------------------------------------------------------
\* An undisturbed logout is final

\* A cookie no map, no copy and no file knows.
Gone(s) ==
    /\ ~Live(s)
    /\ disk.state.sessions[s] = NoSession
    /\ \A w \in Calls : writer[w].copy.sessions[s] = NoSession

\* What makes LogoutIsFinal inductive.  The last two conjuncts carry the
\* argument: a handler's cookies are missing from the copy its own save writes,
\* and unless an overlap was recorded no other save carries an older copy.
LogoutInv ==
    /\ LogoutIsFinal
    /\ loggedOut \subseteq drawn
    /\ \A s \in SessionIDs \ drawn : Gone(s)
    /\ \A w \in Calls : ~Busy(w) => writer[w].copy = EmptyState
    /\ \A w \in Calls : \A s \in writer[w].ends :
         /\ s \in drawn /\ ~Live(s)
         /\ writer[w].copy.sessions[s] = NoSession
    /\ faults = {} => \A w, x \in Calls : Busy(w) /\ Busy(x) => w = x

LEMMA CallGone ==
    ASSUME NEW s \in SessionIDs, Gone(s), NEW ws, NEW w, NEW ends,
           Call(ws, w, ends)
    PROVE  \A x \in Calls : writer'[x].copy.sessions[s] = NoSession
    BY DEF Gone, Call, EmptyState

\* No step but the login that draws it brings back a cookie that is gone.
LEMMA GoneStays ==
    ASSUME TypeOK, [Next]_vars,
           NEW s \in SessionIDs, Gone(s), s \in drawn \/ s \notin drawn'
    PROVE  Gone(s)'
<1> USE DEF Gone, Live
<1>1. ASSUME NEW w \in Calls, Copy(w) \/ Truncate(w) PROVE Gone(s)'
    BY <1>1 DEF Copy, Truncate, TypeOK, EmptyState
<1>2. ASSUME NEW w \in Calls, WriteOut(w) \/ SaveFails(w) PROVE Gone(s)'
    BY <1>2 DEF WriteOut, SaveFails, Done, Idle, TypeOK, EmptyState
<1>3. ASSUME NEW w \in Writers, NEW p \in Phones, NEW t \in SessionIDs,
             ConfirmOTP(w, p, t) \/ PasskeyLogin(w, p, t)
      PROVE  Gone(s)'
    <2>1. s # t /\ sessions'[s] = sessions[s]
        BY <1>3 DEF ConfirmOTP, PasskeyLogin, Login, TypeOK
    <2>2. \A x \in Calls : writer'[x].copy.sessions[s] = NoSession
        BY <1>3, CallGone DEF ConfirmOTP, PasskeyLogin
    <2>3. QED
        BY <1>3, <2>1, <2>2 DEF ConfirmOTP, PasskeyLogin
<1>4. ASSUME NEW w \in Writers, NEW t \in SessionIDs,
             Logout(w, t) \/ LogoutAll(w, t)
      PROVE  Gone(s)'
    <2>1. sessions'[s] = NoSession
        BY <1>4 DEF Logout, LogoutAll, TypeOK
    <2>2. \A x \in Calls : writer'[x].copy.sessions[s] = NoSession
        BY <1>4, CallGone DEF Logout, LogoutAll
    <2>3. QED
        BY <1>4, <2>1, <2>2 DEF Logout, LogoutAll
<1>5. ASSUME NEW w \in Writers, DetachedCallback(w) PROVE Gone(s)'
    BY <1>5, CallGone DEF DetachedCallback
<1>6. ASSUME NEW p \in Phones, NEW w \in Writers, StoreRefreshToken(w, p)
      PROVE  Gone(s)'
    BY <1>6, CallGone DEF StoreRefreshToken
<1>7. ASSUME NEW p \in Phones, \/ StoreAccessToken(p) \/ RefreshAnswerLost(p)
                               \/ RestoreAccount(p) \/ SkipAccount(p)
      PROVE  Gone(s)'
    BY <1>7 DEF StoreAccessToken, RefreshAnswerLost, RestoreAccount, SkipAccount
<1>8. ASSUME NEW t \in SessionIDs, Touch(t) PROVE Gone(s)'
    BY <1>8 DEF Touch, TypeOK
<1>9. CASE ReapSessions
    BY <1>9 DEF ReapSessions
<1>10. CASE Crash
    BY <1>10 DEF Crash, EmptyState, Idle
<1>11. CASE RestoreSessions
    <2>1. sessions'[s] = NoSession
        BY <1>11 DEF RestoreSessions
    <2>2. QED
        BY <1>11, <2>1, CallGone DEF RestoreSessions
<1>12. CASE Tick \/ Start \/ UNCHANGED vars
    BY <1>12 DEF Tick, Start, vars
<1>13. QED
    BY <1>1, <1>2, <1>3, <1>4, <1>5, <1>6, <1>7, <1>8, <1>9, <1>10, <1>11,
       <1>12
    DEF Next, Persist, Handle, Restore

LEMMA LogoutInvInit == Init => LogoutInv
    BY DEF Init, LogoutInv, LogoutIsFinal, Gone, Live, Busy, EmptyState, Idle

\* A new call adds no cookie of its own but the handler's, and no busy save.
LEMMA CallWriters ==
    ASSUME NEW ws, NEW w, NEW ends, Call(ws, w, ends)
    PROVE  \A x \in Calls :
             \/ writer'[x] = writer[x]
             \/ /\ writer'[x].phase = "pending"
                /\ writer'[x].copy = EmptyState
                /\ writer'[x].ends = {} \/ (x = w /\ writer'[x].ends = ends)
    BY DEF Call

\* Steps that make such a call, or leave the saves alone, record no logout, and
\* bring no handler's cookie back keep LogoutInv.
LEMMA CallKeepsLogoutInv ==
    ASSUME TypeOK, LogoutInv, [Next]_vars,
           NEW ends \in SUBSET drawn,
           \A x \in Calls :
             \/ writer'[x] = writer[x]
             \/ /\ writer'[x].phase = "pending"
                /\ writer'[x].copy = EmptyState
                /\ writer'[x].ends \in {{}, ends},
           drawn \subseteq drawn', drawn' \subseteq SessionIDs,
           loggedOut' = loggedOut, faults = faults' \/ faults' # {},
           \A s \in ends : sessions'[s] = NoSession,
           \A s \in drawn : sessions[s] = NoSession => sessions'[s] = NoSession
    PROVE  LogoutInv'
<1>1. \A s \in loggedOut : s \in SessionIDs /\ s \in drawn /\ Gone(s)
    BY DEF LogoutInv, LogoutIsFinal, Gone, TypeOK
<1>2. \A s \in loggedOut : Gone(s)'
    BY <1>1, GoneStays
<1>3. LogoutIsFinal' /\ loggedOut' \subseteq drawn'
    BY <1>1, <1>2 DEF LogoutIsFinal, Gone, Live
<1>4. \A s \in SessionIDs \ drawn' : Gone(s)'
    BY GoneStays DEF LogoutInv
<1>5. \A w \in Calls : Busy(w)' => Busy(w) /\ writer'[w] = writer[w]
    BY DEF Busy
<1>6. \A w \in Calls : ~Busy(w)' => writer'[w].copy = EmptyState
    BY DEF Busy, LogoutInv
<1>7. \A w \in Calls : \A s \in writer'[w].ends :
         /\ s \in drawn' /\ sessions'[s] = NoSession
         /\ writer'[w].copy.sessions[s] = NoSession
    <2> SUFFICES ASSUME NEW w \in Calls, NEW s \in writer'[w].ends
                 PROVE  /\ s \in drawn' /\ sessions'[s] = NoSession
                        /\ writer'[w].copy.sessions[s] = NoSession
        OBVIOUS
    <2>1. CASE writer'[w] = writer[w]
        BY <2>1 DEF LogoutInv, Live
    <2>2. CASE writer'[w] # writer[w]
        <3>1. s \in ends /\ writer'[w].copy = EmptyState
            BY <2>2
        <3>2. s \in SessionIDs
            BY <3>1 DEF TypeOK
        <3>3. QED
            BY <3>1, <3>2 DEF EmptyState
    <2>3. QED
        BY <2>1, <2>2
<1>8. faults' = {} => \A w, x \in Calls : Busy(w)' /\ Busy(x)' => w = x
    BY <1>5 DEF LogoutInv
<1>9. QED
    BY <1>3, <1>4, <1>6, <1>7, <1>8 DEF LogoutInv, Live

LEMMA LogoutInvNext ==
    TypeOK /\ AccountInv /\ LogoutInv /\ [Next]_vars => LogoutInv'
<1> SUFFICES ASSUME TypeOK, AccountInv, LogoutInv, [Next]_vars PROVE LogoutInv'
    OBVIOUS
<1>0. /\ drawn \subseteq SessionIDs
      /\ \A s \in SessionIDs : Live(s) => s \in drawn
    BY DEF TypeOK, LogoutInv, Gone
<1>a. ASSUME NEW s \in SessionIDs, Gone(s), s \in drawn \/ s \notin drawn'
      PROVE  Gone(s)'
    BY <1>a, GoneStays
<1>b. \A s \in loggedOut : s \in SessionIDs /\ s \in drawn /\ Gone(s)
    BY DEF LogoutInv, LogoutIsFinal, Gone, TypeOK
<1>1. ASSUME NEW w \in Calls, Copy(w) PROVE LogoutInv'
    <2>1. /\ writer'[w].copy.sessions = sessions
          /\ writer'[w].ends = writer[w].ends
          /\ \A x \in Calls \ {w} : writer'[x] = writer[x]
          /\ Busy(w)'
        BY <1>1 DEF Copy, TypeOK, Busy
    <2>2. LogoutIsFinal' /\ loggedOut' \subseteq drawn'
        BY <1>1, <1>a, <1>b DEF Copy, LogoutIsFinal, Gone
    <2>3. \A s \in SessionIDs \ drawn' : Gone(s)'
        BY <1>1, <1>a DEF Copy, LogoutInv
    <2>4. faults' = {} => \A x \in Calls \ {w} : ~Busy(x)'
        BY <1>1, <2>1 DEF Copy, Busy
    <2>5. faults' = {} => \A x, y \in Calls : Busy(x)' /\ Busy(y)' => x = y
        BY <2>4
    <2>6. \A x \in Calls : ~Busy(x)' => writer'[x].copy = EmptyState
        BY <2>1 DEF LogoutInv, Busy
    <2>7. \A x \in Calls : \A s \in writer'[x].ends :
             /\ s \in drawn /\ ~Live(s)
             /\ writer'[x].copy.sessions[s] = NoSession
        BY <2>1 DEF LogoutInv, Live
    <2>8. drawn' = drawn /\ sessions' = sessions
        BY <1>1 DEF Copy
    <2>9. QED
        BY <2>2, <2>3, <2>5, <2>6, <2>7, <2>8 DEF LogoutInv, Live
<1>2. ASSUME NEW w \in Calls, Truncate(w) PROVE LogoutInv'
    <2>1. /\ writer'[w].copy = writer[w].copy
          /\ writer'[w].ends = writer[w].ends
          /\ \A x \in Calls \ {w} : writer'[x] = writer[x]
          /\ \A x \in Calls : Busy(x)' = Busy(x)
        BY <1>2 DEF Truncate, TypeOK, Busy
    <2>2. LogoutIsFinal' /\ loggedOut' \subseteq drawn'
        BY <1>2, <1>a, <1>b DEF Truncate, LogoutIsFinal, Gone, history
    <2>3. \A s \in SessionIDs \ drawn' : Gone(s)'
        BY <1>2, <1>a DEF Truncate, LogoutInv
    <2>4. QED
        BY <1>2, <2>1, <2>2, <2>3 DEF Truncate, LogoutInv, Live, history
<1>3. ASSUME NEW w \in Calls, WriteOut(w) \/ SaveFails(w) PROVE LogoutInv'
    <2>1. /\ writer'[w] = Idle
          /\ \A x \in Calls \ {w} : writer'[x] = writer[x]
          /\ drawn' = drawn /\ sessions' = sessions
        BY <1>3 DEF WriteOut, SaveFails, Done, TypeOK
    <2>2. /\ writer'[w].ends = {} /\ writer'[w].copy = EmptyState
          /\ writer'[w].phase = "idle"
        BY <2>1 DEF Idle
    <2>3. Busy(w)
        BY <1>3 DEF WriteOut, SaveFails, Busy
    <2>4. \A s \in loggedOut' : s \in SessionIDs /\ s \in drawn /\ Gone(s)'
        <3> SUFFICES ASSUME NEW s \in loggedOut'
                     PROVE  s \in SessionIDs /\ s \in drawn /\ Gone(s)'
            OBVIOUS
        <3>1. CASE s \in loggedOut
            BY <1>a, <1>b, <3>1
        <3>2. CASE s \notin loggedOut
            <4>1. WriteOut(w) /\ faults = {} /\ s \in writer[w].ends
                BY <1>3, <3>2 DEF WriteOut, SaveFails
            <4>2. /\ s \in drawn /\ s \in SessionIDs /\ ~Live(s)
                  /\ writer[w].copy.sessions[s] = NoSession
                BY <1>0, <4>1 DEF LogoutInv
            <4>3. \A x \in Calls : writer'[x].copy = EmptyState
                BY <2>1, <2>2, <2>3, <4>1 DEF LogoutInv
            <4>4. disk'.state.sessions[s] = NoSession
                BY <4>1, <4>2 DEF WriteOut, EmptyState
            <4>5. QED
                BY <2>1, <4>2, <4>3, <4>4 DEF Gone, Live, EmptyState
        <3>3. QED
            BY <3>1, <3>2
    <2>5. \A s \in SessionIDs \ drawn' : Gone(s)'
        BY <1>a, <2>1 DEF LogoutInv
    <2>6. faults' = {} => faults = {}
        BY <1>3 DEF WriteOut, SaveFails
    <2>7. LogoutIsFinal' /\ loggedOut' \subseteq drawn'
        BY <2>1, <2>4 DEF LogoutIsFinal, Gone
    <2>8. \A x \in Calls : Busy(x)' => Busy(x)
        BY <2>1, <2>2 DEF Busy
    <2>9. \A x \in Calls : ~Busy(x)' => writer'[x].copy = EmptyState
        BY <2>1, <2>2 DEF Busy, LogoutInv
    <2>10. \A x \in Calls : \A s \in writer'[x].ends :
             /\ s \in drawn /\ ~Live(s)
             /\ writer'[x].copy.sessions[s] = NoSession
        BY <2>1, <2>2 DEF LogoutInv
    <2>11. QED
        BY <2>1, <2>5, <2>6, <2>7, <2>8, <2>9, <2>10 DEF LogoutInv, Live
<1>4. ASSUME NEW w \in Writers, NEW p \in Phones, NEW t \in SessionIDs,
             ConfirmOTP(w, p, t) \/ PasskeyLogin(w, p, t)
      PROVE  LogoutInv'
    <2>1. PICK ws : Call(ws, w, {})
        BY <1>4 DEF ConfirmOTP, PasskeyLogin
    <2>2. /\ t \notin drawn /\ drawn' = drawn \cup {t}
          /\ \A s \in drawn : sessions'[s] = sessions[s]
        BY <1>0, <1>4 DEF ConfirmOTP, PasskeyLogin, Login, TypeOK
    <2>3. loggedOut' = loggedOut /\ faults' = faults
        BY <1>4 DEF ConfirmOTP, PasskeyLogin, history
    <2>4. QED
        BY <1>0, <2>1, <2>2, <2>3, CallWriters, CallKeepsLogoutInv
<1>5. ASSUME NEW w \in Writers, NEW t \in SessionIDs, Logout(w, t)
      PROVE  LogoutInv'
    <2>1. Call({w}, w, {t}) /\ {t} \in SUBSET drawn
        BY <1>0, <1>5 DEF Logout
    <2>2. /\ drawn' = drawn /\ loggedOut' = loggedOut /\ faults' = faults
          /\ sessions' = [sessions EXCEPT ![t] = NoSession]
        BY <1>5 DEF Logout, history
    <2>3. \A s \in SessionIDs : sessions'[s] \in {sessions[s], NoSession}
        BY <2>2 DEF TypeOK
    <2>4. \A s \in {t} : sessions'[s] = NoSession
        BY <2>2 DEF TypeOK
    <2>5. QED
        BY <1>0, <2>1, <2>2, <2>3, <2>4, CallWriters, CallKeepsLogoutInv
<1>6. ASSUME NEW w \in Writers, NEW t \in SessionIDs, LogoutAll(w, t)
      PROVE  LogoutInv'
    <2> DEFINE p    == sessions[t].phone
               ends == {s \in drawn : sessions[s].phone = p}
    <2>1. PICK ws : Call(ws, w, Cookies(p))
        BY <1>6 DEF LogoutAll
    <2>2. /\ drawn' = drawn /\ loggedOut' = loggedOut /\ faults' = faults
          /\ sessions' = [s \in SessionIDs |->
                  IF s \in Cookies(p) THEN NoSession ELSE sessions[s]]
        BY <1>6 DEF LogoutAll, history
    <2>3. p \in Phones /\ NoSession.phone \notin Phones
        <3>1. sessions[t] # NoSession
            BY <1>6 DEF LogoutAll, Live
        <3>2. QED
            BY <3>1, ConstantsAssumption
            DEF AccountInv, SessionsHaveAccount, Closed, NoSession
    <2>4. Cookies(p) \subseteq drawn
        BY <1>0, <2>3 DEF Cookies, Live
    <2>5. \A s \in SessionIDs : sessions'[s] \in {sessions[s], NoSession}
        BY <2>2
    <2>6. \A s \in Cookies(p) : sessions'[s] = NoSession
        BY <2>2 DEF Cookies
    <2>7. QED
        BY <1>0, <2>1, <2>2, <2>4, <2>5, <2>6, CallWriters, CallKeepsLogoutInv
<1>7. ASSUME NEW w \in Writers,
             \/ DetachedCallback(w)
             \/ \E p \in Phones : StoreRefreshToken(w, p)
      PROVE  LogoutInv'
    <2>1. Call({w}, w, {})
        BY <1>7 DEF DetachedCallback, StoreRefreshToken
    <2>2. /\ drawn' = drawn /\ loggedOut' = loggedOut /\ faults' = faults
          /\ sessions' = sessions
        BY <1>7 DEF DetachedCallback, StoreRefreshToken, history
    <2>3. QED
        BY <1>0, <2>1, <2>2, CallWriters, CallKeepsLogoutInv
<1>8. ASSUME NEW p \in Phones,
             \/ StoreAccessToken(p) \/ RefreshAnswerLost(p)
             \/ RestoreAccount(p) \/ SkipAccount(p)
      PROVE  LogoutInv'
    <2>1. /\ drawn' = drawn /\ loggedOut' = loggedOut
          /\ faults' = faults \/ faults' # {}
          /\ sessions' = sessions /\ writer' = writer
        BY <1>8
        DEF StoreAccessToken, RefreshAnswerLost, RestoreAccount, SkipAccount,
            history
    <2>2. {} \in SUBSET drawn /\ \A s \in {} : sessions'[s] = NoSession
        OBVIOUS
    <2>3. QED
        BY <1>0, <2>1, <2>2, CallKeepsLogoutInv
<1>9. CASE \/ \E s \in SessionIDs : Touch(s)
           \/ ReapSessions \/ Tick \/ Start \/ UNCHANGED vars
    <2>1. /\ drawn' = drawn /\ loggedOut' = loggedOut /\ faults' = faults
          /\ writer' = writer
        BY <1>9 DEF Touch, ReapSessions, Tick, Start, vars, history
    <2>2. \A s \in SessionIDs : ~Live(s) => sessions'[s] = NoSession
        BY <1>9 DEF Touch, ReapSessions, Tick, Start, vars, Live, TypeOK
    <2>3. {} \in SUBSET drawn /\ \A s \in {} : sessions'[s] = NoSession
        OBVIOUS
    <2>4. \A s \in drawn : sessions[s] = NoSession => sessions'[s] = NoSession
        BY <1>0, <2>2 DEF Live
    <2>5. QED
        BY <1>0, <2>1, <2>3, <2>4, CallKeepsLogoutInv
<1>10. CASE Crash
    <2>1. /\ drawn' = drawn /\ loggedOut' = loggedOut
          /\ \A w \in Calls : writer'[w] = Idle
          /\ \A s \in SessionIDs : sessions'[s] = NoSession
        BY <1>10 DEF Crash, EmptyState
    <2>2. LogoutIsFinal' /\ loggedOut' \subseteq drawn'
        BY <2>1, <1>a, <1>b DEF LogoutIsFinal, Gone
    <2>3. \A s \in SessionIDs \ drawn' : Gone(s)'
        BY <1>a, <2>1 DEF LogoutInv
    <2>4. QED
        BY <2>1, <2>2, <2>3 DEF LogoutInv, Busy, Idle
<1>11. CASE RestoreSessions
    <2>1. \A w \in Calls : writer[w] = Idle
        BY <1>11 DEF RestoreSessions, AccountInv
    <2>2. /\ drawn' = drawn /\ loggedOut' = loggedOut
          /\ Call({Boot}, Boot, {})
        BY <1>11 DEF RestoreSessions, history
    <2>3. \A w \in Calls : /\ writer'[w].phase \in {"idle", "pending"}
                           /\ writer'[w].copy = EmptyState
                           /\ writer'[w].ends = {}
        BY <2>1, <2>2, CallWriters DEF Idle
    <2>4. \A w \in Calls : ~Busy(w)'
        BY <2>3 DEF Busy
    <2>5. LogoutIsFinal' /\ loggedOut' \subseteq drawn'
        BY <2>2, <1>a, <1>b DEF LogoutIsFinal, Gone
    <2>6. \A s \in SessionIDs \ drawn' : Gone(s)'
        BY <1>a, <2>2 DEF LogoutInv
    <2>7. QED
        BY <2>3, <2>4, <2>5, <2>6 DEF LogoutInv
<1>12. QED
    BY <1>1, <1>2, <1>3, <1>4, <1>5, <1>6, <1>7, <1>8, <1>9, <1>10, <1>11
    DEF Next, Persist, Handle, Restore

\* A logout that was answered, with no save failing and none overlapping until
\* then, is final: nothing that happens later, overlapping saves, failures and
\* restarts included, brings the cookie back.
THEOREM LogoutIsAlwaysFinal == Spec => []LogoutIsFinal
<1>1. LogoutInv => LogoutIsFinal
    BY DEF LogoutInv
<1>2. QED
    BY <1>1, LogoutInvInit, LogoutInvNext, AccountInvInit, AccountInvNext,
       TypeCorrect, PTL DEF Spec

-------------------------------------------------------------------------------
\* The file is current between saves

\* Where the states that saves carry come from: a copy is memory or empty, and
\* what the file gets is empty or the copy of a save.
LEMMA StatesMove ==
    ASSUME TypeOK, [Next]_vars
    PROVE  /\ \A x \in Calls :
                writer'[x].copy \in {writer[x].copy, Memory, EmptyState}
           /\ \/ disk'.state \in {disk.state, EmptyState}
              \/ \E w \in Calls : disk'.state = writer[w].copy
<1> USE DEF Memory
<1>1. ASSUME NEW w \in Calls, Copy(w) \/ Truncate(w)
      PROVE  /\ \A x \in Calls :
                  writer'[x].copy \in {writer[x].copy, Memory, EmptyState}
             /\ disk'.state \in {disk.state, EmptyState}
    BY <1>1 DEF Copy, Truncate, TypeOK, environment
<1>2. ASSUME NEW w \in Calls, WriteOut(w) \/ SaveFails(w)
      PROVE  /\ \A x \in Calls : writer'[x].copy \in {writer[x].copy, EmptyState}
             /\ disk'.state \in {disk.state, EmptyState, writer[w].copy}
    BY <1>2 DEF WriteOut, SaveFails, Done, Idle, TypeOK
<1>3. ASSUME NEW ws, NEW w, NEW ends, Call(ws, w, ends)
      PROVE  \A x \in Calls : writer'[x].copy \in {writer[x].copy, EmptyState}
    BY <1>3, CallWriters
<1>4. ASSUME NEW w \in Writers, Handle(w)
      PROVE  (\E ws, x, ends : Call(ws, x, ends)) /\ disk' = disk
    BY <1>4
    DEF Handle, ConfirmOTP, PasskeyLogin, Logout, LogoutAll, DetachedCallback
<1>5. ASSUME NEW p \in Phones,
             \/ StoreAccessToken(p) \/ RefreshAnswerLost(p)
             \/ RestoreAccount(p) \/ SkipAccount(p)
      PROVE  writer' = writer /\ disk' = disk
    BY <1>5
    DEF StoreAccessToken, RefreshAnswerLost, RestoreAccount, SkipAccount
<1>6. ASSUME NEW p \in Phones, NEW w \in Writers, StoreRefreshToken(w, p)
      PROVE  (\E ws, x, ends : Call(ws, x, ends)) /\ disk' = disk
    BY <1>6 DEF StoreRefreshToken
<1>7. ASSUME \/ \E s \in SessionIDs : Touch(s)
             \/ ReapSessions \/ Tick \/ Start \/ UNCHANGED vars
      PROVE  writer' = writer /\ disk' = disk
    BY <1>7 DEF Touch, ReapSessions, Tick, Start, vars
<1>8. ASSUME Crash
      PROVE  /\ \A x \in Calls : writer'[x].copy = EmptyState
             /\ disk' = disk
    BY <1>8 DEF Crash, Idle
<1>9. ASSUME RestoreSessions
      PROVE  (\E ws, x, ends : Call(ws, x, ends)) /\ disk' = disk
    BY <1>9 DEF RestoreSessions
<1>10. QED
    BY <1>1, <1>2, <1>3, <1>4, <1>5, <1>6, <1>7, <1>8, <1>9
    DEF Next, Persist, Restore

\* No session is ahead of the clock: not in memory, in a copy or in the file.
Dated(state) == \A s \in SessionIDs : state.sessions[s].last <= today

ClockInv ==
    /\ Dated(Memory)
    /\ \A w \in Calls : Dated(writer[w].copy)
    /\ Dated(disk.state)

LEMMA ClockInvInit == TypeOK /\ Init => ClockInv
    BY DEF Init, ClockInv, Dated, Memory, EmptyState, NoSession, Idle

LEMMA ClockInvNext == TypeOK /\ TypeOK' /\ ClockInv /\ [Next]_vars => ClockInv'
<1> SUFFICES ASSUME TypeOK, TypeOK', ClockInv, [Next]_vars PROVE ClockInv'
    OBVIOUS
<1>1. today' \in {today, today + 1} /\ today \in Nat /\ today' \in Nat
    <2>1. ASSUME NEW w \in Calls, Persist(w) PROVE today' = today
        BY <2>1
        DEF Persist, Copy, Truncate, WriteOut, SaveFails, environment
    <2>2. ASSUME NEW w \in Writers, Handle(w) PROVE today' = today
        BY <2>2 DEF Handle, ConfirmOTP, PasskeyLogin, Logout, LogoutAll,
                    DetachedCallback, environment
    <2>3. ASSUME NEW p \in Phones,
                 \/ StoreAccessToken(p) \/ RefreshAnswerLost(p)
                 \/ \E w \in Writers : StoreRefreshToken(w, p)
                 \/ RestoreAccount(p) \/ SkipAccount(p)
          PROVE  today' = today
        BY <2>3 DEF StoreAccessToken, RefreshAnswerLost, StoreRefreshToken,
                    RestoreAccount, SkipAccount, environment
    <2>4. CASE \/ \E s \in SessionIDs : Touch(s)
               \/ ReapSessions \/ Tick \/ Crash \/ Start \/ RestoreSessions
               \/ UNCHANGED vars
        BY <2>4 DEF Touch, ReapSessions, Tick, Crash, Start, RestoreSessions,
                    environment, vars, TypeOK
    <2>5. QED
        BY <2>1, <2>2, <2>3, <2>4 DEF Next, Restore, TypeOK
<1>2. ASSUME NEW state \in State, Dated(state) PROVE Dated(state)'
    BY <1>1, <1>2 DEF Dated, State, Session
<1>3. \A s \in SessionIDs :
         sessions'[s].last \in {sessions[s].last, today, 0,
                                disk.state.sessions[s].last}
    <2>1. NoSession.last = 0
        BY DEF NoSession
    <2>2. ASSUME NEW w \in Writers, NEW p \in Phones, NEW t \in SessionIDs,
                 ConfirmOTP(w, p, t) \/ PasskeyLogin(w, p, t)
          PROVE  \A s \in SessionIDs :
                   sessions'[s].last \in {sessions[s].last, today}
        BY <2>2 DEF ConfirmOTP, PasskeyLogin, Login, TypeOK
    <2>3. ASSUME NEW w \in Writers, NEW t \in SessionIDs,
                 Logout(w, t) \/ LogoutAll(w, t)
          PROVE  \A s \in SessionIDs :
                   sessions'[s].last \in {sessions[s].last, 0}
        BY <2>1, <2>3 DEF Logout, LogoutAll, TypeOK
    <2>4. ASSUME NEW t \in SessionIDs, Touch(t)
          PROVE  \A s \in SessionIDs :
                   sessions'[s].last \in {sessions[s].last, today}
        BY <2>4 DEF Touch, TypeOK, Session
    <2>5. ASSUME ReapSessions \/ Crash \/ RestoreSessions
          PROVE  \A s \in SessionIDs :
                   sessions'[s].last \in {sessions[s].last, 0,
                                          disk.state.sessions[s].last}
        BY <2>1, <2>5 DEF ReapSessions, Crash, RestoreSessions, EmptyState
    <2>6. ASSUME NEW w \in Calls, Persist(w) PROVE sessions' = sessions
        BY <2>6 DEF Persist, Copy, Truncate, WriteOut, SaveFails
    <2>7. ASSUME NEW p \in Phones,
                 \/ StoreAccessToken(p) \/ RefreshAnswerLost(p)
                 \/ \E w \in Writers : StoreRefreshToken(w, p)
                 \/ RestoreAccount(p) \/ SkipAccount(p)
          PROVE  sessions' = sessions
        BY <2>7 DEF StoreAccessToken, RefreshAnswerLost, StoreRefreshToken,
                    RestoreAccount, SkipAccount
    <2>8. ASSUME \/ \E w \in Writers : DetachedCallback(w)
                 \/ Tick \/ Start \/ UNCHANGED vars
          PROVE  sessions' = sessions
        BY <2>8 DEF DetachedCallback, Tick, Start, vars
    <2>9. QED
        BY <2>2, <2>3, <2>4, <2>5, <2>6, <2>7, <2>8 DEF Next, Handle, Restore
<1>4. /\ Memory \in State /\ EmptyState \in State /\ disk.state \in State
      /\ \A w \in Calls : writer[w].copy \in State
    BY DEF TypeOK, Memory, EmptyState, State, Session, NoSession, NoAccount, Pair
<1>5. Dated(EmptyState)
    BY <1>1 DEF Dated, EmptyState, NoSession
<1>6. Dated(Memory)'
    <2>1. \A s \in SessionIDs : sessions[s].last <= today
        BY DEF ClockInv, Dated, Memory
    <2>2. \A s \in SessionIDs : disk.state.sessions[s].last <= today
        BY DEF ClockInv, Dated
    <2>3. \A s \in SessionIDs : sessions'[s].last <= today
        BY <1>1, <1>3, <2>1, <2>2
    <2>4. \A s \in SessionIDs : sessions'[s].last \in Nat
        BY DEF TypeOK, Session
    <2>5. QED
        BY <1>1, <2>3, <2>4 DEF Dated, Memory
<1>7. \A w \in Calls : Dated(writer[w].copy)'
    BY <1>2, <1>4, <1>5, StatesMove DEF ClockInv, Dated
<1>8. Dated(disk.state)'
    BY <1>2, <1>4, <1>5, StatesMove DEF ClockInv, Dated
<1>9. QED
    BY <1>6, <1>7, <1>8 DEF ClockInv

\* A saved state memory has not left behind: the same accounts, and sessions
\* that differ only by what is never saved, later activity and the reaper's work.
Matches(state) ==
    /\ state.accounts = accounts
    /\ \A s \in SessionIDs :
         /\ Live(s) => /\ state.sessions[s].phone = sessions[s].phone
                       /\ state.sessions[s].last <= sessions[s].last
         /\ state.sessions[s] # NoSession /\ ~Live(s) =>
              Expired(state.sessions[s])

\* What makes QuietFileIsCurrent inductive.  Once NewServer has attached the
\* sessions, and until something goes wrong, either a save has still to copy
\* memory (one called for, or one a refresh under way will call for), or the
\* one save at work carries memory, or the file holds it.
Current ==
    \/ \E w \in Calls : writer[w].phase = "pending"
    \/ \E p \in Phones : storing[p]
    \/ \E w \in Calls : Busy(w) /\ Matches(writer[w].copy)
    \/ (\A w \in Calls : ~Busy(w)) /\ Matches(disk.state)

CurrentInv ==
    /\ faults = {} => \A w \in Calls :
                        writer[w].phase = "truncated" => disk.bytes = "none"
    /\ mode \in {"saving", "up"} /\ faults = {} => Current

LEMMA CurrentInvInit == Init => CurrentInv
    BY DEF Init, CurrentInv, Idle

\* A call of PersistSessions is a save that has still to copy memory.
LEMMA CallIsCurrent ==
    ASSUME CurrentInv, NEW ws, NEW w \in Calls, NEW ends, w \in ws,
           Call(ws, w, ends), disk' = disk, faults' = faults
    PROVE  CurrentInv'
<1>1. writer'[w].phase = "pending"
    BY DEF Call
<1>2. \A x \in Calls : writer'[x].phase = "truncated" => writer'[x] = writer[x]
    BY DEF Call
<1>3. QED
    BY <1>1, <1>2 DEF CurrentInv, Current

\* Steps that keep the saves, the file and the accounts keep CurrentInv when
\* every state that matched memory still does.
LEMMA MatchesStay ==
    ASSUME CurrentInv, writer' = writer, disk' = disk, storing' = storing,
           mode' = mode, faults' = faults,
           \A w \in Calls : Matches(writer[w].copy) => Matches(writer[w].copy)',
           Matches(disk.state) => Matches(disk.state)'
    PROVE  CurrentInv'
    BY DEF CurrentInv, Current, Busy

LEMMA CurrentInvNext ==
    TypeOK /\ AccountInv /\ LogoutInv /\ ClockInv /\ CurrentInv /\ [Next]_vars
        => CurrentInv'
<1> SUFFICES ASSUME TypeOK, AccountInv, LogoutInv, ClockInv, CurrentInv,
                    [Next]_vars
             PROVE  CurrentInv'
    OBVIOUS
<1>0. Writers \subseteq Calls /\ Boot \in Calls
    BY DEF Calls
<1>1. ASSUME NEW w \in Calls, Copy(w) PROVE CurrentInv'
    <2>1. /\ writer'[w].phase = "copied"
          /\ writer'[w].copy = [accounts |-> accounts, sessions |-> sessions]
          /\ \A x \in Calls \ {w} : writer'[x] = writer[x]
        BY <1>1 DEF Copy, TypeOK
    <2>2. accounts' = accounts /\ sessions' = sessions
        BY <1>1 DEF Copy
    <2>3. \A s \in SessionIDs : sessions[s].last <= sessions[s].last
        BY DEF TypeOK, Session
    <2>4. Busy(w)' /\ Matches(writer[w].copy)'
        BY <2>1, <2>2, <2>3 DEF Busy, Matches, Live
    <2>5. Current'
        BY <2>4 DEF Current
    <2>6. /\ faults' = {} => faults = {}
          /\ disk' = disk
        BY <1>1 DEF Copy
    <2>7. \A x \in Calls : writer'[x].phase = "truncated" => writer'[x] = writer[x]
        BY <2>1
    <2>8. QED
        BY <2>5, <2>6, <2>7 DEF CurrentInv
<1>2. ASSUME NEW w \in Calls, Truncate(w) PROVE CurrentInv'
    <2>1. /\ writer'[w].phase = "truncated"
          /\ writer'[w].copy = writer[w].copy
          /\ \A x \in Calls \ {w} : writer'[x] = writer[x]
          /\ disk'.bytes = "none"
          /\ Busy(w) /\ Busy(w)' /\ writer[w].phase # "pending"
        BY <1>2 DEF Truncate, TypeOK, Busy
    <2>2. /\ accounts' = accounts /\ sessions' = sessions /\ today' = today
          /\ mode' = mode /\ faults' = faults /\ storing' = storing
        BY <1>2 DEF Truncate, environment, history
    <2>3. \A x \in Calls : Matches(writer[x].copy) => Matches(writer[x].copy)'
        BY <2>1, <2>2 DEF Matches, Live, Expired
    <2>4. \A x \in Calls : Busy(x) => Busy(x)'
        BY <2>1 DEF Busy
    <2>5. Current => Current'
        BY <2>1, <2>2, <2>3, <2>4 DEF Current
    <2>6. QED
        BY <2>1, <2>2, <2>5 DEF CurrentInv
<1>3. ASSUME NEW w \in Calls, WriteOut(w) PROVE CurrentInv'
    <2>1. /\ writer'[w] = Idle
          /\ \A x \in Calls \ {w} : writer'[x] = writer[x]
          /\ writer[w].phase = "truncated" /\ Busy(w)
        BY <1>3 DEF WriteOut, Done, TypeOK, Busy
    <2>2. /\ accounts' = accounts /\ sessions' = sessions /\ today' = today
          /\ faults' = faults /\ storing' = storing
        BY <1>3 DEF WriteOut, environment
    <2>3. mode \in {"saving", "up"}
        BY <2>1 DEF AccountInv, Idle, TypeOK
    <2> SUFFICES ASSUME faults = {}
                 PROVE  /\ \A x \in Calls : writer'[x].phase # "truncated"
                        /\ Current'
        BY <2>2 DEF CurrentInv
    <2>4. \A x \in Calls : Busy(x) => x = w
        BY <2>1 DEF LogoutInv
    <2>5. \A x \in Calls : ~Busy(x)' /\ writer'[x].phase # "truncated"
        BY <2>1, <2>4 DEF Busy, Idle
    <2>6. disk'.state = writer[w].copy
        BY <1>3, <2>1 DEF WriteOut, CurrentInv
    <2>7. Matches(writer[w].copy) => Matches(disk.state)'
        BY <2>2, <2>6 DEF Matches, Live, Expired
    <2>8. Current
        BY <2>3 DEF CurrentInv
    <2>9. \A x \in Calls : writer[x].phase = "pending" => writer'[x] = writer[x]
        BY <2>1
    <2>10. Current'
        BY <2>1, <2>2, <2>4, <2>5, <2>7, <2>8, <2>9 DEF Current
    <2>11. QED
        BY <2>5, <2>10
<1>4. ASSUME NEW w \in Calls, SaveFails(w) PROVE CurrentInv'
    BY <1>4 DEF SaveFails, CurrentInv
<1>5. ASSUME NEW w \in Writers, Handle(w) PROVE CurrentInv'
    <2>1. \A refreshed \in BOOLEAN : \A ws \in Callers(w, refreshed) : w \in ws
        BY DEF Callers
    <2>2. \E ws, ends : w \in ws /\ Call(ws, w, ends)
        <3>1. ASSUME NEW p \in Phones, NEW s \in SessionIDs, ConfirmOTP(w, p, s)
              PROVE  \E ws, ends : w \in ws /\ Call(ws, w, ends)
            BY <2>1, <3>1 DEF ConfirmOTP
        <3>2. ASSUME NEW s \in SessionIDs, LogoutAll(w, s)
              PROVE  \E ws, ends : w \in ws /\ Call(ws, w, ends)
            BY <2>1, <3>2 DEF LogoutAll
        <3>3. ASSUME \/ DetachedCallback(w)
                     \/ \E p \in Phones, s \in SessionIDs : PasskeyLogin(w, p, s)
                     \/ \E s \in SessionIDs : Logout(w, s)
              PROVE  \E ends : Call({w}, w, ends)
            BY <3>3 DEF DetachedCallback, PasskeyLogin, Logout
        <3>4. w \in {w}
            OBVIOUS
        <3>5. QED
            BY <1>5, <3>1, <3>2, <3>3, <3>4 DEF Handle
    <2>3. disk' = disk /\ faults' = faults
        BY <1>5 DEF Handle, ConfirmOTP, PasskeyLogin, Logout, LogoutAll,
                    DetachedCallback, history
    <2>4. QED
        BY <1>0, <2>2, <2>3, CallIsCurrent
<1>6. ASSUME NEW p \in Phones, NEW w \in Writers, StoreRefreshToken(w, p)
      PROVE  CurrentInv'
    <2>1. Call({w}, w, {}) /\ disk' = disk /\ faults' = faults
        BY <1>6 DEF StoreRefreshToken, history
    <2>2. QED
        BY <1>0, <2>1, CallIsCurrent
<1>7. CASE RestoreSessions
    <2>1. Call({Boot}, Boot, {}) /\ disk' = disk /\ faults' = faults
        BY <1>7 DEF RestoreSessions, history
    <2>2. QED
        BY <1>0, <2>1, CallIsCurrent
<1>8. ASSUME NEW p \in Phones, StoreAccessToken(p) PROVE CurrentInv'
    <2>1. storing'[p] /\ writer' = writer /\ disk' = disk /\ faults' = faults
        BY <1>8 DEF StoreAccessToken, TypeOK, history
    <2>2. QED
        BY <2>1 DEF CurrentInv, Current
<1>9. ASSUME NEW p \in Phones, RefreshAnswerLost(p) PROVE CurrentInv'
    <2>1. /\ accounts' = accounts /\ sessions' = sessions /\ today' = today
          /\ mode' = mode /\ faults' = faults /\ storing' = storing
          /\ writer' = writer /\ disk' = disk
        BY <1>9 DEF RefreshAnswerLost, history
    <2>2. QED
        BY <2>1, MatchesStay DEF Matches, Live, Expired
<1>10. ASSUME NEW s \in SessionIDs, Touch(s) PROVE CurrentInv'
    <2>1. /\ accounts' = accounts /\ today' = today
          /\ mode' = mode /\ faults' = faults /\ storing' = storing
          /\ writer' = writer /\ disk' = disk
        BY <1>10 DEF Touch, environment, history
    <2>2. /\ Live(s) /\ Live(s)'
          /\ sessions'[s].phone = sessions[s].phone
          /\ sessions'[s].last = today
          /\ \A x \in SessionIDs \ {s} : sessions'[x] = sessions[x]
        BY <1>10, ConstantsAssumption
        DEF Touch, Live, NoSession, AccountInv, SessionsHaveAccount, Closed,
            TypeOK, Session
    <2>3. ASSUME NEW state \in State, Dated(state), Matches(state)
          PROVE  /\ state.accounts = accounts'
                 /\ \A x \in SessionIDs :
                      /\ Live(x)' => /\ state.sessions[x].phone = sessions'[x].phone
                                     /\ state.sessions[x].last <= sessions'[x].last
                      /\ state.sessions[x] # NoSession /\ ~Live(x)' =>
                           Expired(state.sessions[x])
        BY <2>1, <2>2, <2>3 DEF Matches, Dated, Live
    <2>4. /\ disk.state \in State /\ Dated(disk.state)
          /\ \A w \in Calls : writer[w].copy \in State /\ Dated(writer[w].copy)
        BY DEF TypeOK, ClockInv
    <2>5. \A w \in Calls : Matches(writer[w].copy) => Matches(writer[w].copy)'
        BY <2>1, <2>3, <2>4 DEF Matches, Expired
    <2>6. Matches(disk.state) => Matches(disk.state)'
        BY <2>1, <2>3, <2>4 DEF Matches, Expired
    <2>7. QED
        BY <2>1, <2>5, <2>6, MatchesStay
<1>11. CASE ReapSessions
    <2>1. /\ accounts' = accounts /\ today' = today
          /\ mode' = mode /\ faults' = faults /\ storing' = storing
          /\ writer' = writer /\ disk' = disk
        BY <1>11 DEF ReapSessions, environment, history
    <2>2. \A x \in SessionIDs :
             \/ sessions'[x] = sessions[x]
             \/ sessions'[x] = NoSession /\ Expired(sessions[x])
        BY <1>11 DEF ReapSessions
    <2>3. ASSUME NEW state \in State, Matches(state)
          PROVE  /\ state.accounts = accounts'
                 /\ \A x \in SessionIDs :
                      /\ Live(x)' => /\ state.sessions[x].phone = sessions'[x].phone
                                     /\ state.sessions[x].last <= sessions'[x].last
                      /\ state.sessions[x] # NoSession /\ ~Live(x)' =>
                           Expired(state.sessions[x])
        <3> SUFFICES ASSUME NEW x \in SessionIDs
                     PROVE  /\ Live(x)' =>
                                 /\ state.sessions[x].phone = sessions'[x].phone
                                 /\ state.sessions[x].last <= sessions'[x].last
                            /\ state.sessions[x] # NoSession /\ ~Live(x)' =>
                                 Expired(state.sessions[x])
            BY <2>1, <2>3 DEF Matches
        <3>1. CASE sessions'[x] = sessions[x]
            BY <2>3, <3>1 DEF Matches, Live
        <3>2. CASE sessions'[x] = NoSession /\ Expired(sessions[x])
            <4>1. Live(x) /\ ~Live(x)'
                BY <3>2 DEF Live, Expired
            <4>2. state.sessions[x].last <= sessions[x].last
                BY <2>3, <4>1 DEF Matches
            <4>3. /\ state.sessions[x].last \in Nat /\ sessions[x].last \in Nat
                  /\ today \in Nat /\ today - sessions[x].last > SessionTTL
                BY <3>2 DEF TypeOK, State, Session, Expired
            <4>4. QED
                BY <4>1, <4>2, <4>3, ConstantsAssumption DEF Expired
        <3>3. QED
            BY <2>2, <3>1, <3>2
    <2>4. disk.state \in State /\ \A w \in Calls : writer[w].copy \in State
        BY DEF TypeOK
    <2>5. \A w \in Calls : Matches(writer[w].copy) => Matches(writer[w].copy)'
        BY <2>1, <2>3, <2>4 DEF Matches, Expired
    <2>6. Matches(disk.state) => Matches(disk.state)'
        BY <2>1, <2>3, <2>4 DEF Matches, Expired
    <2>7. QED
        BY <2>1, <2>5, <2>6, MatchesStay
<1>12. CASE Tick
    <2>1. /\ accounts' = accounts /\ sessions' = sessions /\ today' = today + 1
          /\ mode' = mode /\ faults' = faults /\ storing' = storing
          /\ writer' = writer /\ disk' = disk
        BY <1>12 DEF Tick, history
    <2>2. \A s \in Session : Expired(s) => s # NoSession /\ today' - s.last > SessionTTL
        BY <2>1, ConstantsAssumption DEF Expired, Session, TypeOK
    <2>3. \A s \in SessionIDs :
             /\ disk.state.sessions[s] \in Session
             /\ \A w \in Calls : writer[w].copy.sessions[s] \in Session
        BY DEF TypeOK, State
    <2>4. \A w \in Calls : Matches(writer[w].copy) => Matches(writer[w].copy)'
        BY <2>1, <2>2, <2>3 DEF Matches, Live, Expired
    <2>5. Matches(disk.state) => Matches(disk.state)'
        BY <2>1, <2>2, <2>3 DEF Matches, Live, Expired
    <2>6. QED
        BY <2>1, <2>4, <2>5, MatchesStay
<1>13. CASE Crash
    BY <1>13 DEF Crash, CurrentInv, Idle
<1>14. ASSUME NEW p \in Phones, RestoreAccount(p) \/ SkipAccount(p)
       PROVE  CurrentInv'
    <2>1. mode = "restoring" /\ mode' = mode /\ writer' = writer /\ disk' = disk
        BY <1>14 DEF RestoreAccount, SkipAccount, AccountInv
    <2>2. faults' = {} => faults = {}
        BY <1>14 DEF RestoreAccount, SkipAccount, history
    <2>3. QED
        BY <2>1, <2>2 DEF CurrentInv
<1>15. CASE Start
    BY <1>15 DEF Start, CurrentInv, history
<1>16. CASE UNCHANGED vars
    <2>1. /\ accounts' = accounts /\ sessions' = sessions /\ today' = today
          /\ mode' = mode /\ faults' = faults /\ storing' = storing
          /\ writer' = writer /\ disk' = disk
        BY <1>16 DEF vars
    <2>2. QED
        BY <2>1, MatchesStay DEF Matches, Live, Expired
<1>17. QED
    BY <1>1, <1>2, <1>3, <1>4, <1>5, <1>6, <1>7, <1>8, <1>9, <1>10, <1>11,
       <1>12, <1>13, <1>14, <1>15, <1>16
    DEF Next, Persist, Restore

LEMMA CurrentInvImplies == TypeOK /\ CurrentInv => QuietFileIsCurrent
<1> SUFFICES ASSUME TypeOK, CurrentInv, mode = "up", Quiet, faults = {}
             PROVE  FileIsCurrent
    BY DEF QuietFileIsCurrent
<1>1. \A w \in Calls : ~Busy(w) /\ writer[w].phase # "pending"
    BY DEF Quiet, Free, Busy
<1>2. Matches(disk.state)
    BY <1>1 DEF CurrentInv, Current, Quiet
<1>3. QED
    BY <1>2 DEF Matches, FileIsCurrent

\* As long as no two saves overlapped and none failed, sessions.enc is what
\* memory is whenever no save is under way: the current token pairs, no half
\* pair, and no session memory has dropped but those the reaper took.
THEOREM QuietFileStaysCurrent == Spec => []QuietFileIsCurrent
<1>1. QED
    BY CurrentInvImplies, CurrentInvInit, CurrentInvNext, ClockInvInit,
       ClockInvNext, LogoutInvInit, LogoutInvNext, AccountInvInit,
       AccountInvNext, TypeCorrect, PTL DEF Spec

-------------------------------------------------------------------------------
\* Logins survive a restart

\* No stored pair is newer than Garmin's last, and where its halves differ
\* the refresh half is one that Garmin has retired.
Paired(accts) ==
    \A p \in Phones :
        /\ accts[p].access <= issued[p]
        /\ accts[p].refresh <= issued[p]
        /\ accts[p].access = accts[p].refresh \/ accts[p].refresh \notin garmin[p]

TokenInv ==
    /\ \A p \in Phones : \A g \in garmin[p] : g <= issued[p]
    /\ Paired(accounts)
    /\ \A w \in Calls : Paired(writer[w].copy.accounts)
    /\ Paired(disk.state.accounts)

\* What the logins a quiet, faultless crash interrupted keep until NewServer
\* attaches the sessions: in the file their account, with a pair Garmin accepts
\* until it has been tried, and in memory the account once it has.
RestartInv ==
    mode \in {"down", "restoring"} /\ faults = {} =>
        \A s \in before :
            LET p    == disk.state.sessions[s].phone
                pair == disk.state.accounts[p]
            IN  /\ p \in Phones
                /\ pair # NoAccount
                /\ mode = "down" \/ p \in todo =>
                     pair.access \in garmin[p] /\ pair.refresh \in garmin[p]
                /\ mode = "restoring" /\ p \notin todo => Known(p)

\* What Garmin accepts afterwards it accepted before, or issued meanwhile.
LEMMA GarminMoves ==
    ASSUME TypeOK, AccountInv, [Next]_vars, NEW p \in Phones
    PROVE  /\ issued[p] <= issued'[p]
           /\ \A g \in garmin'[p] : g \in garmin[p] \/ (issued[p] < g /\ g <= issued'[p])
<1> DEFINE Moves(q) ==
        /\ issued[q] <= issued'[q]
        /\ \A g \in garmin'[q] :
              g \in garmin[q] \/ (issued[q] < g /\ g <= issued'[q])
<1>0. /\ issued \in [Phones -> Nat]
      /\ garmin \in [Phones -> SUBSET Nat]
    BY DEF TypeOK
<1>1. ASSUME UNCHANGED <<garmin, issued>> PROVE Moves(p)
    BY <1>0, <1>1
<1>2. ASSUME NEW q \in Phones, NEW g, Rotate(q, g) PROVE Moves(p)
    BY <1>0, <1>2 DEF Rotate
<1>3. ASSUME NEW q \in Phones, NEW accepted \in SUBSET Nat,
             NEW gens \in Nat, NEW refreshed,
             Deregister(q, accepted, gens, refreshed),
             issued[q] <= gens,
             \A g \in accepted : g \in garmin[q] \/ (issued[q] < g /\ g <= gens)
      PROVE  Moves(p)
    <2>1. CASE p = q
        <3>1. /\ issued'[p] \in {gens, gens + 1}
              /\ garmin'[p] \subseteq accepted \cup {gens + 1}
              /\ garmin'[p] \subseteq accepted \/ issued'[p] = gens + 1
            BY <1>0, <1>3, <2>1 DEF Deregister
        <3>2. issued'[p] \in Nat /\ gens <= issued'[p] /\ issued[p] <= gens
            BY <1>3, <2>1, <3>1
        <3>3. issued[p] \in Nat /\ issued[p] <= issued'[p]
            BY <1>0, <1>3, <3>2
        <3>4. ASSUME NEW g \in garmin'[p], g \notin garmin[p]
              PROVE  issued[p] < g /\ g <= issued'[p]
            <4>1. CASE g \in accepted
                <5>1. issued[p] < g /\ g <= gens /\ g \in Nat
                    BY <1>3, <2>1, <3>4, <4>1
                <5>2. QED
                    BY <3>2, <5>1
            <4>2. CASE g \notin accepted
                <5>1. g = gens + 1 /\ issued'[p] = gens + 1
                    BY <3>1, <3>4, <4>2
                <5>2. QED
                    BY <1>3, <3>2, <3>3, <5>1
            <4>3. QED
                BY <4>1, <4>2
        <3>5. QED
            BY <3>3, <3>4
    <2>2. CASE p # q
        <3>1. issued'[p] = issued[p] /\ garmin'[p] = garmin[p]
            BY <1>0, <1>3, <2>2 DEF Deregister
        <3>2. QED
            BY <1>0, <3>1
    <2>3. QED
        BY <2>1, <2>2
<1>4. ASSUME NEW w \in Writers, NEW q \in Phones, NEW s \in SessionIDs,
             ConfirmOTP(w, q, s)
      PROVE  Moves(p)
    <2>1. CASE ~Known(q)
        <3>1. /\ issued' = [issued EXCEPT ![q] = issued[q] + 1]
              /\ garmin' = [garmin EXCEPT ![q] = garmin[q] \cup {issued[q] + 1}]
            BY <1>4, <2>1 DEF ConfirmOTP, Deregister
        <3>2. CASE p = q
            <4>1. /\ issued'[p] = issued[p] + 1
                  /\ garmin'[p] = garmin[p] \cup {issued[p] + 1}
                BY <1>0, <3>1, <3>2
            <4>2. QED
                BY <1>0, <4>1
        <3>3. CASE p # q
            BY <1>0, <3>1, <3>3
        <3>4. QED
            BY <3>2, <3>3
    <2>2. CASE Known(q)
        <3>1. PICK refreshed \in BOOLEAN :
                 Deregister(q, garmin[q] \cup {issued[q] + 1}, issued[q] + 1, refreshed)
            BY <1>4, <2>2 DEF ConfirmOTP
        <3>2. /\ issued[q] + 1 \in Nat /\ issued[q] <= issued[q] + 1
              /\ garmin[q] \cup {issued[q] + 1} \in SUBSET Nat
              /\ \A g \in garmin[q] \cup {issued[q] + 1} :
                    g \in garmin[q] \/ (issued[q] < g /\ g <= issued[q] + 1)
            BY <1>0
        <3>3. QED
            BY <1>3, <3>1, <3>2
    <2>3. QED
        BY <2>1, <2>2
<1>5. ASSUME NEW w \in Writers, NEW s \in SessionIDs, LogoutAll(w, s)
      PROVE  Moves(p)
    <2> DEFINE q == sessions[s].phone
    <2>1. q \in Phones
        BY <1>5 DEF LogoutAll, Live, AccountInv, SessionsHaveAccount, Closed
    <2>2. PICK refreshed \in BOOLEAN :
             Deregister(q, garmin[q], issued[q], refreshed)
        BY <1>5 DEF LogoutAll
    <2>3. issued[q] \in Nat /\ issued[q] <= issued[q] /\ garmin[q] \in SUBSET Nat
        BY <1>0, <2>1
    <2> HIDE DEF q
    <2>4. QED
        BY <1>3, <2>1, <2>2, <2>3
<1>6. ASSUME NEW w \in Calls, Persist(w) PROVE Moves(p)
    BY <1>1, <1>6
    DEF Persist, Copy, Truncate, WriteOut, SaveFails, environment
<1>7. ASSUME NEW w \in Writers,
             \/ \E q \in Phones, s \in SessionIDs : PasskeyLogin(w, q, s)
             \/ \E s \in SessionIDs : Logout(w, s)
             \/ DetachedCallback(w)
             \/ \E q \in Phones : StoreRefreshToken(w, q)
      PROVE  Moves(p)
    BY <1>1, <1>7
    DEF PasskeyLogin, Logout, DetachedCallback, StoreRefreshToken, environment
<1>8. ASSUME NEW q \in Phones,
             \/ StoreAccessToken(q) \/ RefreshAnswerLost(q)
             \/ RestoreAccount(q) \/ SkipAccount(q)
      PROVE  Moves(p)
    BY <1>1, <1>2, <1>8
    DEF StoreAccessToken, RefreshAnswerLost, RestoreAccount, SkipAccount,
        environment
<1>9. CASE \/ \E s \in SessionIDs : Touch(s)
           \/ ReapSessions \/ Tick \/ Crash \/ Start \/ RestoreSessions
           \/ UNCHANGED vars
    BY <1>1, <1>9
    DEF Touch, ReapSessions, Tick, Crash, Start, RestoreSessions, environment,
        vars
<1>10. QED
    BY <1>4, <1>5, <1>6, <1>7, <1>8, <1>9 DEF Next, Handle, Restore

LEMMA TokenInvInit == Init => TokenInv
    BY DEF Init, TokenInv, Paired, EmptyState, NoAccount, Idle

LEMMA TokenInvNext ==
    TypeOK /\ TypeOK' /\ AccountInv /\ TokenInv /\ [Next]_vars => TokenInv'
<1> SUFFICES ASSUME TypeOK, TypeOK', AccountInv, TokenInv, [Next]_vars
             PROVE  TokenInv'
    OBVIOUS
<1>0. /\ issued \in [Phones -> Nat] /\ issued' \in [Phones -> Nat]
      /\ garmin \in [Phones -> SUBSET Nat] /\ garmin' \in [Phones -> SUBSET Nat]
      /\ accounts \in [Phones -> Pair]
    BY DEF TypeOK
<1>1. \A p \in Phones :
         /\ issued[p] <= issued'[p]
         /\ \A g \in garmin'[p] : g \in garmin[p] \/ (issued[p] < g /\ g <= issued'[p])
    BY GarminMoves
<1>2. \A p \in Phones : \A g \in garmin'[p] : g <= issued'[p]
    BY <1>0, <1>1 DEF TokenInv
<1> DEFINE Fits(p, pair) ==
        /\ pair.access <= issued'[p]
        /\ pair.refresh <= issued'[p]
        /\ pair.access = pair.refresh \/ pair.refresh \notin garmin'[p]
<1>3. ASSUME NEW p \in Phones, NEW pair \in Pair,
             pair.access <= issued[p], pair.refresh <= issued[p],
             pair.access = pair.refresh \/ pair.refresh \notin garmin[p]
      PROVE  Fits(p, pair)
    BY <1>0, <1>1, <1>3 DEF Pair
<1>4. ASSUME NEW p \in Phones, NEW g \in Nat, g <= issued'[p]
      PROVE  Fits(p, Issue(g))
    BY <1>4 DEF Issue
<1>5. ASSUME NEW p \in Phones PROVE Fits(p, NoAccount)
    BY <1>0 DEF NoAccount
<1>6. ASSUME NEW p \in Phones
      PROVE  Fits(p, accounts[p]) /\ Fits(p, disk.state.accounts[p])
    BY <1>0, <1>3 DEF TokenInv, Paired, TypeOK, State
<1>7. ASSUME NEW p \in Phones, NEW w \in Calls
      PROVE  Fits(p, writer[w].copy.accounts[p])
    BY <1>3 DEF TokenInv, Paired, TypeOK, State
<1>8. ASSUME NEW p \in Phones PROVE Fits(p, EmptyState.accounts[p])
    BY <1>5 DEF EmptyState
<1>9. ASSUME NEW p \in Phones PROVE Fits(p, accounts'[p])
    <2>1. ASSUME NEW w \in Writers, NEW q \in Phones, NEW s \in SessionIDs,
                 ConfirmOTP(w, q, s)
          PROVE  Fits(p, accounts'[p])
        <3>1. accounts' = [accounts EXCEPT ![q] = Issue(issued[q] + 1)]
            BY <2>1 DEF ConfirmOTP
        <3>2. issued[q] + 1 \in Nat /\ issued[q] + 1 <= issued'[q]
            BY <1>0, <2>1 DEF ConfirmOTP, Deregister
        <3>3. QED
            BY <1>0, <1>4, <1>6, <3>1, <3>2
    <2>2. ASSUME NEW w \in Writers, NEW s \in SessionIDs, LogoutAll(w, s)
          PROVE  Fits(p, accounts'[p])
        BY <1>0, <1>5, <1>6, <2>2 DEF LogoutAll
    <2>3. ASSUME NEW q \in Phones, StoreAccessToken(q)
          PROVE  Fits(p, accounts'[p])
        <3>1. CASE p = q
            <4>1. /\ accounts'[p].access = issued[p] + 1
                  /\ accounts'[p].refresh = accounts[p].refresh
                BY <1>0, <2>3, <3>1 DEF StoreAccessToken, Pair
            <4>2. /\ issued'[p] = issued[p] + 1
                  /\ garmin'[p] = (garmin[p] \ {accounts[p].refresh})
                                    \cup {issued[p] + 1}
                BY <1>0, <2>3, <3>1 DEF StoreAccessToken, Rotate
            <4>3. accounts[p].refresh \in Nat /\ accounts[p].refresh <= issued[p]
                BY <1>0 DEF TokenInv, Paired, Pair
            <4>4. QED
                BY <1>0, <4>1, <4>2, <4>3
        <3>2. CASE p # q
            BY <1>0, <1>6, <2>3, <3>2 DEF StoreAccessToken
        <3>3. QED
            BY <3>1, <3>2
    <2>4. ASSUME NEW q \in Phones, NEW w \in Writers, StoreRefreshToken(w, q)
          PROVE  Fits(p, accounts'[p])
        <3>1. CASE p = q
            <4>1. /\ accounts'[p].access = accounts[p].access
                  /\ accounts'[p].refresh = accounts[p].access
                BY <1>0, <2>4, <3>1 DEF StoreRefreshToken, Pair
            <4>2. QED
                BY <1>6, <4>1
        <3>2. CASE p # q
            BY <1>0, <1>6, <2>4, <3>2 DEF StoreRefreshToken
        <3>3. QED
            BY <3>1, <3>2
    <2>5. ASSUME NEW q \in Phones, RestoreAccount(q)
          PROVE  Fits(p, accounts'[p])
        <3>1. CASE accounts' = [accounts EXCEPT ![q] = disk.state.accounts[q]]
            BY <1>0, <1>6, <3>1
        <3>2. CASE /\ accounts' = [accounts EXCEPT ![q] = Issue(issued[q] + 1)]
                   /\ Rotate(q, disk.state.accounts[q].refresh)
            <4>1. issued[q] + 1 \in Nat /\ issued[q] + 1 <= issued'[q]
                BY <1>0, <3>2 DEF Rotate
            <4>2. QED
                BY <1>0, <1>4, <1>6, <3>2, <4>1
        <3>3. QED
            BY <2>5, <3>1, <3>2 DEF RestoreAccount
    <2>6. ASSUME Crash PROVE Fits(p, accounts'[p])
        BY <1>8, <2>6 DEF Crash
    <2>7. ASSUME accounts' = accounts PROVE Fits(p, accounts'[p])
        BY <1>6, <2>7
    <2>8. ASSUME NEW w \in Calls, Persist(w) PROVE accounts' = accounts
        BY <2>8 DEF Persist, Copy, Truncate, WriteOut, SaveFails
    <2>9. ASSUME NEW w \in Writers,
                 \/ \E q \in Phones, s \in SessionIDs : PasskeyLogin(w, q, s)
                 \/ \E s \in SessionIDs : Logout(w, s)
                 \/ DetachedCallback(w)
          PROVE  accounts' = accounts
        BY <2>9 DEF PasskeyLogin, Logout, DetachedCallback
    <2>10. CASE \/ \E q \in Phones : RefreshAnswerLost(q) \/ SkipAccount(q)
                \/ \E s \in SessionIDs : Touch(s)
                \/ ReapSessions \/ Tick \/ Start \/ RestoreSessions
                \/ UNCHANGED vars
        BY <2>7, <2>10
        DEF RefreshAnswerLost, SkipAccount, Touch, ReapSessions, Tick, Start,
            RestoreSessions, vars
    <2>11. QED
        BY <2>1, <2>2, <2>3, <2>4, <2>5, <2>6, <2>7, <2>8, <2>9, <2>10
        DEF Next, Handle, Restore
<1>10. ASSUME NEW p \in Phones, NEW w \in Calls
       PROVE  Fits(p, writer'[w].copy.accounts[p])
    BY <1>6, <1>7, <1>8, StatesMove DEF Memory
<1>11. ASSUME NEW p \in Phones PROVE Fits(p, disk'.state.accounts[p])
    BY <1>6, <1>7, <1>8, StatesMove
<1>12. QED
    BY <1>2, <1>9, <1>10, <1>11 DEF TokenInv, Paired

LEMMA RestartInvInit == Init => RestartInv
    BY DEF Init, RestartInv

LEMMA RestartInvNext ==
    TypeOK /\ AccountInv /\ TokenInv /\ CurrentInv /\ RestartInv /\ [Next]_vars
        => RestartInv'
<1> SUFFICES ASSUME TypeOK, AccountInv, TokenInv, CurrentInv, RestartInv,
                    [Next]_vars
             PROVE  RestartInv'
    OBVIOUS
<1> DEFINE phone(s) == disk.state.sessions[s].phone
           pair(s)  == disk.state.accounts[phone(s)]
<1>1. CASE Crash
    <2>1. mode' = "down" /\ disk' = disk /\ garmin' = garmin
        BY <1>1 DEF Crash, environment
    <2> SUFFICES ASSUME NEW s \in before'
                 PROVE  /\ phone(s) \in Phones
                        /\ pair(s) # NoAccount
                        /\ pair(s).access \in garmin[phone(s)]
                        /\ pair(s).refresh \in garmin[phone(s)]
        BY <2>1 DEF RestartInv
    <2>2. mode = "up" /\ Quiet /\ faults = {} /\ s \in SessionIDs /\ Restorable(s)
        BY <1>1 DEF Crash
    <2>3. Matches(disk.state)
        BY <2>2 DEF CurrentInv, Current, Quiet, Free, Busy
    <2>4. Live(s) /\ phone(s) = sessions[s].phone /\ disk.state.accounts = accounts
        BY <2>2, <2>3 DEF Matches, Restorable
    <2>5. phone(s) \in Phones /\ pair(s) # NoAccount
        BY <2>2, <2>4 DEF AccountInv, SessionsHaveAccount, Closed, Live
    <2>6. pair(s).refresh \in garmin[phone(s)]
        BY <2>2, <2>4 DEF Restorable
    <2>7. pair(s).access = pair(s).refresh
        BY <2>4, <2>5, <2>6 DEF TokenInv, Paired
    <2>8. QED
        BY <2>5, <2>6, <2>7
<1>2. CASE Start
    <2>1. /\ mode = "down" /\ mode' = "restoring"
          /\ disk' = disk /\ garmin' = garmin /\ before' = before
          /\ faults' = faults
          /\ todo' = {p \in Phones : disk.state.accounts[p] # NoAccount}
        BY <1>2 DEF Start, environment, history
    <2>2. QED
        BY <2>1 DEF RestartInv
<1>3. ASSUME NEW q \in Phones, RestoreAccount(q) PROVE RestartInv'
    <2>1. /\ mode = "restoring" /\ mode' = mode /\ q \in todo
          /\ todo' = todo \ {q} /\ disk' = disk /\ before' = before
          /\ faults' = faults
        BY <1>3 DEF RestoreAccount, AccountInv, history
    <2>2. \A p \in Phones \ {q} : garmin'[p] = garmin[p] /\ accounts'[p] = accounts[p]
        BY <1>3 DEF RestoreAccount, Rotate, environment, TypeOK
    <2>3. disk.state.accounts[q] # NoAccount => accounts'[q] # NoAccount
        <3>1. Issue(issued[q] + 1) # NoAccount
            BY DEF TypeOK, Issue, NoAccount
        <3>2. QED
            BY <1>3, <3>1 DEF RestoreAccount, TypeOK
    <2>4. ASSUME NEW s \in before, faults = {}
          PROVE  /\ phone(s) \in Phones
                 /\ pair(s) # NoAccount
                 /\ phone(s) \in todo' =>
                      /\ pair(s).access \in garmin'[phone(s)]
                      /\ pair(s).refresh \in garmin'[phone(s)]
                 /\ phone(s) \notin todo' => accounts'[phone(s)] # NoAccount
        <3>1. /\ phone(s) \in Phones
              /\ pair(s) # NoAccount
              /\ phone(s) \in todo =>
                   /\ pair(s).access \in garmin[phone(s)]
                   /\ pair(s).refresh \in garmin[phone(s)]
              /\ phone(s) \notin todo => accounts[phone(s)] # NoAccount
            BY <2>1, <2>4 DEF RestartInv, Known
        <3>2. QED
            BY <2>1, <2>2, <2>3, <3>1
    <2>5. QED
        BY <2>1, <2>4 DEF RestartInv, Known
<1>4. ASSUME NEW q \in Phones, SkipAccount(q) PROVE RestartInv'
    <2>1. /\ mode = "restoring" /\ mode' = mode /\ q \in todo
          /\ todo' = todo \ {q} /\ disk' = disk /\ before' = before
          /\ accounts' = accounts
        BY <1>4 DEF SkipAccount, AccountInv
    <2> SUFFICES ASSUME faults' = {} PROVE RestartInv'
        BY DEF RestartInv
    <2>2. /\ faults = {} /\ garmin' = garmin
          /\ ~ /\ disk.state.accounts[q].access \in garmin[q]
               /\ disk.state.accounts[q].refresh \in garmin[q]
        BY <1>4 DEF SkipAccount, environment
    <2>3. \A s \in before : phone(s) # q
        BY <2>1, <2>2 DEF RestartInv
    <2>4. QED
        BY <2>1, <2>2, <2>3 DEF RestartInv, Known
<1>5. CASE mode' \notin {"down", "restoring"}
    BY <1>5 DEF RestartInv
<1>6. CASE \/ mode \notin {"down", "restoring"}
           \/ \E w \in Calls : Persist(w)
           \/ \E w \in Writers : Handle(w)
           \/ \E p \in Phones : \/ StoreAccessToken(p) \/ RefreshAnswerLost(p)
                                \/ \E w \in Writers : StoreRefreshToken(w, p)
           \/ \E s \in SessionIDs : Touch(s)
           \/ ReapSessions \/ RestoreSessions
    <2>1. ASSUME NEW w \in Calls, Persist(w)
          PROVE  mode \notin {"down", "restoring"} /\ mode' \in {mode, "up"}
        BY <2>1 DEF Persist, Copy, Truncate, WriteOut, SaveFails, Done, Busy,
                    AccountInv, Idle
    <2>2. ASSUME NEW w \in Writers, Handle(w) PROVE mode = "up" /\ mode' = mode
        BY <2>2 DEF Handle, ConfirmOTP, PasskeyLogin, Logout, LogoutAll,
                    DetachedCallback, Handler
    <2>3. ASSUME NEW p \in Phones,
                 \/ StoreAccessToken(p) \/ RefreshAnswerLost(p)
                 \/ \E w \in Writers : StoreRefreshToken(w, p)
          PROVE  mode \notin {"down", "restoring"} /\ mode' = mode
        BY <2>3 DEF StoreAccessToken, RefreshAnswerLost, StoreRefreshToken,
                    AccountInv
    <2>4. ASSUME (\E s \in SessionIDs : Touch(s)) \/ ReapSessions
          PROVE  mode = "up" /\ mode' = mode
        BY <2>4 DEF Touch, ReapSessions
    <2>5. RestoreSessions => mode' = "saving"
        BY DEF RestoreSessions
    <2>6. (Tick \/ UNCHANGED vars) => mode' = mode
        BY DEF Tick, vars
    <2>7. \A p \in Phones : RestoreAccount(p) \/ SkipAccount(p) => mode = "restoring"
        BY DEF RestoreAccount, SkipAccount, AccountInv
    <2>8. CASE mode' \in {"down", "restoring"}
        <3>1. Crash \/ Start
            BY <1>6, <2>1, <2>2, <2>3, <2>4, <2>5, <2>6, <2>7, <2>8
            DEF Next, Restore
        <3>2. QED
            BY <1>1, <1>2, <3>1
    <2>9. QED
        BY <1>5, <2>8
<1>7. CASE Tick \/ UNCHANGED vars
    <2>1. /\ mode' = mode /\ faults' = faults /\ before' = before
          /\ disk' = disk /\ todo' = todo /\ garmin' = garmin
          /\ accounts' = accounts
        BY <1>7 DEF Tick, vars, history
    <2>2. QED
        BY <2>1 DEF RestartInv, Known
<1>8. QED
    BY <1>1, <1>2, <1>3, <1>4, <1>6, <1>7 DEF Next, Restore

\* Attaching the sessions of the file brings back every login RestartInv keeps.
LEMMA RestoreBringsBack ==
    TypeOK /\ RestartInv /\ [Next]_vars =>
        (mode = "restoring" /\ mode' = "saving" /\ faults = {} =>
           \A s \in before : Live(s)' \/ Expired(disk.state.sessions[s]))
<1> SUFFICES ASSUME TypeOK, RestartInv, [Next]_vars, mode = "restoring",
                    mode' = "saving", faults = {}, NEW s \in before,
                    ~Expired(disk.state.sessions[s])
             PROVE  Live(s)'
    OBVIOUS
<1>1. RestoreSessions
    <2>1. \A w \in Calls : Persist(w) => mode' \in {mode, "up"}
        BY DEF Persist, Copy, Truncate, WriteOut, SaveFails, Done
    <2>2. \A w \in Writers : Handle(w) => mode' = mode
        BY DEF Handle, ConfirmOTP, PasskeyLogin, Logout, LogoutAll,
               DetachedCallback
    <2>3. \A p \in Phones : /\ StoreAccessToken(p) => mode' = mode
                            /\ RefreshAnswerLost(p) => mode' = mode
                            /\ RestoreAccount(p) => mode' = mode
                            /\ SkipAccount(p) => mode' = mode
                            /\ \A w \in Writers :
                                  StoreRefreshToken(w, p) => mode' = mode
        BY DEF StoreAccessToken, RefreshAnswerLost, RestoreAccount, SkipAccount,
               StoreRefreshToken
    <2>4. /\ \A t \in SessionIDs : Touch(t) => mode' = mode
          /\ ReapSessions \/ Tick \/ UNCHANGED vars => mode' = mode
          /\ Crash => mode' = "down"
          /\ Start => mode' = "restoring"
        BY DEF Touch, ReapSessions, Tick, vars, Crash, Start
    <2>5. QED
        BY <2>1, <2>2, <2>3, <2>4 DEF Next, Restore
<1> DEFINE entry == disk.state.sessions[s]
<1>2. todo = {} /\ entry.phone \in Phones /\ Known(entry.phone)
    BY <1>1 DEF RestoreSessions, RestartInv
<1>3. s \in SessionIDs
    BY DEF TypeOK
<1>4. sessions'[s] = entry
    BY <1>1, <1>2, <1>3 DEF RestoreSessions
<1>5. QED
    BY <1>2, <1>4, ConstantsAssumption DEF Live, NoSession

\* A restart between saves with Garmin within reach brings back every login the
\* crash interrupted whose refresh token Garmin still accepts and whose idle
\* time the file shows in bounds, as main.go and the README promise.
THEOREM LoginsComeBack == Spec => LoginsSurviveRestart
<1>1. QED
    BY RestoreBringsBack, RestartInvInit, RestartInvNext, TokenInvInit,
       TokenInvNext, CurrentInvInit, CurrentInvNext, ClockInvInit,
       ClockInvNext, LogoutInvInit, LogoutInvNext, AccountInvInit,
       AccountInvNext, TypeCorrect, PTL DEF Spec, LoginsSurviveRestart

===============================================================================
