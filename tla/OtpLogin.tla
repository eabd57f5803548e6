------------------------------- MODULE OtpLogin -------------------------------
(***************************************************************************)
(* How one phone number becomes an app registration at Garmin and an        *)
(* account of this server: handleRequestOTP, handleConfirmOTP,              *)
(* handlePasskeyLoginFinish once the passkey is verified, handleLogoutAll,  *)
(* and what they share in SessionManager: the pending OTP and the account.  *)
(*                                                                         *)
(* A HermesAuth is an object that several handlers may hold: a request for  *)
(* another code reuses the pending one, a confirmation takes it out and     *)
(* puts it back if it fails, a passkey login works with the account it saw. *)
(* Each of them calls Garmin in between, holding no lock.  Limits and the   *)
(* whitelist only decide whether a handler starts and are left out, as is   *)
(* pendingReauth, which only chooses what the page offers after a login.    *)
(***************************************************************************)
EXTENDS Naturals, FiniteSets

CONSTANTS Handlers,  \* requests served at a time
          MaxAuths,  \* bound: HermesAuth objects made
          MaxCodes,  \* bound: codes Garmin sends by SMS
          MaxLogins, \* bound: UserAccount objects made
          Failures   \* calls that may go wrong: "post", "lost", "delete"

ASSUME OtpAssumption ==
    /\ MaxAuths \in Nat /\ MaxCodes \in Nat /\ MaxLogins \in Nat
    /\ Failures \subseteq {"post", "lost", "delete"}

Auths    == 1..MaxAuths
Codes    == 1..MaxCodes  \* an OTP request, and the instance confirming it makes
Accounts == 1..MaxLogins
None     == 0

VARIABLES
    pending,  \* sm.pendingOTP of the phone: auth and code, None and None if absent
    account,  \* sm.accounts of the phone: a UserAccount or None
    held,     \* UserAccount -> its Auth
    instance, \* HermesAuth -> its InstanceID, named by the code that was confirmed
    garmin,   \* the app registrations Garmin has for this server and phone
    handler,  \* handler -> what it is doing, with which objects
    auths,    \* HermesAuth objects made so far
    codes,    \* codes sent so far
    races     \* history: what has happened that loses track of a registration

vars == <<pending, account, held, instance, garmin, handler, auths, codes, races>>

-------------------------------------------------------------------------------

Absent == [auth |-> None, code |-> None, reauth |-> FALSE, fresh |-> FALSE]

Idle == [phase |-> "idle", auth |-> None, code |-> None, reauth |-> FALSE,
         account |-> None]

MadeAccounts == {a \in Accounts : held[a] # None}

Becomes(h, r) == handler' = [handler EXCEPT ![h] = r]

\* PeekPendingOTP: the pending request if it is at most five minutes old.
Reusable(reauth) == pending.auth # None /\ pending.fresh /\ pending.reauth = reauth

\* Deregistering an instance works, or is logged and forgotten.
Deregister(i, why) ==
    \/ garmin' = garmin \ {i} /\ races' = races \cup why
    \/ /\ "delete" \in Failures /\ i \in garmin
       /\ UNCHANGED garmin /\ races' = races \cup why \cup {"undeleted"}

-------------------------------------------------------------------------------
\* handleRequestOTP and handleRequestReauthOTP

\* A HermesAuth made for this request.
NewAuth(h, reauth) ==
    /\ auths < MaxAuths
    /\ auths' = auths + 1
    /\ Becomes(h, [Idle EXCEPT !.phase = "posting", !.auth = auths + 1,
                               !.reauth = reauth])

RequestOTP(h, reauth) ==
    /\ handler[h].phase = "idle"
    /\ IF Reusable(reauth)
       THEN /\ Becomes(h, [Idle EXCEPT !.phase = "reusing", !.auth = pending.auth,
                                       !.reauth = reauth])
            /\ UNCHANGED auths
       ELSE NewAuth(h, reauth)
    /\ UNCHANGED <<pending, account, held, instance, garmin, codes, races>>

\* The HermesAuth it reuses is no longer the pending one: a confirmation or a
\* logout has taken it, or another request has replaced it.
Overtaken(h) ==
    handler[h].phase = "reusing" /\ pending.auth # handler[h].auth

\* Wrong variant: a code is asked for twice, as after Garmin's 409.
StoreTwice(h) ==
    /\ handler[h].phase \in {"reusing", "posting"} /\ codes < MaxCodes
    /\ codes' = codes + 2
    /\ pending' = [auth |-> handler[h].auth, code |-> codes + 2,
                   reauth |-> handler[h].reauth, fresh |-> TRUE]
    /\ races' = IF Overtaken(h) THEN races \cup {"sharedAuth"} ELSE races
    /\ Becomes(h, Idle)
    /\ UNCHANGED <<account, held, instance, garmin, auths>>

\* Garmin sends a code; StorePendingOTP.
StoreOTP(h) ==
    /\ handler[h].phase \in {"reusing", "posting"} /\ codes < MaxCodes
    /\ codes' = codes + 1
    /\ pending' = [auth |-> handler[h].auth, code |-> codes + 1,
                   reauth |-> handler[h].reauth, fresh |-> TRUE]
    /\ races' = IF Overtaken(h) THEN races \cup {"sharedAuth"} ELSE races
    /\ Becomes(h, Idle)
    /\ UNCHANGED <<account, held, instance, garmin, auths>>

\* Garmin refuses or cannot be reached: reusing falls back to a new HermesAuth.
RequestFails(h) ==
    /\ "post" \in Failures
    /\ \/ /\ handler[h].phase = "reusing"
          /\ NewAuth(h, handler[h].reauth)
       \/ /\ handler[h].phase = "posting"
          /\ Becomes(h, Idle)
          /\ UNCHANGED auths
    /\ UNCHANGED <<pending, account, held, instance, garmin, codes, races>>

\* More than five minutes pass; the reaper may remove what is older.
PendingAges ==
    /\ pending.fresh
    /\ pending' = [pending EXCEPT !.fresh = FALSE]
    /\ UNCHANGED <<account, held, instance, garmin, handler, auths, codes, races>>

ReapPending ==
    /\ pending.auth # None /\ ~pending.fresh
    /\ pending' = Absent
    /\ UNCHANGED <<account, held, instance, garmin, handler, auths, codes, races>>

-------------------------------------------------------------------------------
\* handleConfirmOTP

Confirming(h) ==
    Becomes(h, [phase |-> "confirming", auth |-> pending.auth, code |-> pending.code,
                reauth |-> pending.reauth, account |-> None])

\* Wrong variant: the pending request stays until it is confirmed.
PeekingConfirm(h) ==
    /\ handler[h].phase = "idle" /\ pending.auth # None
    /\ Confirming(h)
    /\ UNCHANGED <<pending, account, held, instance, garmin, auths, codes, races>>

\* GetPendingOTP takes it out, however old it is.
ConfirmOTP(h) ==
    /\ handler[h].phase = "idle" /\ pending.auth # None
    /\ Confirming(h)
    /\ pending' = Absent
    /\ UNCHANGED <<account, held, instance, garmin, auths, codes, races>>

\* The code is right: Garmin registers an instance, storeCredentials keeps it.
Registered(h) ==
    /\ handler[h].phase = "confirming"
    /\ garmin' = garmin \cup {handler[h].code}
    /\ instance' = [instance EXCEPT ![handler[h].auth] = handler[h].code]
    /\ Becomes(h, [handler[h] EXCEPT !.phase = "creating"])
    /\ UNCHANGED <<pending, account, held, auths, codes, races>>

\* The code is wrong, or the answer is lost with Garmin having registered the
\* instance: the pending request is put back, over whatever is there by now.
ConfirmFails(h) ==
    /\ handler[h].phase = "confirming"
    /\ pending' = [auth |-> handler[h].auth, code |-> handler[h].code,
                   reauth |-> handler[h].reauth, fresh |-> TRUE]
    /\ \/ UNCHANGED <<garmin, races>>
       \/ /\ "lost" \in Failures
          /\ garmin' = garmin \cup {handler[h].code}
          /\ races' = races \cup {"lostAnswer"}
    /\ Becomes(h, Idle)
    /\ UNCHANGED <<account, held, instance, auths, codes>>

-------------------------------------------------------------------------------
\* CreateSession: getOrCreateAccount, under sm.mu

\* Wrong variant: the old instance is left registered.
UnregisteringSwap(auth, why) ==
    /\ held' = [held EXCEPT ![account] = auth]
    /\ races' = races \cup why
    /\ UNCHANGED <<account, garmin>>

\* Wrong variant: the account has its new Auth when the instance it names is
\* deregistered.
SwapFirst(auth, why) ==
    /\ held' = [held EXCEPT ![account] = auth]
    /\ Deregister(instance[auth], why)
    /\ UNCHANGED account

\* Fresh credentials: the instance of the old ones is deregistered first.
Swap(auth, why) ==
    /\ held' = [held EXCEPT ![account] = auth]
    /\ Deregister(instance[held[account]], why)
    /\ UNCHANGED account

CreateAccount(auth, why) ==
    \/ /\ account = None
       /\ \E a \in Accounts :
            /\ MadeAccounts = {b \in Accounts : b < a}
            /\ account' = a
            /\ held' = [held EXCEPT ![a] = auth]
       /\ races' = races \cup why
       /\ UNCHANGED garmin
    \/ /\ account # None /\ held[account] = auth
       /\ UNCHANGED <<account, held, garmin, races>>
    \/ /\ account # None /\ held[account] # auth
       /\ Swap(auth, why)

LogIn(h) ==
    /\ handler[h].phase = "creating"
    /\ CreateAccount(handler[h].auth, {})
    /\ Becomes(h, Idle)
    /\ UNCHANGED <<pending, instance, auths, codes>>

\* handlePasskeyLoginFinish: the passkey is verified, GetAccount.
PasskeyVerified(h) ==
    /\ handler[h].phase = "idle" /\ account # None
    /\ Becomes(h, [Idle EXCEPT !.phase = "passkey", !.account = account])
    /\ UNCHANGED <<pending, account, held, instance, garmin, auths, codes, races>>

\* The tokens are valid or refreshed: the call of CreateSession evaluates
\* acct.Auth, without sm.mu, of an account that may be gone by now...
PasskeyReadsAuth(h) ==
    /\ handler[h].phase = "passkey"
    /\ Becomes(h, [handler[h] EXCEPT !.phase = "entering", !.auth = held[handler[h].account]])
    /\ UNCHANGED <<pending, account, held, instance, garmin, auths, codes, races>>

\* Another login or a logout has ended the credentials that the handler read:
\* getOrCreateAccount may have kept sm.mu for the 15 s of a deregistration.
EndedMeanwhile(h) ==
    handler[h].account # account \/ held[account] # handler[h].auth

\* ...and CreateSession works with them once it has sm.mu.
PasskeyLogin(h) ==
    /\ handler[h].phase = "entering"
    /\ CreateAccount(handler[h].auth, IF EndedMeanwhile(h) THEN {"deadLogin"} ELSE {})
    /\ Becomes(h, Idle)
    /\ UNCHANGED <<pending, instance, auths, codes>>

\* No token could be had: the page goes on with an OTP.
PasskeyNeedsOTP(h) ==
    /\ handler[h].phase = "passkey"
    /\ Becomes(h, Idle)
    /\ UNCHANGED <<pending, account, held, instance, garmin, auths, codes, races>>

\* RemoveAllForPhone; passkey logins that saw the account go on with it.
LogoutAll ==
    /\ account # None
    /\ Deregister(instance[held[account]], {})
    /\ account' = None
    /\ pending' = Absent
    /\ UNCHANGED <<held, instance, handler, auths, codes>>

-------------------------------------------------------------------------------

Init ==
    /\ pending = Absent
    /\ account = None
    /\ held = [a \in Accounts |-> None]
    /\ instance = [a \in Auths |-> None]
    /\ garmin = {}
    /\ handler = [h \in Handlers |-> Idle]
    /\ auths = 0
    /\ codes = 0
    /\ races = {}

Serve(h) ==
    \/ \E reauth \in BOOLEAN : RequestOTP(h, reauth)
    \/ StoreOTP(h)
    \/ RequestFails(h)
    \/ ConfirmOTP(h)
    \/ Registered(h)
    \/ ConfirmFails(h)
    \/ LogIn(h)
    \/ PasskeyVerified(h)
    \/ PasskeyReadsAuth(h)
    \/ PasskeyLogin(h)
    \/ PasskeyNeedsOTP(h)

Next ==
    \/ \E h \in Handlers : Serve(h)
    \/ PendingAges
    \/ ReapPending
    \/ LogoutAll

Spec == Init /\ [][Next]_vars

-------------------------------------------------------------------------------
\* Properties

TypeOK ==
    /\ pending \in [auth : Auths \cup {None}, code : Codes \cup {None},
                    reauth : BOOLEAN, fresh : BOOLEAN]
    /\ account \in Accounts \cup {None}
    /\ held \in [Accounts -> Auths \cup {None}]
    /\ instance \in [Auths -> Codes \cup {None}]
    /\ garmin \subseteq Codes
    /\ handler \in [Handlers ->
                      [phase : {"idle", "posting", "reusing", "confirming",
                                "creating", "passkey", "entering"},
                       auth : Auths \cup {None}, code : Codes \cup {None},
                       reauth : BOOLEAN, account : Accounts \cup {None}]]
    /\ auths \in 0..MaxAuths
    /\ codes \in 0..MaxCodes
    /\ races \subseteq {"sharedAuth", "lostAnswer", "undeleted", "deadLogin"}

\* The instance of the account, and those about to become it.
Current ==
    {instance[held[a]] : a \in {account} \ {None}}
        \cup {instance[handler[h].auth] :
                 h \in {x \in Handlers : handler[x].phase = "creating"}}

\* However requests, confirmations and logouts interleave, Garmin has no ghost:
\* every registration is the account's or on its way to become it, unless one
\* of the races has happened.
NoGhostDevices == races = {} => garmin \subseteq Current

\* The account of the server is always one Garmin knows: no login ends with
\* credentials that another login or a logout has deregistered.  There are two
\* ways out of it: a HermesAuth that two confirmations share, and a passkey
\* login that puts back credentials which ended after it had read them.
AccountIsRegistered ==
    races \cap {"sharedAuth", "deadLogin"} = {} /\ account # None =>
        instance[held[account]] \in garmin

\* Two confirmations never work on one code, and none on the code of an
\* account that has been made with it.
OneConfirmPerCode ==
    \A h \in Handlers : handler[h].phase = "confirming" =>
        /\ \A g \in Handlers \ {h} :
             handler[g].phase = "confirming" => handler[g].code # handler[h].code
        /\ \A a \in Auths : instance[a] # handler[h].code

===============================================================================
