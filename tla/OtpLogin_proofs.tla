---------------------------- MODULE OtpLogin_proofs ----------------------------
(***************************************************************************)
(* Proofs about OtpLogin, for any handlers, failures and numbers of          *)
(* HermesAuth objects, codes and accounts.                                   *)
(***************************************************************************)
EXTENDS OtpLogin, TLAPS

-------------------------------------------------------------------------------
\* The inductive invariant

\* Objects and codes are numbered in the order they are made, and a handler has
\* the ones that its phase works on.
Numbered ==
    /\ pending.auth <= auths /\ pending.code <= codes
    /\ pending.auth # None <=> pending.code # None
    /\ \A a \in Accounts : held[a] <= auths
    /\ \A x \in Auths : instance[x] <= codes
    /\ \A h \in Handlers :
          /\ handler[h].auth <= auths /\ handler[h].code <= codes
          /\ handler[h].phase \in {"posting", "reusing", "confirming", "creating"} =>
                handler[h].auth # None
          /\ handler[h].phase = "confirming" => handler[h].code # None
          /\ handler[h].phase \in {"passkey", "entering"} => handler[h].account # None

Confirms == {h \in Handlers : handler[h].phase = "confirming"}
Creates  == {h \in Handlers : handler[h].phase = "creating"}

\* A code is pending, or some handler confirms it, or it names an instance: one
\* of these, and once.
CodesApart ==
    /\ \A h \in Confirms :
          /\ handler[h].code # pending.code
          /\ \A g \in Confirms : g # h => handler[g].code # handler[h].code
          /\ \A x \in Auths : instance[x] # handler[h].code
    /\ pending.code # None => \A x \in Auths : instance[x] # pending.code
    /\ \A x, y \in Auths : instance[x] # None /\ instance[x] = instance[y] => x = y

\* Handlers that have a HermesAuth to themselves; those that reuse share the
\* pending one.
Owners == {h \in Handlers : handler[h].phase \in {"posting", "confirming", "creating"}}

\* A HermesAuth is pending, or a handler's, or an account's: one of these, once.
AuthsApart ==
    /\ \A g, h \in Owners : handler[g].auth = handler[h].auth => g = h
    /\ \A h \in Owners : handler[h].auth # pending.auth
    /\ \A a \in MadeAccounts : /\ held[a] # pending.auth
                               /\ \A h \in Owners : held[a] # handler[h].auth
                               /\ \A b \in MadeAccounts : held[a] = held[b] => a = b

\* Garmin knows the instance of the account, and of those about to become it.
Known ==
    /\ account # None => held[account] # None /\ instance[held[account]] \in garmin
    /\ \A h \in Creates : instance[handler[h].auth] \in garmin

Inv ==
    /\ TypeOK /\ Numbered /\ CodesApart
    /\ races \cap {"sharedAuth", "deadLogin"} = {} => AuthsApart /\ Known
    /\ NoGhostDevices

PendingType == [auth : Auths \cup {None}, code : Codes \cup {None},
                reauth : BOOLEAN, fresh : BOOLEAN]

HandlerType ==
    [phase : {"idle", "posting", "reusing", "confirming", "creating", "passkey", "entering"},
     auth : Auths \cup {None}, code : Codes \cup {None},
     reauth : BOOLEAN, account : Accounts \cup {None}]

-------------------------------------------------------------------------------
\* What a handler's step does

LEMMA HandlerKept ==
    ASSUME TypeOK, NEW h \in Handlers, NEW r \in HandlerType, Becomes(h, r)
    PROVE  /\ handler' \in [Handlers -> HandlerType]
           /\ \A g \in Handlers : handler'[g] = IF g = h THEN r ELSE handler[g]
BY DEF TypeOK, Becomes, HandlerType

LEMMA Constants ==
    /\ MaxAuths \in Nat /\ MaxCodes \in Nat /\ MaxLogins \in Nat
    /\ None \notin Auths /\ None \notin Codes /\ None \notin Accounts
BY OtpAssumption DEF None, Auths, Codes, Accounts

LEMMA IdleType == Idle \in HandlerType /\ Absent \in PendingType
BY DEF Idle, HandlerType, Absent, PendingType

LEMMA InitInv == Init => Inv
<1> SUFFICES ASSUME Init PROVE Inv
    OBVIOUS
<1>1. TypeOK
    BY Constants, IdleType DEF Init, TypeOK, PendingType, HandlerType
<1>2. Confirms = {} /\ Creates = {} /\ Owners = {} /\ MadeAccounts = {}
    BY DEF Init, Idle, Confirms, Creates, Owners, MadeAccounts
<1>3. Numbered /\ CodesApart
    BY <1>2 DEF Init, Numbered, CodesApart, Absent, Idle, None
<1>4. AuthsApart /\ Known /\ NoGhostDevices
    BY <1>2 DEF Init, AuthsApart, Known, NoGhostDevices, Creates
<1>5. QED
    BY <1>1, <1>3, <1>4 DEF Inv

\* A handler makes a HermesAuth and asks for a code with it.
LEMMA NewAuthEffect ==
    ASSUME TypeOK, NEW h \in Handlers, NEW reauth \in BOOLEAN, NewAuth(h, reauth)
    PROVE  \E r \in HandlerType :
              /\ Becomes(h, r) /\ r.phase = "posting" /\ r.auth = auths' /\ r.code = None
              /\ auths' = auths + 1 /\ auths' \in Auths /\ auths \in Nat
<1> DEFINE r == [Idle EXCEPT !.phase = "posting", !.auth = auths + 1, !.reauth = reauth]
<1>1. auths \in Nat /\ auths' = auths + 1 /\ auths + 1 \in Auths
    BY Constants DEF NewAuth, TypeOK, Auths
<1>2. r.phase = "posting" /\ r.auth = auths + 1 /\ r.code = None
    BY DEF Idle
<1>3. CASE reauth = TRUE
    BY <1>1, <1>3 DEF HandlerType, NewAuth, Idle
<1>4. CASE reauth = FALSE
    BY <1>1, <1>4 DEF HandlerType, NewAuth, Idle
<1>5. QED
    BY <1>3, <1>4

\* What CreateAccount leaves of the types.
LEMMA CreateAccountType ==
    ASSUME TypeOK, NEW x \in Auths \cup {None}, NEW why \in SUBSET {"deadLogin"},
           CreateAccount(x, why)
    PROVE  /\ account' \in Accounts \cup {None}
           /\ held' \in [Accounts -> Auths \cup {None}]
           /\ \A a \in Accounts : held'[a] \in {held[a], x}
           /\ garmin' \subseteq Codes
           /\ races' \subseteq races \cup {"deadLogin", "undeleted"} /\ races \subseteq races'
<1>1. CASE UNCHANGED <<account, held, garmin, races>>
    BY <1>1 DEF TypeOK
<1>2. CASE account # None /\ held[account] # x /\ Swap(x, why)
    BY <1>2 DEF Swap, Deregister, TypeOK
<1>3. CASE \E a \in Accounts : account' = a /\ held' = [held EXCEPT ![a] = x]
           /\ races' = races \cup why /\ garmin' = garmin
    BY <1>3 DEF TypeOK
<1>4. QED
    BY <1>1, <1>2, <1>3 DEF CreateAccount

-------------------------------------------------------------------------------
\* Requests for a code

\* Handlers begin, or give up, and the pending request stays or goes: no object,
\* code or registration changes hands.
LEMMA QuietStep ==
    ASSUME Inv, TypeOK', UNCHANGED <<account, held, instance, garmin, auths, codes, races>>,
           \/ pending'.auth = pending.auth /\ pending'.code = pending.code
           \/ pending'.auth = None /\ pending'.code = None,
           \A g \in Handlers :
              \/ handler'[g] = handler[g]
              \/ /\ handler[g].phase # "creating"
                 /\ handler'[g].phase \in {"idle", "reusing", "passkey", "entering"}
                 /\ handler'[g].auth <= auths /\ handler'[g].code <= codes
                 /\ handler'[g].phase = "reusing" => handler'[g].auth # None
                 /\ handler'[g].phase \in {"passkey", "entering"} => handler'[g].account # None
    PROVE  Inv'
<1>0. TypeOK /\ Numbered /\ CodesApart /\ NoGhostDevices
    BY DEF Inv
<1>1. /\ \A g \in Confirms' : g \in Confirms /\ handler'[g] = handler[g]
      /\ \A g \in Owners' : g \in Owners /\ handler'[g] = handler[g]
      /\ Creates' = Creates /\ \A g \in Creates : handler'[g] = handler[g]
    BY DEF Confirms, Owners, Creates
<1>2. Numbered'
    BY <1>0, Constants DEF Numbered, TypeOK, None, Codes, Auths
<1>3. CodesApart'
    <2>1. \A g \in Confirms : handler[g].code # None
        BY <1>0 DEF Confirms, Numbered
    <2>2. pending'.code \in {pending.code, None}
        OBVIOUS
    <2>3. \A g \in Confirms' : handler'[g].code # pending'.code
        BY <1>0, <1>1, <2>1, <2>2 DEF CodesApart
    <2>4. QED
        BY <1>0, <1>1, <2>2, <2>3 DEF CodesApart
<1>4. MadeAccounts' = MadeAccounts
    BY DEF MadeAccounts
<1>5. ASSUME races \cap {"sharedAuth", "deadLogin"} = {} PROVE AuthsApart' /\ Known'
    <2>1. AuthsApart /\ Known
        BY <1>5 DEF Inv
    <2>2. \A g \in Owners : handler[g].auth # None
        BY <1>0 DEF Owners, Numbered
    <2>3. \A a \in MadeAccounts : held[a] # None
        BY DEF MadeAccounts
    <2>4. AuthsApart'
        BY <1>1, <1>4, <2>1, <2>2, <2>3 DEF AuthsApart
    <2>5. Known'
        BY <1>1, <2>1 DEF Known
    <2>6. QED
        BY <2>4, <2>5
<1>6. Current' = Current
    BY <1>1 DEF Current, Creates
<1>7. QED
    BY <1>0, <1>2, <1>3, <1>5, <1>6 DEF Inv, NoGhostDevices

\* A HermesAuth is made: nobody else has it.
LEMMA NewAuthStep ==
    ASSUME Inv, NEW h \in Handlers, NEW reauth \in BOOLEAN, NewAuth(h, reauth),
           handler[h].phase \in {"idle", "reusing"},
           UNCHANGED <<pending, account, held, instance, garmin, codes, races>>
    PROVE  Inv'
<1>0. TypeOK /\ Numbered /\ CodesApart /\ NoGhostDevices
    BY DEF Inv
<1>1. PICK r \in HandlerType :
          /\ Becomes(h, r) /\ r.phase = "posting" /\ r.auth = auths' /\ r.code = None
          /\ auths' = auths + 1 /\ auths' \in Auths /\ auths \in Nat
    BY <1>0, NewAuthEffect
<1>2. /\ handler' \in [Handlers -> HandlerType]
      /\ \A g \in Handlers : handler'[g] = IF g = h THEN r ELSE handler[g]
    BY <1>0, <1>1, HandlerKept
<1>3. TypeOK'
    <2>1. auths' \in 0..MaxAuths
        BY <1>1, Constants DEF Auths
    <2>2. QED
        BY <1>0, <1>2, <2>1 DEF TypeOK, HandlerType
<1>4. Numbered'
    <2>1. \A n \in Nat : n <= auths => n <= auths'
        BY <1>1
    <2>2. pending.auth \in Nat /\ \A a \in Accounts : held[a] \in Nat
        BY <1>0 DEF TypeOK, Auths, None
    <2>3. \A g \in Handlers : handler[g].auth \in Nat
        BY <1>0 DEF TypeOK, Auths, None
    <2>4. codes \in Nat /\ None <= codes
        BY <1>0, Constants DEF TypeOK, None
    <2>5. r.auth <= auths' /\ r.auth # None /\ r.code <= codes
        BY <1>1, <2>4, Constants
    <2>6. \A g \in Handlers :
            /\ handler'[g].auth <= auths' /\ handler'[g].code <= codes
            /\ handler'[g].phase \in {"posting", "reusing", "confirming", "creating"} =>
                  handler'[g].auth # None
            /\ handler'[g].phase = "confirming" => handler'[g].code # None
            /\ handler'[g].phase \in {"passkey", "entering"} => handler'[g].account # None
        BY <1>0, <1>1, <1>2, <2>1, <2>3, <2>5 DEF Numbered
    <2>7. QED
        BY <1>0, <2>1, <2>2, <2>6 DEF Numbered
<1>5. /\ Confirms' = Confirms /\ Creates' = Creates /\ Owners' = Owners \cup {h}
      /\ h \notin Owners /\ \A g \in Owners : handler'[g] = handler[g]
      /\ \A g \in Confirms : handler'[g] = handler[g]
      /\ \A g \in Creates : handler'[g] = handler[g]
    BY <1>1, <1>2 DEF Confirms, Creates, Owners
<1>6. CodesApart'
    BY <1>0, <1>5 DEF CodesApart
<1>7. ASSUME races \cap {"sharedAuth", "deadLogin"} = {} PROVE AuthsApart' /\ Known'
    <2>1. AuthsApart /\ Known
        BY <1>7 DEF Inv
    <2>2. /\ pending.auth # auths'
          /\ \A a \in Accounts : held[a] # auths'
          /\ \A g \in Handlers : handler[g].auth # auths'
        BY <1>0, <1>1 DEF Numbered, TypeOK, Auths, None
    <2>3. MadeAccounts' = MadeAccounts /\ MadeAccounts \subseteq Accounts
        BY DEF MadeAccounts
    <2>4. handler'[h].auth = auths'
        BY <1>1, <1>2
    <2>5. Owners \subseteq Handlers
        BY DEF Owners
    <2>6. AuthsApart'
        BY <1>5, <2>1, <2>2, <2>3, <2>4, <2>5 DEF AuthsApart
    <2>7. QED
        BY <1>5, <2>1, <2>6 DEF Known
<1>8. Current' = Current
    BY <1>5 DEF Current, Creates
<1>9. QED
    BY <1>0, <1>3, <1>4, <1>6, <1>7, <1>8 DEF Inv, NoGhostDevices

\* The code that Garmin sends is new, and the HermesAuth was the handler's own,
\* or is the pending one still.
LEMMA StoreStep == ASSUME Inv, NEW h \in Handlers, StoreOTP(h) PROVE Inv'
<1>0. TypeOK /\ Numbered /\ CodesApart /\ NoGhostDevices
    BY DEF Inv
<1> DEFINE x == handler[h].auth
<1>1. /\ handler[h].phase \in {"reusing", "posting"} /\ codes < MaxCodes /\ codes' = codes + 1
      /\ pending' = [auth |-> x, code |-> codes + 1, reauth |-> handler[h].reauth,
                     fresh |-> TRUE]
      /\ races \subseteq races' /\ races' \subseteq races \cup {"sharedAuth"}
      /\ "sharedAuth" \notin races' => handler[h].phase = "posting" \/ pending.auth = x
      /\ Becomes(h, Idle)
      /\ UNCHANGED <<account, held, instance, garmin, auths>>
    BY DEF StoreOTP, Overtaken
<1>2. /\ handler' \in [Handlers -> HandlerType]
      /\ \A g \in Handlers : handler'[g] = IF g = h THEN Idle ELSE handler[g]
    BY <1>0, <1>1, HandlerKept, IdleType
<1>3. /\ x \in Auths /\ codes \in Nat /\ codes + 1 \in Codes /\ codes + 1 \in 0..MaxCodes
      /\ handler[h].reauth \in BOOLEAN
    BY <1>0, <1>1, Constants DEF TypeOK, Numbered, Codes
<1>4. pending' \in PendingType
    <2>1. CASE handler[h].reauth = TRUE
        BY <1>1, <1>3, <2>1 DEF PendingType
    <2>2. CASE handler[h].reauth = FALSE
        BY <1>1, <1>3, <2>2 DEF PendingType
    <2>3. QED
        BY <1>3, <2>1, <2>2
<1>5. TypeOK'
    BY <1>0, <1>1, <1>2, <1>3, <1>4 DEF TypeOK, HandlerType, PendingType
<1>6. pending'.auth = x /\ pending'.code = codes + 1
    BY <1>1
<1> HIDE DEF x
<1>7. /\ Confirms' = Confirms /\ \A g \in Confirms : handler'[g] = handler[g]
      /\ Creates' = Creates /\ \A g \in Creates : handler'[g] = handler[g]
      /\ Owners' = Owners \ {h} /\ \A g \in Owners \ {h} : handler'[g] = handler[g]
    BY <1>1, <1>2 DEF Confirms, Creates, Owners, Idle
<1>8. /\ \A g \in Handlers : handler[g].code < codes + 1
      /\ \A y \in Auths : instance[y] < codes + 1
    BY <1>0, <1>3 DEF Numbered, TypeOK, Codes, None
<1>9. Numbered'
    <2>1. x <= auths /\ x # None /\ codes + 1 # None
        BY <1>0, <1>3, Constants DEF Numbered, x, Codes
    <2>2. Idle.auth = None /\ Idle.code = None /\ Idle.phase = "idle" /\ None <= auths
          /\ None <= codes
        BY <1>0, <1>3 DEF Idle, None, TypeOK
    <2>3. \A g \in Handlers :
            /\ handler'[g].auth <= auths /\ handler'[g].code <= codes'
            /\ handler'[g].phase \in {"posting", "reusing", "confirming", "creating"} =>
                  handler'[g].auth # None
            /\ handler'[g].phase = "confirming" => handler'[g].code # None
            /\ handler'[g].phase \in {"passkey", "entering"} => handler'[g].account # None
        <3> SUFFICES ASSUME NEW g \in Handlers
                     PROVE /\ handler'[g].auth <= auths /\ handler'[g].code <= codes'
                           /\ handler'[g].phase \in {"posting", "reusing", "confirming", "creating"}
                                 => handler'[g].auth # None
                           /\ handler'[g].phase = "confirming" => handler'[g].code # None
                           /\ handler'[g].phase \in {"passkey", "entering"} =>
                                 handler'[g].account # None
            OBVIOUS
        <3>1. CASE g = h
            BY <1>1, <1>2, <1>3, <2>2, <3>1 DEF None
        <3>2. CASE g # h
            <4>1. handler[g].code \in Nat /\ handler[g].code <= codes
                BY <1>0 DEF TypeOK, Codes, None, Numbered
            <4>2. QED
                BY <1>0, <1>1, <1>2, <1>3, <3>2, <4>1 DEF Numbered
        <3>3. QED
            BY <3>1, <3>2
    <2>4. \A y \in Auths : instance'[y] <= codes'
        BY <1>0, <1>1, <1>3 DEF Numbered, TypeOK, Codes, None
    <2>5. QED
        BY <1>0, <1>1, <1>3, <1>6, <2>1, <2>3, <2>4 DEF Numbered
<1>10. CodesApart'
    <2>1. \A g \in Confirms : handler[g].code # codes + 1
        BY <1>3, <1>8 DEF Confirms
    <2>2. \A y \in Auths : instance[y] # codes + 1
        BY <1>3, <1>8
    <2>3. QED
        BY <1>0, <1>1, <1>6, <1>7, <2>1, <2>2 DEF CodesApart
<1>11. ASSUME races' \cap {"sharedAuth", "deadLogin"} = {} PROVE AuthsApart' /\ Known'
    <2>1. AuthsApart /\ Known /\ "sharedAuth" \notin races'
        BY <1>1, <1>11 DEF Inv
    <2>2. MadeAccounts' = MadeAccounts
        BY <1>1 DEF MadeAccounts
    <2>3. \A g \in Owners \ {h} : handler[g].auth # x
        BY <1>1, <2>1 DEF AuthsApart, Owners, x
    <2>4. \A a \in MadeAccounts : held[a] # x
        BY <1>1, <2>1 DEF AuthsApart, Owners, x
    <2>5. AuthsApart'
        BY <1>1, <1>6, <1>7, <2>1, <2>2, <2>3, <2>4 DEF AuthsApart
    <2>6. QED
        BY <1>1, <1>7, <2>1, <2>5 DEF Known
<1>12. Current' = Current
    BY <1>1, <1>7 DEF Current, Creates
<1>13. NoGhostDevices'
    BY <1>0, <1>1, <1>12 DEF NoGhostDevices
<1>14. QED
    BY <1>5, <1>9, <1>10, <1>11, <1>13 DEF Inv
-------------------------------------------------------------------------------
\* Confirmations

\* The pending request becomes the handler's own.
LEMMA ConfirmStep == ASSUME Inv, NEW h \in Handlers, ConfirmOTP(h) PROVE Inv'
<1>0. TypeOK /\ Numbered /\ CodesApart /\ NoGhostDevices
    BY DEF Inv
<1> DEFINE r == [phase |-> "confirming", auth |-> pending.auth, code |-> pending.code,
                 reauth |-> pending.reauth, account |-> None]
<1>1. /\ handler[h].phase = "idle" /\ pending.auth # None /\ pending' = Absent
      /\ Becomes(h, r)
      /\ UNCHANGED <<account, held, instance, garmin, auths, codes, races>>
    BY DEF ConfirmOTP, Confirming
<1>2. r \in HandlerType
    <2>1. CASE pending.reauth = TRUE
        BY <1>0, <2>1 DEF TypeOK, HandlerType
    <2>2. CASE pending.reauth = FALSE
        BY <1>0, <2>2 DEF TypeOK, HandlerType
    <2>3. QED
        BY <1>0, <2>1, <2>2 DEF TypeOK
<1>3. r.phase = "confirming" /\ r.auth = pending.auth /\ r.code = pending.code
    OBVIOUS
<1> HIDE DEF r
<1>4. /\ handler' \in [Handlers -> HandlerType]
      /\ \A g \in Handlers : handler'[g] = IF g = h THEN r ELSE handler[g]
    BY <1>0, <1>1, <1>2, HandlerKept
<1>5. pending'.auth = None /\ pending'.code = None /\ pending' \in PendingType
    BY <1>1, IdleType DEF Absent
<1>6. TypeOK'
    BY <1>0, <1>1, <1>4, <1>5 DEF TypeOK, HandlerType, PendingType
<1>7. /\ h \notin Confirms /\ h \notin Owners /\ h \notin Creates
      /\ Confirms' = Confirms \cup {h} /\ Owners' = Owners \cup {h} /\ Creates' = Creates
      /\ \A g \in Owners : handler'[g] = handler[g]
      /\ Confirms \subseteq Owners /\ Creates \subseteq Owners
    BY <1>1, <1>3, <1>4 DEF Confirms, Owners, Creates
<1>8. Numbered'
    <2>1. pending.auth # None /\ pending.code # None
          /\ pending.auth <= auths /\ pending.code <= codes
        BY <1>0, <1>1 DEF Numbered
    <2>2. None <= auths /\ None <= codes
        BY <1>0, Constants DEF TypeOK, None
    <2>3. \A g \in Handlers :
            /\ handler'[g].auth <= auths /\ handler'[g].code <= codes
            /\ handler'[g].phase \in {"posting", "reusing", "confirming", "creating"} =>
                  handler'[g].auth # None
            /\ handler'[g].phase = "confirming" => handler'[g].code # None
            /\ handler'[g].phase \in {"passkey", "entering"} => handler'[g].account # None
        BY <1>0, <1>3, <1>4, <2>1 DEF Numbered
    <2>4. QED
        BY <1>0, <1>1, <1>5, <2>2, <2>3 DEF Numbered
<1>9. CodesApart'
    <2>1. pending.code # None
        BY <1>0, <1>1 DEF Numbered
    <2>2. \A g \in Confirms : handler[g].code # None
        BY <1>0 DEF Confirms, Numbered
    <2>3. handler'[h].code = pending.code
        BY <1>3, <1>4
    <2>4. QED
        BY <1>0, <1>1, <1>5, <1>7, <2>1, <2>2, <2>3 DEF CodesApart
<1>10. ASSUME races \cap {"sharedAuth", "deadLogin"} = {} PROVE AuthsApart' /\ Known'
    <2>1. AuthsApart /\ Known
        BY <1>10 DEF Inv
    <2>2. \A g \in Owners : handler[g].auth # None
        BY <1>0 DEF Owners, Numbered
    <2>3. \A a \in MadeAccounts : held[a] # None
        BY DEF MadeAccounts
    <2>4. MadeAccounts' = MadeAccounts
        BY <1>1 DEF MadeAccounts
    <2>5. handler'[h].auth = pending.auth
        BY <1>3, <1>4
    <2>6. AuthsApart'
        BY <1>1, <1>5, <1>7, <2>1, <2>2, <2>3, <2>4, <2>5 DEF AuthsApart
    <2>7. Known'
        BY <1>1, <1>7, <2>1 DEF Known
    <2>8. QED
        BY <2>6, <2>7
<1>11. Current' = Current
    BY <1>1, <1>7 DEF Current, Creates
<1>12. QED
    BY <1>0, <1>1, <1>6, <1>8, <1>9, <1>10, <1>11 DEF Inv, NoGhostDevices

\* The code names an instance for the first time.
LEMMA RegisteredStep == ASSUME Inv, NEW h \in Handlers, Registered(h) PROVE Inv'
<1>0. TypeOK /\ Numbered /\ CodesApart /\ NoGhostDevices
    BY DEF Inv
<1> DEFINE x == handler[h].auth
<1> DEFINE c == handler[h].code
<1> DEFINE r == [handler[h] EXCEPT !.phase = "creating"]
<1>1. /\ handler[h].phase = "confirming" /\ garmin' = garmin \cup {c}
      /\ instance' = [instance EXCEPT ![x] = c]
      /\ Becomes(h, r)
      /\ UNCHANGED <<pending, account, held, auths, codes, races>>
    BY DEF Registered
<1>2. r \in HandlerType /\ r.phase = "creating" /\ r.auth = x /\ r.code = c
      /\ handler[h] \in HandlerType
    BY <1>0 DEF TypeOK, HandlerType
<1>3. x \in Auths /\ c \in Codes /\ x <= auths /\ c <= codes
    BY <1>0, <1>1 DEF TypeOK, Numbered
<1> HIDE DEF r
<1>4. /\ handler' \in [Handlers -> HandlerType]
      /\ \A g \in Handlers : handler'[g] = IF g = h THEN r ELSE handler[g]
    BY <1>0, <1>1, <1>2, HandlerKept
<1>5. /\ h \in Confirms /\ h \in Owners /\ h \notin Creates
      /\ Confirms' = Confirms \ {h} /\ Owners' = Owners /\ Creates' = Creates \cup {h}
      /\ \A g \in Handlers : handler'[g].auth = handler[g].auth
                             /\ handler'[g].code = handler[g].code
      /\ Creates \subseteq Owners /\ Owners \subseteq Handlers
      /\ \A g \in Handlers : handler'[g].account = (IF g = h THEN r.account ELSE handler[g].account)
    BY <1>1, <1>2, <1>4 DEF Confirms, Owners, Creates
<1>6. /\ instance' \in [Auths -> Codes \cup {None}]
      /\ \A y \in Auths : instance'[y] = IF y = x THEN c ELSE instance[y]
    BY <1>0, <1>1, <1>3 DEF TypeOK
<1>7. TypeOK'
    BY <1>0, <1>1, <1>3, <1>4, <1>6 DEF TypeOK, HandlerType
<1> HIDE DEF x, c
<1>8. Numbered'
    BY <1>0, <1>1, <1>2, <1>3, <1>4, <1>5, <1>6 DEF Numbered, x, c
<1>9. CodesApart'
    <2>1. \A y \in Auths : instance[y] # c
        BY <1>0, <1>5 DEF CodesApart, c
    <2>2. \A g \in Confirms \ {h} : handler[g].code # c
        BY <1>0, <1>5 DEF CodesApart, c
    <2>3. pending.code # c
        BY <1>0, <1>5 DEF CodesApart, c
    <2>4. \A g \in Confirms' :
            /\ handler'[g].code # pending'.code
            /\ \A f \in Confirms' : f # g => handler'[f].code # handler'[g].code
            /\ \A y \in Auths : instance'[y] # handler'[g].code
        BY <1>0, <1>1, <1>5, <1>6, <2>2 DEF CodesApart, Confirms
    <2>5. pending'.code # None => \A y \in Auths : instance'[y] # pending'.code
        BY <1>0, <1>1, <1>6, <2>3 DEF CodesApart
    <2>6. \A y, z \in Auths : instance'[y] # None /\ instance'[y] = instance'[z] => y = z
        BY <1>0, <1>6, <2>1 DEF CodesApart
    <2>7. QED
        BY <2>4, <2>5, <2>6 DEF CodesApart
<1>10. ASSUME races \cap {"sharedAuth", "deadLogin"} = {} PROVE AuthsApart' /\ Known'
    <2>1. AuthsApart /\ Known
        BY <1>10 DEF Inv
    <2>2. MadeAccounts' = MadeAccounts
        BY <1>1 DEF MadeAccounts
    <2>3. AuthsApart'
        BY <1>1, <1>5, <2>1, <2>2 DEF AuthsApart
    <2>4. account # None => held[account] # x
        BY <1>0, <1>5, <2>1 DEF AuthsApart, Known, MadeAccounts, TypeOK, x
    <2>5. account # None => held[account] \in Auths
        BY <1>0, <2>1 DEF Known, TypeOK
    <2>6. \A g \in Creates : handler[g].auth \in Auths
        BY <1>0 DEF Creates, TypeOK, Numbered
    <2>7. \A g \in Creates' : instance'[handler'[g].auth] \in garmin'
        BY <1>1, <1>5, <1>6, <2>1, <2>6 DEF Known, x
    <2>8. account' # None => held'[account'] # None /\ instance'[held'[account']] \in garmin'
        BY <1>1, <1>6, <2>1, <2>4, <2>5 DEF Known
    <2>9. QED
        BY <2>3, <2>7, <2>8 DEF Known
<1>11. ASSUME races = {} PROVE garmin' \subseteq Current'
    <2>1. AuthsApart /\ Known /\ garmin \subseteq Current
        BY <1>0, <1>11 DEF Inv, NoGhostDevices
    <2>2. c \in Current'
        BY <1>3, <1>5, <1>6 DEF Current, Creates, x
    <2>3. account # None => instance'[held[account]] = instance[held[account]]
        BY <1>0, <1>5, <1>6, <2>1 DEF AuthsApart, Known, MadeAccounts, TypeOK, x
    <2>4. \A g \in Creates : instance'[handler'[g].auth] = instance[handler[g].auth]
        BY <1>0, <1>5, <1>6, <2>1 DEF AuthsApart, TypeOK, Numbered, Creates, x
    <2>5. \A i \in garmin : i \in Current'
        <3> SUFFICES ASSUME NEW i \in garmin PROVE i \in Current'
            OBVIOUS
        <3>1. CASE account # None /\ i = instance[held[account]]
            BY <1>1, <2>3, <3>1 DEF Current
        <3>2. CASE \E g \in Creates : i = instance[handler[g].auth]
            BY <1>5, <2>4, <3>2 DEF Current, Creates
        <3>3. QED
            BY <2>1, <3>1, <3>2 DEF Current, Creates
    <2>6. QED
        BY <1>1, <2>2, <2>5
<1>12. QED
    BY <1>1, <1>7, <1>8, <1>9, <1>10, <1>11 DEF Inv, NoGhostDevices

\* The request goes back with its code and HermesAuth, over whatever is there.
LEMMA ConfirmFailsStep == ASSUME Inv, NEW h \in Handlers, ConfirmFails(h) PROVE Inv'
<1>0. TypeOK /\ Numbered /\ CodesApart /\ NoGhostDevices
    BY DEF Inv
<1> DEFINE x == handler[h].auth
<1> DEFINE c == handler[h].code
<1>1. /\ handler[h].phase = "confirming"
      /\ pending' = [auth |-> x, code |-> c, reauth |-> handler[h].reauth, fresh |-> TRUE]
      /\ garmin \subseteq garmin' /\ garmin' \subseteq garmin \cup {c}
      /\ races \subseteq races' /\ races' \subseteq races \cup {"lostAnswer"}
      /\ garmin' = garmin \/ races' # {}
      /\ Becomes(h, Idle)
      /\ UNCHANGED <<account, held, instance, auths, codes>>
    BY DEF ConfirmFails
<1>2. /\ handler' \in [Handlers -> HandlerType]
      /\ \A g \in Handlers : handler'[g] = IF g = h THEN Idle ELSE handler[g]
    BY <1>0, <1>1, HandlerKept, IdleType
<1>3. x \in Auths /\ c \in Codes /\ x <= auths /\ c <= codes /\ x # None /\ c # None
      /\ handler[h].reauth \in BOOLEAN
    BY <1>0, <1>1 DEF TypeOK, Numbered
<1>4. pending' \in PendingType
    <2>1. CASE handler[h].reauth = TRUE
        BY <1>1, <1>3, <2>1 DEF PendingType
    <2>2. CASE handler[h].reauth = FALSE
        BY <1>1, <1>3, <2>2 DEF PendingType
    <2>3. QED
        BY <1>3, <2>1, <2>2
<1>5. pending'.auth = x /\ pending'.code = c
    BY <1>1
<1>6. TypeOK'
    BY <1>0, <1>1, <1>2, <1>3, <1>4 DEF TypeOK, HandlerType, PendingType
<1>7. /\ h \in Confirms /\ h \in Owners /\ Confirms \subseteq Owners
      /\ Confirms' = Confirms \ {h} /\ \A g \in Confirms \ {h} : handler'[g] = handler[g]
      /\ Creates' = Creates /\ \A g \in Creates : handler'[g] = handler[g]
      /\ Owners' = Owners \ {h} /\ \A g \in Owners \ {h} : handler'[g] = handler[g]
    BY <1>1, <1>2 DEF Confirms, Creates, Owners, Idle
<1> HIDE DEF x, c
<1>8. Numbered'
    <2>1. Idle.auth = None /\ Idle.code = None /\ Idle.phase = "idle"
          /\ None <= auths /\ None <= codes
        BY <1>0, Constants DEF Idle, None, TypeOK
    <2>2. QED
        BY <1>0, <1>1, <1>2, <1>3, <1>5, <2>1 DEF Numbered
<1>9. CodesApart'
    BY <1>0, <1>1, <1>5, <1>7 DEF CodesApart, c
<1>10. ASSUME races' \cap {"sharedAuth", "deadLogin"} = {} PROVE AuthsApart' /\ Known'
    <2>1. AuthsApart /\ Known
        BY <1>1, <1>10 DEF Inv
    <2>2. MadeAccounts' = MadeAccounts
        BY <1>1 DEF MadeAccounts
    <2>3. AuthsApart'
        BY <1>1, <1>5, <1>7, <2>1, <2>2 DEF AuthsApart, x
    <2>4. Known'
        BY <1>1, <1>7, <2>1 DEF Known
    <2>5. QED
        BY <2>3, <2>4
<1>11. Current' = Current
    BY <1>1, <1>7 DEF Current, Creates
<1>12. NoGhostDevices'
    BY <1>0, <1>1, <1>11 DEF NoGhostDevices
<1>13. QED
    BY <1>6, <1>8, <1>9, <1>10, <1>12 DEF Inv
-------------------------------------------------------------------------------
\* Logins and logouts

\* A login leaves objects, codes and instances as they were.
LEMMA AfterLogin ==
    ASSUME TypeOK, Numbered, CodesApart, NEW h \in Handlers,
           handler[h].phase \in {"creating", "entering"},
           NEW x \in Auths \cup {None}, x <= auths, NEW why \in SUBSET {"deadLogin"},
           CreateAccount(x, why), Becomes(h, Idle),
           UNCHANGED <<pending, instance, auths, codes>>
    PROVE  /\ TypeOK' /\ Numbered' /\ CodesApart'
           /\ Creates' = Creates \ {h} /\ \A g \in Creates \ {h} : handler'[g] = handler[g]
           /\ Owners' = Owners \ {h} /\ \A g \in Owners \ {h} : handler'[g] = handler[g]
           /\ \A g \in Handlers : handler'[g] = IF g = h THEN Idle ELSE handler[g]
           /\ races \subseteq races'
<1>1. /\ handler' \in [Handlers -> HandlerType]
      /\ \A g \in Handlers : handler'[g] = IF g = h THEN Idle ELSE handler[g]
    BY HandlerKept, IdleType
<1>2. /\ account' \in Accounts \cup {None}
      /\ held' \in [Accounts -> Auths \cup {None}]
      /\ \A a \in Accounts : held'[a] \in {held[a], x}
      /\ garmin' \subseteq Codes
      /\ races' \subseteq races \cup {"deadLogin", "undeleted"} /\ races \subseteq races'
    BY CreateAccountType
<1>3. TypeOK'
    BY <1>1, <1>2 DEF TypeOK, HandlerType
<1>4. /\ Confirms' = Confirms /\ \A g \in Confirms : handler'[g] = handler[g]
      /\ Creates' = Creates \ {h} /\ \A g \in Creates \ {h} : handler'[g] = handler[g]
      /\ Owners' = Owners \ {h} /\ \A g \in Owners \ {h} : handler'[g] = handler[g]
    BY <1>1 DEF Confirms, Creates, Owners, Idle
<1>5. Numbered'
    <2>1. Idle.auth = None /\ Idle.code = None /\ Idle.phase = "idle"
          /\ None <= auths /\ None <= codes
        BY DEF Idle, None, TypeOK
    <2>2. QED
        BY <1>1, <1>2, <2>1 DEF Numbered
<1>6. CodesApart'
    BY <1>4 DEF CodesApart
<1>7. QED
    BY <1>1, <1>2, <1>3, <1>4, <1>5, <1>6

\* The instance of the login is registered and becomes the account's; the one
\* it replaces is another, and nobody else's.
LEMMA LogInStep == ASSUME Inv, NEW h \in Handlers, LogIn(h) PROVE Inv'
<1>0. TypeOK /\ Numbered /\ CodesApart /\ NoGhostDevices
    BY DEF Inv
<1> DEFINE x == handler[h].auth
<1>1. /\ handler[h].phase = "creating" /\ CreateAccount(x, {}) /\ Becomes(h, Idle)
      /\ UNCHANGED <<pending, instance, auths, codes>>
    BY DEF LogIn
<1>2. x \in Auths /\ x # None /\ x <= auths /\ h \in Creates /\ h \in Owners
    BY <1>0, <1>1 DEF TypeOK, Numbered, Creates, Owners
<1>3. /\ TypeOK' /\ Numbered' /\ CodesApart'
      /\ Creates' = Creates \ {h} /\ \A g \in Creates \ {h} : handler'[g] = handler[g]
      /\ Owners' = Owners \ {h} /\ \A g \in Owners \ {h} : handler'[g] = handler[g]
      /\ races \subseteq races'
    <2>1. {} \in SUBSET {"deadLogin"}
        OBVIOUS
    <2>2. QED
        BY <1>0, <1>1, <1>2, <2>1, AfterLogin
<1> HIDE DEF x
<1>4. ASSUME races' \cap {"sharedAuth", "deadLogin"} = {}
      PROVE  AuthsApart' /\ Known' /\ (races' = {} => garmin' \subseteq Current')
    <2>1. AuthsApart /\ Known
        BY <1>3, <1>4 DEF Inv
    <2>2. \A a \in MadeAccounts : held[a] # x
        BY <1>2, <2>1 DEF AuthsApart, x
    <2>3. account # None => account \in MadeAccounts
        BY <1>0, <2>1 DEF Known, MadeAccounts, TypeOK
    <2>4. instance[x] \in garmin /\ instance[x] # None
        BY <1>0, <1>2, <2>1, Constants DEF Known, x, TypeOK
    <2>5. \A g \in Owners \ {h} : handler[g].auth # x
        BY <1>2, <2>1 DEF AuthsApart, x
    <2>6. x # pending.auth
        BY <1>2, <2>1 DEF AuthsApart, x
    <2>7. \A g \in Creates : handler[g].auth \in Auths /\ g \in Owners
        BY <1>0 DEF Creates, Owners, TypeOK, Numbered
    <2>8. CASE account = None
        <3>1. PICK a \in Accounts :
                 /\ MadeAccounts = {b \in Accounts : b < a} /\ account' = a
                 /\ held' = [held EXCEPT ![a] = x]
                 /\ garmin' = garmin /\ races' = races
            BY <1>1, <2>8 DEF CreateAccount
        <3>2. a \notin MadeAccounts /\ account' # None
            BY <3>1, Constants DEF Accounts
        <3>3. held'[a] = x /\ \A b \in Accounts \ {a} : held'[b] = held[b]
            BY <1>0, <3>1 DEF TypeOK
        <3>4. MadeAccounts' = MadeAccounts \cup {a}
            BY <1>2, <3>1, <3>3 DEF MadeAccounts
        <3>5. \A b \in MadeAccounts : held'[b] = held[b] /\ b # a
            BY <3>2, <3>3 DEF MadeAccounts
        <3>6. AuthsApart'
            BY <1>1, <1>3, <2>1, <2>2, <2>5, <2>6, <3>3, <3>4, <3>5 DEF AuthsApart
        <3>7. Known'
            BY <1>1, <1>2, <1>3, <2>1, <2>4, <3>1, <3>3 DEF Known
        <3>8. ASSUME races' = {} PROVE garmin' \subseteq Current'
            <4>1. instance[x] \in Current'
                BY <1>1, <3>1, <3>2, <3>3 DEF Current
            <4>2. \A g \in Creates \ {h} : instance[handler[g].auth] \in Current'
                BY <1>1, <1>3 DEF Current, Creates
            <4>3. \A i \in garmin : \E g \in Creates : i = instance[handler[g].auth]
                BY <1>0, <2>8, <3>1, <3>8 DEF NoGhostDevices, Current, Creates
            <4>4. QED
                BY <3>1, <4>1, <4>2, <4>3 DEF x
        <3>9. QED
            BY <3>6, <3>7, <3>8
    <2>9. CASE account # None
        <3> DEFINE old == instance[held[account]]
        <3>1. /\ held' = [held EXCEPT ![account] = x] /\ account' = account
              /\ garmin' = garmin \ {old} \/ (garmin' = garmin /\ races' # {})
            BY <1>1, <2>2, <2>3, <2>9 DEF CreateAccount, Swap, Deregister
        <3>2. account \in Accounts /\ held[account] \in Auths
            BY <1>0, <2>1, <2>9 DEF TypeOK, Known
        <3>3. held'[account] = x /\ \A b \in Accounts \ {account} : held'[b] = held[b]
            BY <1>0, <3>1, <3>2 DEF TypeOK
        <3>4. MadeAccounts' = MadeAccounts
            BY <1>2, <2>3, <2>9, <3>3 DEF MadeAccounts
        <3>5. AuthsApart'
            BY <1>1, <1>3, <2>1, <2>2, <2>5, <2>6, <3>3, <3>4 DEF AuthsApart, MadeAccounts
        <3>6. instance[x] # old
            BY <1>0, <1>2, <2>2, <2>3, <2>4, <2>9, <3>2 DEF CodesApart
        <3>7. \A g \in Creates : /\ instance[handler[g].auth] \in garmin
                                 /\ instance[handler[g].auth] # None
            BY <1>0, <2>1, Constants DEF Known, TypeOK
        <3>8. \A g \in Creates : handler[g].auth # held[account]
            BY <2>1, <2>3, <2>7, <2>9 DEF AuthsApart
        <3>9. \A g \in Creates : instance[handler[g].auth] # old
            BY <1>0, <2>7, <3>2, <3>7, <3>8 DEF CodesApart
        <3> HIDE DEF old
        <3>10. Known'
            BY <1>1, <1>2, <1>3, <2>4, <2>9, <3>1, <3>3, <3>6, <3>7, <3>9 DEF Known
        <3>11. ASSUME races' = {} PROVE garmin' \subseteq Current'
            <4>1. instance[x] \in Current'
                BY <1>1, <2>9, <3>1, <3>3 DEF Current
            <4>2. \A g \in Creates \ {h} : instance[handler[g].auth] \in Current'
                BY <1>1, <1>3 DEF Current, Creates
            <4>3. \A i \in garmin : i = old \/ \E g \in Creates : i = instance[handler[g].auth]
                BY <1>0, <1>3, <3>11 DEF NoGhostDevices, Current, Creates, old
            <4>4. QED
                BY <3>1, <3>11, <4>1, <4>2, <4>3 DEF x
        <3>12. QED
            BY <3>5, <3>10, <3>11
    <2>10. QED
        BY <2>8, <2>9
<1>5. QED
    BY <1>3, <1>4 DEF Inv, NoGhostDevices

\* A passkey login finds the account with the credentials that it has read, and
\* changes nothing, or they ended after it read them.
LEMMA PasskeyStep == ASSUME Inv, NEW h \in Handlers, PasskeyLogin(h) PROVE Inv'
<1>0. TypeOK /\ Numbered /\ CodesApart
    BY DEF Inv
<1> DEFINE x == handler[h].auth
<1> DEFINE why == IF EndedMeanwhile(h) THEN {"deadLogin"} ELSE {}
<1>1. /\ handler[h].phase = "entering" /\ CreateAccount(x, why) /\ Becomes(h, Idle)
      /\ UNCHANGED <<pending, instance, auths, codes>>
    BY DEF PasskeyLogin
<1>2. x \in Auths \cup {None} /\ x <= auths /\ handler[h].account # None
    BY <1>0, <1>1 DEF TypeOK, Numbered
<1>3. why \in SUBSET {"deadLogin"}
    OBVIOUS
<1>4. ~EndedMeanwhile(h) => account # None /\ held[account] = x
    BY <1>2 DEF EndedMeanwhile
<1>5. EndedMeanwhile(h) => why = {"deadLogin"}
    OBVIOUS
<1> HIDE DEF why, x
<1>6. /\ TypeOK' /\ Numbered' /\ CodesApart'
      /\ \A g \in Handlers : handler'[g] = IF g = h THEN Idle ELSE handler[g]
    BY <1>0, <1>1, <1>2, <1>3, AfterLogin
<1>7. CASE UNCHANGED <<account, held, garmin, races>>
    <2>1. Idle.auth = None /\ Idle.code = None /\ Idle.phase = "idle"
          /\ None <= auths /\ None <= codes
        BY <1>0 DEF Idle, None, TypeOK
    <2>2. QED
        BY <1>1, <1>6, <1>7, <2>1, QuietStep
<1>8. CASE "deadLogin" \in races'
    BY <1>6, <1>8 DEF Inv, NoGhostDevices
<1>9. CASE ~EndedMeanwhile(h)
    BY <1>1, <1>4, <1>7, <1>9 DEF CreateAccount
<1>10. CASE EndedMeanwhile(h)
    BY <1>1, <1>5, <1>7, <1>8, <1>10 DEF CreateAccount, Swap, Deregister
<1>11. QED
    BY <1>9, <1>10

\* A logout deregisters the account's instance, which is nobody else's.
LEMMA LogoutStep == ASSUME Inv, LogoutAll PROVE Inv'
<1>0. TypeOK /\ Numbered /\ CodesApart /\ NoGhostDevices
    BY DEF Inv
<1> DEFINE old == instance[held[account]]
<1>1. /\ account # None /\ account' = None /\ pending' = Absent
      /\ garmin' = garmin \ {old} \/ (garmin' = garmin /\ races' # {})
      /\ races \subseteq races' /\ races' \subseteq races \cup {"undeleted"}
      /\ UNCHANGED <<held, instance, handler, auths, codes>>
    BY DEF LogoutAll, Deregister
<1>2. pending'.auth = None /\ pending'.code = None /\ pending' \in PendingType
    BY <1>1, IdleType DEF Absent
<1>3. TypeOK'
    BY <1>0, <1>1, <1>2 DEF TypeOK, PendingType
<1>4. Confirms' = Confirms /\ Creates' = Creates /\ Owners' = Owners
      /\ MadeAccounts' = MadeAccounts
    BY <1>1 DEF Confirms, Creates, Owners, MadeAccounts
<1>5. Numbered'
    <2>1. None <= auths /\ None <= codes
        BY <1>0 DEF None, TypeOK
    <2>2. QED
        BY <1>0, <1>1, <1>2, <2>1 DEF Numbered
<1>6. CodesApart'
    <2>1. \A g \in Confirms : handler[g].code # None
        BY <1>0 DEF Confirms, Numbered
    <2>2. QED
        BY <1>0, <1>1, <1>2, <1>4, <2>1 DEF CodesApart
<1>7. ASSUME races' \cap {"sharedAuth", "deadLogin"} = {}
      PROVE  AuthsApart' /\ Known' /\ (races' = {} => garmin' \subseteq Current')
    <2>1. AuthsApart /\ Known
        BY <1>1, <1>7 DEF Inv
    <2>2. \A g \in Owners : handler[g].auth # None
        BY <1>0 DEF Owners, Numbered
    <2>3. \A b \in MadeAccounts : held[b] # None
        BY DEF MadeAccounts
    <2>4. AuthsApart'
        BY <1>1, <1>2, <1>4, <2>1, <2>2, <2>3 DEF AuthsApart
    <2>5. account \in MadeAccounts /\ held[account] \in Auths
        BY <1>0, <1>1, <2>1 DEF Known, MadeAccounts, TypeOK
    <2>6. \A g \in Creates : /\ handler[g].auth \in Auths /\ handler[g].auth # held[account]
                             /\ instance[handler[g].auth] \in garmin
        BY <1>0, <2>1, <2>5 DEF AuthsApart, Known, Creates, Owners, TypeOK, Numbered
    <2>7. \A g \in Creates : instance[handler[g].auth] # old
        BY <1>0, <2>5, <2>6, Constants DEF CodesApart, TypeOK
    <2> HIDE DEF old
    <2>8. Known'
        BY <1>1, <1>4, <2>6, <2>7 DEF Known
    <2>9. ASSUME races' = {} PROVE garmin' \subseteq Current'
        <3>1. \A i \in garmin : i = old \/ \E g \in Creates : i = instance[handler[g].auth]
            BY <1>0, <1>1, <2>9 DEF NoGhostDevices, Current, Creates, old
        <3>2. \A g \in Creates : instance[handler[g].auth] \in Current'
            BY <1>1 DEF Current, Creates
        <3>3. QED
            BY <1>1, <2>9, <3>1, <3>2
    <2>10. QED
        BY <2>4, <2>8, <2>9
<1>8. QED
    BY <1>3, <1>5, <1>6, <1>7 DEF Inv, NoGhostDevices
-------------------------------------------------------------------------------
\* The invariant

LEMMA RequestStep ==
    ASSUME Inv, NEW h \in Handlers, NEW reauth \in BOOLEAN, RequestOTP(h, reauth)
    PROVE  Inv'
<1>0. TypeOK /\ Numbered
    BY DEF Inv
<1>1. CASE Reusable(reauth)
    <2> DEFINE r == [Idle EXCEPT !.phase = "reusing", !.auth = pending.auth, !.reauth = reauth]
    <2>1. /\ handler[h].phase = "idle" /\ Becomes(h, r) /\ pending.auth # None
          /\ UNCHANGED <<pending, account, held, instance, garmin, auths, codes, races>>
        BY <1>1 DEF RequestOTP, Reusable
    <2>2. pending.auth \in Auths \cup {None} /\ r.phase = "reusing" /\ r.auth = pending.auth
          /\ r.code = None
        BY <1>0 DEF TypeOK, Idle
    <2>3. r \in HandlerType
        <3>1. CASE reauth = TRUE
            BY <2>2, <3>1 DEF HandlerType, Idle
        <3>2. CASE reauth = FALSE
            BY <2>2, <3>2 DEF HandlerType, Idle
        <3>3. QED
            BY <3>1, <3>2
    <2> HIDE DEF r
    <2>4. /\ handler' \in [Handlers -> HandlerType]
          /\ \A g \in Handlers : handler'[g] = IF g = h THEN r ELSE handler[g]
        BY <1>0, <2>1, <2>3, HandlerKept
    <2>5. TypeOK'
        BY <1>0, <2>1, <2>4 DEF TypeOK, HandlerType
    <2>6. r.auth <= auths /\ r.code <= codes
        BY <1>0, <2>2, Constants DEF Numbered, TypeOK, None
    <2>7. QED
        BY <2>1, <2>2, <2>4, <2>5, <2>6, QuietStep
<1>2. CASE ~Reusable(reauth)
    BY <1>2, NewAuthStep DEF RequestOTP
<1>3. QED
    BY <1>1, <1>2

\* A handler gives up, or a passkey is verified.
LEMMA ToIdle ==
    ASSUME Inv, NEW h \in Handlers, NEW r \in HandlerType, Becomes(h, r),
           handler[h].phase # "creating", r.phase \in {"idle", "passkey", "entering"},
           r.auth <= auths, r.code <= codes,
           r.phase \in {"passkey", "entering"} => r.account # None,
           UNCHANGED <<pending, account, held, instance, garmin, auths, codes, races>>
    PROVE  Inv'
<1>1. TypeOK
    BY DEF Inv
<1>2. /\ handler' \in [Handlers -> HandlerType]
      /\ \A g \in Handlers : handler'[g] = IF g = h THEN r ELSE handler[g]
    BY <1>1, HandlerKept
<1>3. TypeOK'
    BY <1>1, <1>2 DEF TypeOK, HandlerType
<1>4. QED
    BY <1>2, <1>3, QuietStep

\* A handler takes over the credentials that the account it saw has by now.
LEMMA ReadsAuthStep == ASSUME Inv, NEW h \in Handlers, PasskeyReadsAuth(h) PROVE Inv'
<1>0. TypeOK /\ Numbered
    BY DEF Inv
<1> DEFINE a == handler[h].account
<1>1. a \in Accounts /\ held[a] \in Auths \cup {None} /\ held[a] <= auths /\ a # None
    BY <1>0, Constants DEF TypeOK, Numbered, PasskeyReadsAuth
<1> DEFINE r == [handler[h] EXCEPT !.phase = "entering", !.auth = held[a]]
<1>2. handler[h] \in HandlerType
    BY <1>0 DEF TypeOK, HandlerType
<1>3. /\ r \in HandlerType /\ r.phase = "entering" /\ r.auth = held[a]
      /\ r.code = handler[h].code /\ r.account = a
    BY <1>1, <1>2 DEF HandlerType
<1>4. handler[h].code <= codes
    BY <1>0 DEF Numbered
<1>5. /\ handler[h].phase = "passkey" /\ Becomes(h, r)
      /\ UNCHANGED <<pending, account, held, instance, garmin, auths, codes, races>>
    BY DEF PasskeyReadsAuth
<1> HIDE DEF r, a
<1>6. QED
    BY <1>1, <1>3, <1>4, <1>5, ToIdle

LEMMA InvStep == Inv /\ [Next]_vars => Inv'
<1> SUFFICES ASSUME Inv, [Next]_vars PROVE Inv'
    OBVIOUS
<1>0. TypeOK /\ None <= auths /\ None <= codes
    BY DEF Inv, TypeOK, None
<1>1. ASSUME NEW h \in Handlers, Serve(h) PROVE Inv'
    <2>1. CASE \E reauth \in BOOLEAN : RequestOTP(h, reauth)
        BY <2>1, RequestStep
    <2>2. CASE StoreOTP(h)
        BY <2>2, StoreStep
    <2>3. CASE RequestFails(h)
        <3>1. CASE handler[h].phase = "reusing" /\ NewAuth(h, handler[h].reauth)
            <4>1. handler[h].reauth \in BOOLEAN
                BY <1>0 DEF TypeOK
            <4>2. QED
                BY <2>3, <3>1, <4>1, NewAuthStep DEF RequestFails
        <3>2. CASE handler[h].phase = "posting" /\ Becomes(h, Idle) /\ UNCHANGED auths
            <4>1. Idle.phase = "idle" /\ Idle.auth = None /\ Idle.code = None
                BY DEF Idle
            <4>2. QED
                BY <1>0, <2>3, <3>2, <4>1, IdleType, ToIdle DEF RequestFails
        <3>3. QED
            BY <2>3, <3>1, <3>2 DEF RequestFails
    <2>4. CASE ConfirmOTP(h)
        BY <2>4, ConfirmStep
    <2>5. CASE Registered(h)
        BY <2>5, RegisteredStep
    <2>6. CASE ConfirmFails(h)
        BY <2>6, ConfirmFailsStep
    <2>7. CASE LogIn(h)
        BY <2>7, LogInStep
    <2>8. CASE PasskeyVerified(h)
        <3> DEFINE r == [Idle EXCEPT !.phase = "passkey", !.account = account]
        <3>1. r \in HandlerType
            BY <1>0 DEF TypeOK, HandlerType, Idle
        <3>2. r.phase = "passkey" /\ r.auth = None /\ r.code = None /\ r.account = account
            BY DEF Idle
        <3>3. /\ handler[h].phase = "idle" /\ account # None /\ Becomes(h, r)
              /\ UNCHANGED <<pending, account, held, instance, garmin, auths, codes, races>>
            BY <2>8 DEF PasskeyVerified
        <3> HIDE DEF r
        <3>4. QED
            BY <1>0, <3>1, <3>2, <3>3, ToIdle
    <2>9. CASE PasskeyLogin(h)
        BY <2>9, PasskeyStep
    <2>10. CASE PasskeyNeedsOTP(h)
        <3>1. Idle.phase = "idle" /\ Idle.auth = None /\ Idle.code = None
            BY DEF Idle
        <3>2. QED
            BY <1>0, <2>10, <3>1, IdleType, ToIdle DEF PasskeyNeedsOTP
    <2>11. CASE PasskeyReadsAuth(h)
        BY <2>11, ReadsAuthStep
    <2>12. QED
        BY <1>1, <2>1, <2>2, <2>3, <2>4, <2>5, <2>6, <2>7, <2>8, <2>9, <2>10, <2>11
        DEF Serve
<1>2. ASSUME PendingAges \/ ReapPending PROVE Inv'
    <2>1. /\ \/ pending'.auth = pending.auth /\ pending'.code = pending.code
             \/ pending'.auth = None /\ pending'.code = None
          /\ pending' \in PendingType
          /\ UNCHANGED <<account, held, instance, garmin, handler, auths, codes, races>>
        <3>1. CASE PendingAges
            BY <1>0, <3>1 DEF PendingAges, TypeOK, PendingType
        <3>2. CASE ReapPending
            BY <3>2, IdleType DEF ReapPending, Absent
        <3>3. QED
            BY <1>2, <3>1, <3>2
    <2>2. TypeOK'
        BY <1>0, <2>1 DEF TypeOK, PendingType
    <2>3. QED
        BY <2>1, <2>2, QuietStep
<1>3. ASSUME LogoutAll PROVE Inv'
    BY <1>3, LogoutStep
<1>4. ASSUME UNCHANGED vars PROVE Inv'
    BY <1>4 DEF vars, Inv, TypeOK, Numbered, CodesApart, AuthsApart, Known, NoGhostDevices,
                Confirms, Creates, Owners, MadeAccounts, Current
<1>5. QED
    BY <1>1, <1>2, <1>3, <1>4 DEF Next

LEMMA Invariance == Spec => []Inv
BY InitInv, InvStep, PTL DEF Spec

-------------------------------------------------------------------------------
\* Theorems

\* Every pending request, handler, account and registration is of its type:
\* handleRequestOTP to handleLogoutAll never work with an object never made.
THEOREM OtpTypeCorrect == Spec => []TypeOK
<1>1. Inv => TypeOK
    BY DEF Inv
<1>2. QED
    BY <1>1, Invariance, PTL

\* Garmin has no registration for the phone but the account's and those that a
\* confirmation is about to make the account's, unless a race has lost one:
\* getOrCreateAccount and RemoveAllForPhone deregister every other.
THEOREM GarminHasNoGhosts == Spec => []NoGhostDevices
<1>1. Inv => NoGhostDevices
    BY DEF Inv
<1>2. QED
    BY <1>1, Invariance, PTL

\* No login ends with an account that another login or a logout has deregistered.
\* Excepted are two confirmations that share a HermesAuth, and a passkey login whose
\* credentials ended between its reading of them and CreateSession's lock.
THEOREM AccountsAreKnown == Spec => []AccountIsRegistered
<1>1. Inv => AccountIsRegistered
    BY DEF Inv, Known, AccountIsRegistered
<1>2. QED
    BY <1>1, Invariance, PTL

\* GetPendingOTP gives a code to one confirmation, and never again once an
\* instance has been registered with it.
THEOREM CodesAreUsedOnce == Spec => []OneConfirmPerCode
<1>1. Inv => OneConfirmPerCode
    BY DEF Inv, CodesApart, Confirms, OneConfirmPerCode
<1>2. QED
    BY <1>1, Invariance, PTL

===============================================================================
