----------------------------- MODULE RateLimiter -----------------------------
(***************************************************************************)
(* The limits on the endpoints that serve a browser without a session: how  *)
(* many attempts a client address may make in a window of time, and how     *)
(* many of them may send a code to (or start a passkey login of) a phone.   *)
(*                                                                         *)
(* A limiter keeps, for each key, the times of the attempts it allowed.     *)
(* allow reads the clock before it takes the lock, so two requests may      *)
(* enter in the opposite order of their times; and a call that finds the    *)
(* last global prune older than the window forgets every key whose last     *)
(* entry is.                                                                *)
(***************************************************************************)
EXTENDS Naturals, Sequences

CONSTANTS Requests,     \* requests served at a time
          IPs, Phones,  \* keys of the two limiters
          Listed,       \* the whitelist: Phones if there is none
          Limit,        \* "ip", "phone" -> attempts in a window (30 and 5)
          Window,       \* 15 minutes, in ticks
          MaxTime,      \* bound: the last tick
          MaxRequests   \* bound: attempts made

Limiters == {"ip", "phone"}
Keys     == IPs \cup Phones
Times    == 0..MaxTime

\* What the model takes for granted of the constants.
LimiterAssumption ==
    /\ IPs \cap Phones = {} /\ Listed \subseteq Phones
    /\ Limit \in [Limiters -> Nat \ {0}]
    /\ Window \in Nat \ {0} /\ MaxTime \in Nat /\ Window < MaxTime
    /\ MaxRequests \in Nat

VARIABLES
    now,      \* the clock
    hits,     \* key -> times of allowed attempts, as the limiter has them
    last,     \* limiter -> its last global prune
    attempt,  \* request -> what it is doing
    attempts, \* attempts so far
    granted,  \* history: key -> times of all the attempts allowed
    entered,  \* history: limiter -> the latest time that entered it
    tardy     \* history: limiters that were entered with an earlier time

limiterVars == <<now, hits, last, attempt, attempts, granted, entered, tardy>>

-------------------------------------------------------------------------------

NoAttempt == [phase |-> "idle", ip |-> "none", phone |-> "none", precheck |-> FALSE, at |-> 0]

Goes(r, a) == attempt' = [attempt EXCEPT ![r] = a]

LimiterOf(k)     == IF k \in IPs THEN "ip" ELSE "phone"
KeysOf(limiter)  == IF limiter = "ip" THEN IPs ELSE Phones

\* t is before the cutoff of a call that read the clock at at.
Before(t, at) == t + Window < at

\* The entries of s from the first one that is not before the cutoff.
Fresh(s, at) ==
    LET keep == {i \in 1..Len(s) : ~Before(s[i], at)}
    IN IF keep = {} THEN << >>
       ELSE SubSeq(s, CHOOSE i \in keep : \A j \in keep : i <= j, Len(s))

\* The global prune, if it is due: keys that have gone quiet are forgotten.
PruneDue(limiter, at) == at > last[limiter] + Window

Pruned(limiter, at) ==
    [k \in Keys |-> IF /\ PruneDue(limiter, at) /\ k \in KeysOf(limiter)
                       /\ hits[k] # << >> => Before(hits[k][Len(hits[k])], at)
                    THEN << >> ELSE hits[k]]

-------------------------------------------------------------------------------

\* The clock.
Tick ==
    /\ now < MaxTime
    /\ now' = now + 1
    /\ UNCHANGED <<hits, last, attempt, attempts, granted, entered, tardy>>

\* A request with a phone number that is valid and, where that is asked,
\* listed.  The checks of an OTP request, a reauthentication and the start of
\* a passkey login are authPrecheck's; the confirmation of a code and the end
\* of a passkey login have the address limit alone.  Others change nothing.
Arrive(r, ip, phone, precheck) ==
    /\ attempt[r].phase = "idle" /\ attempts < MaxRequests
    /\ precheck => phone \in Listed
    /\ attempts' = attempts + 1
    /\ Goes(r, [phase |-> "ip", ip |-> ip, phone |-> phone, precheck |-> precheck, at |-> now])
    /\ UNCHANGED <<now, hits, last, granted, entered, tardy>>

\* Wrong variant: the window is a fixed one, and starts anew when it is over.
AllowFixedWindow(r) ==
    LET a       == attempt[r]
        limiter == a.phase
        key     == IF limiter = "ip" THEN a.ip ELSE a.phone
        left    == IF PruneDue(limiter, a.at) THEN << >> ELSE hits[key]
        ok      == Len(left) < Limit[limiter]
    IN  /\ a.phase \in Limiters
        /\ hits' = [hits EXCEPT ![key] = IF ok THEN Append(left, a.at) ELSE left]
        /\ last' = [last EXCEPT ![limiter] = IF PruneDue(limiter, a.at) THEN a.at ELSE @]
        /\ granted' = IF ok THEN [granted EXCEPT ![key] = Append(@, a.at)] ELSE granted
        /\ tardy' = IF a.at < entered[limiter] THEN tardy \cup {limiter} ELSE tardy
        /\ entered' = [entered EXCEPT ![limiter] = IF a.at > @ THEN a.at ELSE @]
        /\ Goes(r, IF ok /\ limiter = "ip" /\ a.precheck
                   THEN [a EXCEPT !.phase = "phone", !.at = now] ELSE NoAttempt)
        /\ UNCHANGED <<now, attempts>>

\* allow, under its lock, with the time read before: prunes, and either takes
\* the attempt down or refuses it (429).  authPrecheck then asks the limiter
\* of the phone, for which the clock is read again; an attempt it refuses
\* stays with the address.
Allow(r) ==
    LET a       == attempt[r]
        limiter == a.phase
        key     == IF limiter = "ip" THEN a.ip ELSE a.phone
        pruned  == Pruned(limiter, a.at)
        left    == Fresh(pruned[key], a.at)
        ok      == Len(left) < Limit[limiter]
    IN  /\ a.phase \in Limiters
        /\ hits' = [pruned EXCEPT ![key] = IF ok THEN Append(left, a.at) ELSE left]
        /\ last' = [last EXCEPT ![limiter] = IF PruneDue(limiter, a.at) THEN a.at ELSE @]
        /\ granted' = IF ok THEN [granted EXCEPT ![key] = Append(@, a.at)] ELSE granted
        /\ tardy' = IF a.at < entered[limiter] THEN tardy \cup {limiter} ELSE tardy
        /\ entered' = [entered EXCEPT ![limiter] = IF a.at > @ THEN a.at ELSE @]
        /\ Goes(r, IF ok /\ limiter = "ip" /\ a.precheck
                   THEN [a EXCEPT !.phase = "phone", !.at = now] ELSE NoAttempt)
        /\ UNCHANGED <<now, attempts>>

-------------------------------------------------------------------------------

\* The zero time of last is long before the start: the first call prunes.  A
\* server that has just started, whose clock reads Window + 1.
Init ==
    /\ now = Window + 1
    /\ hits = [k \in Keys |-> << >>] /\ granted = [k \in Keys |-> << >>]
    /\ last = [l \in Limiters |-> 0] /\ entered = [l \in Limiters |-> 0]
    /\ attempt = [r \in Requests |-> NoAttempt]
    /\ attempts = 0 /\ tardy = {}

Next ==
    \/ Tick
    \/ \E r \in Requests :
          \/ \E ip \in IPs, phone \in Phones, precheck \in BOOLEAN : Arrive(r, ip, phone, precheck)
          \/ Allow(r)

Spec == Init /\ [][Next]_limiterVars

-------------------------------------------------------------------------------
\* Properties

TypeOK ==
    /\ now \in Times
    /\ hits \in [Keys -> Seq(Times)] /\ granted \in [Keys -> Seq(Times)]
    /\ last \in [Limiters -> Times] /\ entered \in [Limiters -> Times]
    /\ attempt \in [Requests -> [phase : {"idle"} \cup Limiters, ip : IPs \cup {"none"},
                                 phone : Phones \cup {"none"}, precheck : BOOLEAN, at : Times]]
    /\ attempts \in 0..MaxRequests
    /\ tardy \subseteq Limiters

\* However the requests of several browsers interleave, and whenever the prune
\* of one key's call comes in between those of another, no address and no phone
\* gets more than its limit of attempts through in any window of time (the
\* test tries one key alone), as long as the calls of allow enter in the order
\* of their times.
LimitHolds ==
    \A k \in Keys : LimiterOf(k) \notin tardy =>
        \A i \in 1..Len(granted[k]) :
            i + Limit[LimiterOf(k)] <= Len(granted[k]) =>
                Before(granted[k][i], granted[k][i + Limit[LimiterOf(k)]])

===============================================================================
