--------------------------- MODULE WebHandlers_proofs ---------------------------
(***************************************************************************)
(* Proofs about the groups of handlers that WebHandlers puts side by side,   *)
(* for any requests, accounts, processes, keys, limits and bounds.           *)
(***************************************************************************)
EXTENDS WebHandlers, OtpLogin_proofs, Integers, Sequences, FiniteSets, WellFoundedInduction,
        TLAPS

-------------------------------------------------------------------------------
\* RateLimiter: the inductive invariant

\* What the limiter keeps, h, of what it has granted, g: a suffix, without what
\* is too old for a call at e, the latest time that entered it; and g keeps to
\* the limit n.
Log(g, h, e, n) ==
    /\ \A i, j \in 1..Len(g) : i <= j => g[i] <= g[j]
    /\ \A i \in 1..Len(g) : g[i] <= e
    /\ Len(h) <= Len(g)
    /\ \A i \in 1..Len(h) : h[i] = g[Len(g) - Len(h) + i]
    /\ \A i \in 1..(Len(g) - Len(h)) : Limits!Before(g[i], e)
    /\ \A i \in 1..Len(g) : i + n <= Len(g) => Limits!Before(g[i], g[i + n])

Logs == \A k \in Limits!Keys : Limits!LimiterOf(k) \notin tardy =>
            Log(granted[k], hits[k], entered[Limits!LimiterOf(k)], Limit[Limits!LimiterOf(k)])

\* A request that asks a limiter has a key of it.
Keyed ==
    \A r \in Handlers : /\ attempt[r].phase = "ip" => attempt[r].ip \in IPs
                        /\ attempt[r].phase # "idle" => attempt[r].phone \in Phones

LimitsInv == Limits!TypeOK /\ Keyed /\ Logs

AttemptType == [phase : {"idle"} \cup Limits!Limiters, ip : IPs \cup {"none"},
                phone : Phones \cup {"none"}, precheck : BOOLEAN, at : Limits!Times]

-------------------------------------------------------------------------------
\* Sequences of times

LEMMA Minimum ==
    ASSUME NEW S \in SUBSET Nat, S # {}
    PROVE  \E x \in S : \A y \in S : x <= y
<1>1. PICK x \in S : \A y \in S : ~ (<<y, x>> \in OpToRel(<, Nat))
    BY NatLessThanWellFounded, WFMin
<1>2. \A y \in S : ~ (y < x)
    BY <1>1 DEF OpToRel
<1>3. QED
    BY <1>2

\* Indices into a sequence, and into it without its first d entries or with
\* one more.
LEMMA Indices ==
    \A n, d \in Nat : d <= n =>
        /\ n - d \in Nat
        /\ \A i \in 1..(n - d) : d + i \in 1..n
OBVIOUS

LEMMA OneMore ==
    \A n \in Nat : \A i \in 1..(n + 1) : i \in 1..n \/ i = n + 1
OBVIOUS

\* Fresh drops a prefix, of entries that are too old.
LEMMA FreshIsSuffix ==
    ASSUME NEW T \in SUBSET Nat, NEW s \in Seq(T), NEW at \in Nat, Window \in Nat
    PROVE  \E d \in 0..Len(s) :
              /\ Limits!Fresh(s, at) \in Seq(T) /\ Len(Limits!Fresh(s, at)) = Len(s) - d
              /\ \A i \in 1..(Len(s) - d) : Limits!Fresh(s, at)[i] = s[d + i]
              /\ \A i \in 1..d : Limits!Before(s[i], at)
<1> DEFINE keep == {i \in 1..Len(s) : ~Limits!Before(s[i], at)}
<1>1. CASE keep = {}
    <2>1. Limits!Fresh(s, at) = << >>
        BY <1>1 DEF Limits!Fresh
    <2>2. \A i \in 1..Len(s) : Limits!Before(s[i], at)
        BY <1>1
    <2>3. Len(s) \in 0..Len(s) /\ Len(s) - Len(s) = 0 /\ << >> \in Seq(T)
        OBVIOUS
    <2>4. \A i \in 1..(Len(s) - Len(s)) : Limits!Fresh(s, at)[i] = s[Len(s) + i]
        BY <2>3
    <2>5. Len(Limits!Fresh(s, at)) = Len(s) - Len(s)
        BY <2>1, <2>3
    <2> HIDE DEF keep
    <2>6. QED
        BY <2>1, <2>2, <2>3, <2>4, <2>5
<1>2. CASE keep # {}
    <2> DEFINE c == CHOOSE i \in keep : \A j \in keep : i <= j
    <2>0. keep \in SUBSET Nat
        OBVIOUS
    <2>3. Limits!Fresh(s, at) = SubSeq(s, c, Len(s))
        BY <1>2 DEF Limits!Fresh
    <2> HIDE DEF keep
    <2>1. \E i \in keep : \A j \in keep : i <= j
        BY <1>2, <2>0, Minimum
    <2>2. c \in keep /\ \A j \in keep : c <= j
        BY <2>1
    <2> HIDE DEF c
    <2>4. c \in 1..Len(s)
        BY <2>2 DEF keep
    <2>5. \A i \in 1..Len(s) : i < c => Limits!Before(s[i], at)
        BY <2>2, <2>4 DEF keep
    <2>6. c - 1 \in 0..Len(s)
        BY <2>4
    <2>7. /\ Limits!Fresh(s, at) \in Seq(T) /\ Len(Limits!Fresh(s, at)) = Len(s) - (c - 1)
          /\ \A i \in 1..(Len(s) - (c - 1)) : Limits!Fresh(s, at)[i] = s[(c - 1) + i]
        BY <2>3, <2>4
    <2>8. \A i \in 1..(c - 1) : Limits!Before(s[i], at)
        BY <2>4, <2>5
    <2>9. QED
        BY <2>6, <2>7, <2>8
<1>3. QED
    BY <1>1, <1>2

\* f is h without its first d entries, which are too old at at.
Drops(h, f, d, at) ==
    /\ d \in 0..Len(h) /\ Len(f) = Len(h) - d
    /\ \A i \in 1..(Len(h) - d) : f[i] = h[d + i]
    /\ \A i \in 1..d : Limits!Before(h[i], at)

\* A later call may drop a prefix that is too old for it.
LEMMA Shrink ==
    ASSUME NEW g \in Seq(Nat), NEW h \in Seq(Nat), NEW e \in Nat, NEW n \in Nat \ {0},
           Log(g, h, e, n), NEW at \in Nat, e <= at, Window \in Nat,
           NEW f \in Seq(Nat), NEW d, Drops(h, f, d, at)
    PROVE  Log(g, f, at, n)
<1>0. /\ d \in 0..Len(h) /\ Len(f) = Len(h) - d
      /\ \A i \in 1..(Len(h) - d) : f[i] = h[d + i]
      /\ \A i \in 1..d : Limits!Before(h[i], at)
    BY DEF Drops
<1>1. \A i \in 1..Len(g) : g[i] \in Nat /\ g[i] <= at
    <2>1. ASSUME NEW i \in 1..Len(g) PROVE g[i] \in Nat /\ g[i] <= at
        BY <2>1 DEF Log
    <2>2. QED
        BY <2>1
<1>2. Len(f) <= Len(g) /\ Len(f) \in Nat /\ Len(g) \in Nat /\ Len(h) \in Nat
    BY <1>0 DEF Log
<1>3. ASSUME NEW i \in 1..Len(f) PROVE f[i] = g[Len(g) - Len(f) + i]
    <2> DEFINE m == d + i
    <2>0. i \in 1..(Len(h) - d) /\ d \in Nat /\ Len(h) \in Nat /\ d <= Len(h)
        BY <1>0
    <2>1. m \in 1..Len(h) /\ i \in 1..(Len(h) - d)
        BY <2>0, Indices
    <2>2. Len(g) - Len(h) + m = Len(g) - Len(f) + i
        BY <1>0, <1>2
    <2>3. f[i] = h[m]
        BY <1>0, <2>1
    <2> HIDE DEF m
    <2>4. h[m] = g[Len(g) - Len(h) + m]
        BY <2>1 DEF Log
    <2>5. QED
        BY <2>2, <2>3, <2>4, SMTT(30)
<1>4. ASSUME NEW i \in 1..(Len(g) - Len(f)) PROVE Limits!Before(g[i], at)
    <2>1. CASE i <= Len(g) - Len(h)
        BY <1>1, <1>2, <2>1 DEF Log, Limits!Before
    <2>2. CASE i > Len(g) - Len(h)
        <3>1. i - (Len(g) - Len(h)) \in 1..d
            BY <1>0, <1>2, <2>2 DEF Log
        <3>2. h[i - (Len(g) - Len(h))] = g[i]
            <4> DEFINE j == i - (Len(g) - Len(h))
            <4>1. j \in 1..Len(h) /\ Len(g) - Len(h) + j = i
                BY <1>0, <1>2, <3>1
            <4> HIDE DEF j
            <4>2. h[j] = g[i]
                BY <4>1 DEF Log
            <4>3. QED
                BY <4>2 DEF j
        <3>3. QED
            BY <1>0, <3>1, <3>2, ZenonT(30)
    <2>3. QED
        BY <1>2, <2>1, <2>2
<1>5. QED
    BY <1>1, <1>2, <1>3, <1>4 DEF Log

\* An attempt is granted when fewer than the limit are left: the one that the
\* limit counts back from it has been dropped.
LEMMA Grow ==
    ASSUME NEW g \in Seq(Nat), NEW h \in Seq(Nat), NEW at \in Nat, NEW n \in Nat \ {0},
           Log(g, h, at, n), Len(h) < n, Window \in Nat
    PROVE  Log(Append(g, at), Append(h, at), at, n)
<1> DEFINE G == Append(g, at)
<1> DEFINE H == Append(h, at)
<1>1. /\ Len(G) = Len(g) + 1 /\ Len(H) = Len(h) + 1
      /\ \A i \in 1..Len(g) : G[i] = g[i]
      /\ \A i \in 1..Len(h) : H[i] = h[i]
      /\ G[Len(g) + 1] = at /\ H[Len(h) + 1] = at
    OBVIOUS
<1>2. Len(g) \in Nat /\ Len(h) \in Nat /\ Len(h) <= Len(g)
    BY DEF Log
<1>3. \A i \in 1..Len(g) : g[i] \in Nat /\ g[i] <= at
    BY DEF Log
<1> HIDE DEF G, H
<1>4. \A i \in 1..Len(G) : i \in 1..Len(g) \/ i = Len(g) + 1
    BY <1>1, <1>2, OneMore
<1>5. /\ \A i \in 1..Len(G) : G[i] <= at
      /\ \A i \in 1..Len(H) : H[i] = G[Len(G) - Len(H) + i]
    <2>1. ASSUME NEW i \in 1..Len(G) PROVE G[i] <= at
        <3>1. CASE i \in 1..Len(g)
            BY <1>1, <1>3, <3>1
        <3>2. CASE i = Len(g) + 1
            <4>1. G[i] = at
                BY <1>1, <3>2, Zenon
            <4>2. QED
                BY <4>1
        <3>3. QED
            BY <1>4, <3>1, <3>2
    <2>2. ASSUME NEW i \in 1..Len(H) PROVE H[i] = G[Len(G) - Len(H) + i]
        <3>1. Len(G) - Len(H) = Len(g) - Len(h) /\ Len(g) - Len(h) \in Nat
            BY <1>1, <1>2
        <3>2. CASE i \in 1..Len(h)
            <4>1. Len(g) - Len(h) + i \in 1..Len(g)
                BY <1>2, <3>2
            <4>2. QED
                BY <1>1, <3>1, <3>2, <4>1 DEF Log
        <3>3. CASE i = Len(h) + 1
            BY <1>1, <1>2, <3>1, <3>3
        <3>4. QED
            BY <1>1, <1>2, <3>2, <3>3
    <2>3. QED
        BY <2>1, <2>2
<1>6. \A i, j \in 1..Len(G) : i <= j => G[i] <= G[j]
    <2> SUFFICES ASSUME NEW i \in 1..Len(G), NEW j \in 1..Len(G), i <= j PROVE G[i] <= G[j]
        OBVIOUS
    <2>1. CASE j \in 1..Len(g)
        <3>1. i \in 1..Len(g)
            BY <1>2, <2>1
        <3>2. QED
            BY <1>1, <2>1, <3>1 DEF Log
    <2>2. CASE j = Len(g) + 1
        <3>1. G[i] <= at
            BY <1>5
        <3>2. G[j] = at
            BY <1>1, <1>2, <2>2
        <3>3. QED
            BY <3>1, <3>2
    <2>3. QED
        BY <1>4, <2>1, <2>2
<1>7. ASSUME NEW i \in 1..(Len(G) - Len(H)) PROVE Limits!Before(G[i], at)
    <2>1. i \in 1..(Len(g) - Len(h)) /\ i \in 1..Len(g)
        BY <1>1, <1>2
    <2>2. QED
        BY <1>1, <2>1 DEF Log
<1>8. ASSUME NEW i \in 1..Len(G), i + n <= Len(G) PROVE Limits!Before(G[i], G[i + n])
    <2>1. CASE i + n <= Len(g)
        <3>1. i \in 1..Len(g) /\ i + n \in 1..Len(g)
            BY <1>2, <2>1
        <3>2. QED
            BY <1>1, <2>1, <3>1 DEF Log
    <2>2. CASE i + n = Len(g) + 1
        <3>1. i \in 1..(Len(g) - Len(h)) /\ i \in 1..Len(g)
            BY <1>2, <2>2
        <3>2. G[i] = g[i] /\ G[i + n] = at
            BY <1>1, <2>2, <3>1, ZenonT(30)
        <3>3. Limits!Before(g[i], at)
            BY <3>1 DEF Log
        <3>4. QED
            BY <3>2, <3>3
    <2> DEFINE m == i + n
    <2>3. m \in Nat /\ m <= Len(g) + 1
        BY <1>1, <1>2, <1>8
    <2> HIDE DEF m
    <2>4. m <= Len(g) \/ m = Len(g) + 1
        BY <1>2, <2>3
    <2>5. QED
        BY <2>1, <2>2, <2>4 DEF m
<1>9. Len(H) <= Len(G)
    BY <1>1, <1>2
<1>10. Log(G, H, at, n)
    BY <1>5, <1>6, <1>7, <1>8, <1>9 DEF Log
<1>11. QED
    BY <1>10 DEF G, H
-------------------------------------------------------------------------------
\* The steps

LEMMA LimitsTypes ==
    ASSUME Limits!LimiterAssumption
    PROVE  /\ Window \in Nat \ {0} /\ Limits!Times \in SUBSET Nat /\ 0 \in Limits!Times
           /\ \A l \in Limits!Limiters : Limit[l] \in Nat \ {0}
           /\ \A k \in Limits!Keys, l \in Limits!Limiters :
                    /\ Limits!LimiterOf(k) \in Limits!Limiters
                    /\ (Limits!LimiterOf(k) = l <=> k \in Limits!KeysOf(l))
BY DEF Limits!LimiterAssumption, Limits!Times, Limits!Limiters, Limits!Keys,
       Limits!LimiterOf, Limits!KeysOf

LEMMA LimitsInit == Limits!LimiterAssumption /\ Limits!Init => LimitsInv
<1> SUFFICES ASSUME Limits!LimiterAssumption, Limits!Init PROVE LimitsInv
    OBVIOUS
<1>1. Limits!NoAttempt \in AttemptType /\ Limits!NoAttempt.phase = "idle"
    <2>1. FALSE \in BOOLEAN /\ 0 \in Limits!Times
        BY LimitsTypes
    <2>2. QED
        BY <2>1 DEF Limits!NoAttempt, AttemptType
<1>2. Window + 1 \in Limits!Times /\ MaxRequests \in Nat
    BY DEF Limits!LimiterAssumption, Limits!Times
<1>3. Limits!TypeOK
    BY <1>1, <1>2, LimitsTypes DEF Limits!Init, Limits!TypeOK, AttemptType
<1>4. Keyed
    BY <1>1 DEF Limits!Init, Keyed
<1>5. Logs
    BY LimitsTypes DEF Limits!Init, Logs, Log
<1>6. QED
    BY <1>3, <1>4, <1>5 DEF LimitsInv

LEMMA ArriveStep ==
    ASSUME Limits!LimiterAssumption, LimitsInv,
           NEW r \in Handlers, NEW ip \in IPs, NEW phone \in Phones, NEW precheck \in BOOLEAN, Limits!Arrive(r, ip, phone, precheck)
    PROVE  LimitsInv'
<1> DEFINE a == [phase |-> "ip", ip |-> ip, phone |-> phone, precheck |-> precheck, at |-> now]
<1>0. Limits!TypeOK /\ Keyed /\ Logs
    BY DEF LimitsInv
<1>1. attempts < MaxRequests /\ attempts' = attempts + 1 /\ Limits!Goes(r, a)
      /\ UNCHANGED <<now, hits, last, granted, entered, tardy>>
    BY DEF Limits!Arrive
<1>2. a \in AttemptType /\ a.phase = "ip" /\ a.ip = ip /\ a.phone = phone
    <2>1. now \in Limits!Times
        BY <1>0 DEF Limits!TypeOK
    <2>2. CASE precheck = TRUE
        BY <2>1, <2>2 DEF AttemptType, Limits!Limiters
    <2>3. CASE precheck = FALSE
        BY <2>1, <2>3 DEF AttemptType, Limits!Limiters
    <2>4. QED
        BY <2>2, <2>3
<1> HIDE DEF a
<1>3. /\ attempt' \in [Handlers -> AttemptType]
      /\ \A q \in Handlers : attempt'[q] = IF q = r THEN a ELSE attempt[q]
    BY <1>0, <1>1, <1>2 DEF Limits!Goes, Limits!TypeOK, AttemptType
<1>4. attempts' \in 0..MaxRequests
    BY <1>0, <1>1 DEF Limits!TypeOK, Limits!LimiterAssumption
<1>5. Limits!TypeOK'
    BY <1>0, <1>1, <1>3, <1>4 DEF Limits!TypeOK, AttemptType
<1>6. Keyed'
    BY <1>0, <1>2, <1>3 DEF Keyed
<1>7. Logs'
    BY <1>0, <1>1 DEF Logs
<1>8. QED
    BY <1>5, <1>6, <1>7 DEF LimitsInv

LEMMA AllowStep ==
    ASSUME Limits!LimiterAssumption, LimitsInv, NEW r \in Handlers, Limits!Allow(r)
    PROVE  LimitsInv'
<1>0. Limits!TypeOK /\ Keyed /\ Logs
    BY DEF LimitsInv
<1>13. attempt[r] \in AttemptType /\ attempt[r].at \in Limits!Times /\ now \in Limits!Times
    <2>1. attempt \in [Handlers -> AttemptType]
        <3>1. Limits!TypeOK
            BY <1>0
        <3>2. QED
            BY ONLY <3>1, Zenon DEF Limits!TypeOK, AttemptType
    <2>2. now \in Limits!Times
        BY <1>0 DEF Limits!TypeOK
    <2>3. attempt[r] \in AttemptType
        BY <2>1
    <2>4. attempt[r].at \in Limits!Times
        BY <2>3 DEF AttemptType
    <2>5. QED
        BY <2>2, <2>3, <2>4
<1> DEFINE a      == attempt[r]
<1> DEFINE l      == a.phase
<1> DEFINE key    == IF l = "ip" THEN a.ip ELSE a.phone
<1> DEFINE pruned == Limits!Pruned(l, a.at)
<1> DEFINE left   == Limits!Fresh(pruned[key], a.at)
<1> DEFINE ok     == Len(left) < Limit[l]
<1> DEFINE next   == IF ok /\ l = "ip" /\ a.precheck
                     THEN [a EXCEPT !.phase = "phone", !.at = now] ELSE Limits!NoAttempt
<1>1. /\ l \in Limits!Limiters
      /\ hits' = [pruned EXCEPT ![key] = IF ok THEN Append(left, a.at) ELSE left]
      /\ last' = [last EXCEPT ![l] = IF Limits!PruneDue(l, a.at) THEN a.at ELSE @]
      /\ granted' = IF ok THEN [granted EXCEPT ![key] = Append(@, a.at)] ELSE granted
      /\ tardy' = IF a.at < entered[l] THEN tardy \cup {l} ELSE tardy
      /\ entered' = [entered EXCEPT ![l] = IF a.at > @ THEN a.at ELSE @]
      /\ Limits!Goes(r, next)
      /\ UNCHANGED <<now, attempts>>
    BY DEF Limits!Allow
<1>2. a \in AttemptType /\ a.at \in Limits!Times /\ now \in Limits!Times
    BY <1>13, Zenon
<1>3. key \in Limits!Keys /\ Limits!LimiterOf(key) = l
    <2> HIDE DEF left, ok, next, pruned
    <2>1. attempt[r].phase = "ip" \/ attempt[r].phase = "phone"
        BY <1>1 DEF Limits!Limiters
    <2>2. CASE attempt[r].phase = "ip"
        BY <1>0, <2>2 DEF Keyed, Limits!Keys, Limits!LimiterOf
    <2>3. CASE attempt[r].phase = "phone"
        <3>1. attempt[r].phone \in Phones
            BY <1>0, <2>3 DEF Keyed
        <3>2. attempt[r].phone \notin IPs
            BY <3>1 DEF Limits!LimiterAssumption
        <3>3. QED
            BY <2>3, <3>1, <3>2 DEF Limits!Keys, Limits!LimiterOf
    <2>4. QED
        BY <2>1, <2>2, <2>3
<1>4. /\ pruned \in [Limits!Keys -> Seq(Limits!Times)]
      /\ \A k \in Limits!Keys :
            \/ pruned[k] = hits[k]
            \/ /\ pruned[k] = << >> /\ k \in Limits!KeysOf(l)
               /\ hits[k] # << >> => Limits!Before(hits[k][Len(hits[k])], a.at)
    BY <1>0 DEF Limits!Pruned, Limits!TypeOK
<1>5. next \in AttemptType /\ next.phase \in {"idle", "phone"}
      /\ (next.phase = "phone" => next.phone = a.phone)
    <2>1. CASE ok /\ l = "ip" /\ a.precheck
        BY <1>2, <2>1 DEF AttemptType, Limits!Limiters
    <2>2. CASE ~(ok /\ l = "ip" /\ a.precheck)
        <3>1. FALSE \in BOOLEAN /\ 0 \in Limits!Times
            BY LimitsTypes
        <3>2. QED
            BY <2>2, <3>1 DEF AttemptType, Limits!NoAttempt
    <2>3. QED
        BY <2>1, <2>2
<1> HIDE DEF pruned, next
<1>6. PICK d \in 0..Len(pruned[key]) :
          /\ left \in Seq(Limits!Times) /\ Len(left) = Len(pruned[key]) - d
          /\ \A i \in 1..(Len(pruned[key]) - d) : left[i] = pruned[key][d + i]
          /\ \A i \in 1..d : Limits!Before(pruned[key][i], a.at)
    <2>1. pruned[key] \in Seq(Limits!Times) /\ a.at \in Nat
        BY <1>2, <1>3, <1>4, LimitsTypes
    <2> DEFINE s  == pruned[key]
    <2> DEFINE at == a.at
    <2>2. s \in Seq(Limits!Times) /\ at \in Nat
        BY <2>1
    <2> HIDE DEF s, at
    <2>3. \E d \in 0..Len(s) :
              /\ Limits!Fresh(s, at) \in Seq(Limits!Times) /\ Len(Limits!Fresh(s, at)) = Len(s) - d
              /\ \A i \in 1..(Len(s) - d) : Limits!Fresh(s, at)[i] = s[d + i]
              /\ \A i \in 1..d : Limits!Before(s[i], at)
        BY <2>2, FreshIsSuffix, LimitsTypes
    <2>4. QED
        BY <2>3 DEF s, at
<1> HIDE DEF left, ok
<1>7. /\ attempt' \in [Handlers -> AttemptType]
      /\ \A q \in Handlers : attempt'[q] = IF q = r THEN next ELSE attempt[q]
    BY <1>0, <1>1, <1>5 DEF Limits!Goes, Limits!TypeOK, AttemptType
<1>8. /\ \A k \in Limits!Keys : hits'[k] = IF k # key THEN pruned[k]
                                    ELSE IF ok THEN Append(left, a.at) ELSE left
      /\ hits' \in [Limits!Keys -> Seq(Limits!Times)]
    <2>1. Append(left, a.at) \in Seq(Limits!Times)
        BY <1>2, <1>6
    <2>2. QED
        BY <1>1, <1>3, <1>4, <1>6, <2>1
<1>9. /\ \A k \in Limits!Keys : granted'[k] = IF k = key /\ ok THEN Append(granted[k], a.at)
                                       ELSE granted[k]
      /\ granted' \in [Limits!Keys -> Seq(Limits!Times)]
    <2>1. Append(granted[key], a.at) \in Seq(Limits!Times)
        BY <1>0, <1>2, <1>3 DEF Limits!TypeOK
    <2>2. CASE ok
        BY <1>0, <1>1, <1>3, <2>1, <2>2 DEF Limits!TypeOK
    <2>3. CASE ~ok
        BY <1>0, <1>1, <2>3 DEF Limits!TypeOK
    <2>4. QED
        BY <2>2, <2>3
<1>10. Limits!TypeOK'
    <2>1. /\ last' \in [Limits!Limiters -> Limits!Times]
          /\ entered' \in [Limits!Limiters -> Limits!Times]
        BY <1>0, <1>1, <1>2 DEF Limits!TypeOK
    <2>2. tardy' \subseteq Limits!Limiters
        BY <1>0, <1>1 DEF Limits!TypeOK
    <2>3. QED
        BY <1>0, <1>1, <1>7, <1>8, <1>9, <2>1, <2>2 DEF Limits!TypeOK, AttemptType
<1>11. Keyed'
    BY <1>0, <1>1, <1>5, <1>7 DEF Keyed, Limits!Limiters
<1>12. ASSUME NEW k \in Limits!Keys, Limits!LimiterOf(k) \notin tardy'
       PROVE  Log(granted'[k], hits'[k], entered'[Limits!LimiterOf(k)], Limit[Limits!LimiterOf(k)])
    <2>1. Limits!LimiterOf(k) \notin tardy
        BY <1>1, <1>12
    <2>2. Log(granted[k], hits[k], entered[Limits!LimiterOf(k)], Limit[Limits!LimiterOf(k)])
        BY <1>0, <2>1 DEF Logs
    <2>3. CASE Limits!LimiterOf(k) # l
        <3>1. k # key /\ pruned[k] = hits[k]
            BY <1>1, <1>3, <1>4, <2>3, LimitsTypes
        <3>2. entered'[Limits!LimiterOf(k)] = entered[Limits!LimiterOf(k)]
            BY <1>0, <1>1, <2>3, LimitsTypes DEF Limits!TypeOK
        <3>3. QED
            BY <1>8, <1>9, <2>2, <3>1, <3>2
    <2>4. CASE Limits!LimiterOf(k) = l
        <3> DEFINE g == granted[k]
        <3> DEFINE h == hits[k]
        <3> DEFINE e == entered[l]
        <3> DEFINE n == Limit[l]
        <3> DEFINE at == a.at
        <3>1. /\ g \in Seq(Nat) /\ h \in Seq(Nat) /\ e \in Nat /\ n \in Nat \ {0} /\ at \in Nat
              /\ Window \in Nat /\ pruned[k] \in Seq(Nat) /\ left \in Seq(Nat)
            <4>1. \A s \in Seq(Limits!Times) : s \in Seq(Nat)
                BY LimitsTypes
            <4>2. QED
                BY <1>0, <1>1, <1>2, <1>4, <1>6, <4>1, LimitsTypes DEF Limits!TypeOK
        <3>2. e <= at /\ entered'[l] = at
            <4>1. ~(at < e)
                BY <1>1, <1>12, <2>4
            <4>2. e <= at
                BY <3>1, <4>1
            <4>3. entered'[l] = IF at > e THEN at ELSE e
                BY <1>0, <1>1, ZenonT(30) DEF Limits!TypeOK
            <4>4. at > e \/ at = e
                BY <3>1, <4>2
            <4>5. QED
                BY <4>2, <4>3, <4>4
        <3>3. Log(g, h, e, n)
            BY <2>2, <2>4
        <3> HIDE DEF g, h, e, n, at
        <3>4. Log(g, pruned[k], at, n)
            <4>1. CASE pruned[k] = h
                <5>1. Drops(h, h, 0, at)
                    BY <3>1 DEF Drops
                <5>2. Log(g, h, at, n)
                    BY <3>1, <3>2, <3>3, <5>1, Shrink
                <5>3. QED
                    BY <4>1, <5>2
            <4>2. CASE pruned[k] = << >> /\ (h # << >> => Limits!Before(h[Len(h)], at))
                <5>1. \A i \in 1..Len(h) : Limits!Before(h[i], at)
                    <6> SUFFICES ASSUME NEW i \in 1..Len(h) PROVE Limits!Before(h[i], at)
                        OBVIOUS
                    <6>1. h # << >> /\ Len(h) \in 1..Len(h) /\ Len(h) \in Nat /\ Len(g) \in Nat
                        BY <3>1
                    <6>2. /\ Len(g) - Len(h) + i \in 1..Len(g) /\ Len(g) \in 1..Len(g)
                          /\ Len(g) - Len(h) + i <= Len(g) /\ Len(g) - Len(h) + Len(h) = Len(g)
                        BY <3>3, <6>1 DEF Log
                    <6>3. h[i] <= h[Len(h)]
                        BY <3>3, <6>1, <6>2 DEF Log
                    <6>4. h[i] \in Nat /\ h[Len(h)] \in Nat
                        BY <3>1, <6>1
                    <6>5. QED
                        BY <3>1, <4>2, <6>1, <6>3, <6>4 DEF Limits!Before
                <5>2. Drops(h, pruned[k], Len(h), at)
                    BY <3>1, <4>2, <5>1 DEF Drops
                <5>3. QED
                    BY <3>1, <3>2, <3>3, <5>2, Shrink
            <4>3. QED
                BY <1>4, <4>1, <4>2 DEF h, at
        <3>5. CASE k # key
            BY <1>8, <1>9, <2>4, <3>2, <3>4, <3>5 DEF g, n
        <3>6. CASE k = key
            <4>1. Log(g, left, at, n)
                <5> DEFINE s == pruned[key]
                <5>1. s \in Seq(Nat) /\ Log(g, s, at, n)
                    BY <3>1, <3>4, <3>6
                <5>2. Drops(s, left, d, at)
                    BY <1>6 DEF Drops, at
                <5> HIDE DEF s
                <5>3. at <= at
                    BY <3>1
                <5>4. QED
                    BY <3>1, <5>1, <5>2, <5>3, Shrink
            <4>2. CASE ok
                <5>1. Len(left) < n
                    BY <4>2 DEF ok, n
                <5>2. Log(Append(g, at), Append(left, at), at, n)
                    BY <3>1, <4>1, <5>1, Grow
                <5>3. granted'[k] = Append(g, at) /\ hits'[k] = Append(left, at)
                    BY <1>8, <1>9, <3>6, <4>2 DEF g, at
                <5>4. QED
                    BY <2>4, <3>2, <5>2, <5>3 DEF n
            <4>3. CASE ~ok
                <5>1. granted'[k] = g /\ hits'[k] = left
                    BY <1>8, <1>9, <3>6, <4>3 DEF g
                <5>2. QED
                    BY <2>4, <3>2, <4>1, <5>1 DEF n
            <4>4. QED
                BY <4>2, <4>3
        <3>7. QED
            BY <3>5, <3>6
    <2>5. QED
        BY <2>3, <2>4
<1>14. QED
    BY <1>10, <1>11, <1>12 DEF LimitsInv, Logs

LEMMA LimitsStep ==
    Limits!LimiterAssumption /\ LimitsInv /\ [Limits!Next]_(Limits!limiterVars) => LimitsInv'
<1> SUFFICES ASSUME Limits!LimiterAssumption, LimitsInv, [Limits!Next]_(Limits!limiterVars)
             PROVE  LimitsInv'
    OBVIOUS
<1>1. CASE Limits!Tick
    <2>1. now' \in Limits!Times
        BY <1>1 DEF LimitsInv, Limits!TypeOK, Limits!Tick, Limits!Times, Limits!LimiterAssumption
    <2>2. QED
        BY <1>1, <2>1 DEF LimitsInv, Limits!TypeOK, Keyed, Logs, Limits!Tick
<1>2. ASSUME NEW r \in Handlers, NEW ip \in IPs, NEW phone \in Phones,
             NEW precheck \in BOOLEAN, Limits!Arrive(r, ip, phone, precheck)
      PROVE  LimitsInv'
    BY <1>2, ArriveStep
<1>3. ASSUME NEW r \in Handlers, Limits!Allow(r) PROVE LimitsInv'
    BY <1>3, AllowStep
<1>4. CASE UNCHANGED Limits!limiterVars
    BY <1>4 DEF Limits!limiterVars, LimitsInv, Limits!TypeOK, Keyed, Logs
<1>5. QED
    BY <1>1, <1>2, <1>3, <1>4 DEF Limits!Next

-------------------------------------------------------------------------------
\* The fields

\* An index of the range is stored as one more than itself, none as 0.
LEMMA StoredIndex ==
    ASSUME NEW width \in Nat \ {0}, NEW S \in SUBSET Int, NEW index \in Ota!Optional(S),
           \A x \in index : 0 <= x /\ x < width - 1
    PROVE  /\ Ota!Stored(index, width) \in 0..(width - 1)
           /\ Ota!Stored(index, width) = IF index = {} THEN 0
                                     ELSE (CHOOSE x \in index : TRUE) + 1
<1>1. CASE index = {}
    BY <1>1 DEF Ota!Stored
<1>2. CASE index # {}
    <2> DEFINE x == CHOOSE y \in index : TRUE
    <2>1. x \in index /\ x \in Int
        BY <1>2 DEF Ota!Optional
    <2> HIDE DEF x
    <2>2. 0 <= x /\ x < width - 1
        BY <2>1
    <2>3. (x + 1) % width = x + 1
        BY <2>1, <2>2
    <2>4. Ota!Stored(index, width) = x + 1
        BY <1>2, <2>3 DEF Ota!Stored, x
    <2>5. QED
        BY <1>2, <2>1, <2>2, <2>4 DEF x
<1>3. QED
    BY <1>1, <1>2

\* A byte that holds 128 and a field of seven bits.
LEMMA SevenBits ==
    ASSUME NEW f \in 0..127
    PROVE  Ota!Bits(128 + f, 128, 2) = 1 /\ Ota!Bits(128 + f, 1, 128) = f
<1>1. (128 + f) \div 128 = 1 /\ (128 + f) \div 1 = 128 + f
    OBVIOUS
<1>2. (128 + f) % 128 = f
    OBVIOUS
<1>3. QED
    BY <1>1, <1>2 DEF Ota!Bits

\* 128 and the group index, of four bits.
LEMMA GroupByte ==
    ASSUME NEW f \in 0..15
    PROVE  Ota!Bits(128 + f, 128, 2) = 1 /\ Ota!Bits(128 + f, 1, 16) = f
<1>1. (128 + f) \div 1 = 128 + f /\ (128 + f) % 16 = f
    OBVIOUS
<1>2. QED
    BY <1>1, SevenBits DEF Ota!Bits

\* 128, the first reserved bit and the fragment index, of five bits.
LEMMA FragmentByte ==
    ASSUME NEW f \in 0..31, NEW r \in {0, 1}
    PROVE  /\ Ota!Bits(128 + (f + 32 * r), 128, 2) = 1
           /\ Ota!Bits(128 + (f + 32 * r), 1, 32) = f
           /\ Ota!Bits(128 + (f + 32 * r), 32, 4) = r
<1>1. f + 32 * r \in 0..127
    OBVIOUS
<1>2. (128 + (f + 32 * r)) \div 1 = 128 + (f + 32 * r) /\ (128 + (f + 32 * r)) % 32 = f
    OBVIOUS
<1>3. (128 + (f + 32 * r)) \div 32 = 4 + r /\ (4 + r) % 4 = r
    OBVIOUS
<1>4. QED
    BY <1>1, <1>2, <1>3, SevenBits DEF Ota!Bits

\* The second reserved value, of six bits in one byte and eight in the next.
LEMMA ReservedBytes ==
    ASSUME NEW r \in Int, 0 <= r, r < 16384
    PROVE  /\ (r \div 256) % 64 \in 0..63
           /\ ((r \div 256) % 64) * 256 + (r % 256) = r
<1>1. r \div 256 \in 0..63
    OBVIOUS
<1>2. (r \div 256) % 64 = r \div 256
    BY <1>1
<1>3. (r \div 256) * 256 + (r % 256) = r
    OBVIOUS
<1>4. QED
    BY <1>1, <1>2, <1>3

-------------------------------------------------------------------------------
\* The identifier

OtaInv ==
    /\ asked \in Ota!Options
    /\ bytes # Ota!NoBytes => Ota!InRange(asked) /\ bytes = Ota!Layout(asked)

LEMMA LayoutReadsBack ==
    ASSUME Ota!OtaAssumption, OtaInv PROVE Ota!FieldsReadBack
<1> SUFFICES ASSUME bytes # Ota!NoBytes PROVE Ota!FieldsReadBack
    BY DEF Ota!FieldsReadBack
<1> DEFINE g == Ota!Stored(asked.groupIndex, 16)
           f == Ota!Stored(asked.fragmentIndex, 32)
           r1 == asked.reserved1
           r2 == asked.reserved2
<1>1. /\ asked \in Ota!Options /\ Ota!InRange(asked)
      /\ bytes = Ota!Layout(asked)
    BY DEF OtaInv
<1>2. /\ bytes[6] = 128 + g /\ bytes[8] = 128 + (f + 32 * r1)
      /\ bytes[14] = 128 + ((r2 \div 256) % 64) /\ bytes[15] = r2 % 256
    BY <1>1 DEF Ota!Layout
<1>0. /\ Indexes \in SUBSET Int /\ Reserveds \in SUBSET Int
      /\ asked.groupIndex \in Ota!Optional(Indexes)
      /\ asked.fragmentIndex \in Ota!Optional(Indexes)
      /\ \A gi \in asked.groupIndex : 0 <= gi /\ gi < 15
      /\ \A fi \in asked.fragmentIndex : 0 <= fi /\ fi < 31
    BY <1>1 DEF Ota!Options, Ota!InRange, Ota!OtaAssumption
<1>3. /\ g \in 0..15
      /\ g = IF asked.groupIndex = {} THEN 0 ELSE (CHOOSE x \in asked.groupIndex : TRUE) + 1
    BY <1>0, StoredIndex
<1>4. /\ f \in 0..31
      /\ f = IF asked.fragmentIndex = {} THEN 0
             ELSE (CHOOSE x \in asked.fragmentIndex : TRUE) + 1
    <2>1. \A fi \in asked.fragmentIndex : 0 <= fi /\ fi < 32 - 1
        BY <1>0
    <2>2. QED
        BY <1>0, <2>1, StoredIndex
<1>5. r1 \in {0, 1} /\ r2 \in Int /\ 0 <= r2 /\ r2 < 16384
    <2>1. asked.reserved2 \in Reserveds
        BY <1>1 DEF Ota!Options
    <2>2. /\ asked.reserved1 = 0 \/ asked.reserved1 = 1
          /\ 0 <= asked.reserved2 /\ asked.reserved2 < 16384
        BY <1>1 DEF Ota!InRange
    <2>3. asked.reserved2 \in Int
        BY <1>0, <2>1
    <2> HIDE DEF g, f
    <2>4. r1 \in {0, 1}
        BY <2>2
    <2>5. r2 \in Int /\ 0 <= r2 /\ r2 < 16384
        BY <2>2, <2>3
    <2>6. QED
        BY <2>4, <2>5
<1> HIDE DEF g, f, r1, r2
<1>6. Ota!Bits(bytes[6], 128, 2) = 1 /\ Ota!Bits(bytes[6], 1, 16) = g
    BY <1>2, <1>3, GroupByte
<1>7. /\ Ota!Bits(bytes[8], 128, 2) = 1 /\ Ota!Bits(bytes[8], 1, 32) = f
      /\ Ota!Bits(bytes[8], 32, 4) = r1
    BY <1>2, <1>4, <1>5, FragmentByte
<1>8. /\ (r2 \div 256) % 64 \in 0..63
      /\ ((r2 \div 256) % 64) * 256 + (r2 % 256) = r2
    BY <1>5, ReservedBytes
<1>9. /\ Ota!Bits(bytes[14], 128, 2) = 1
      /\ Ota!Bits(bytes[14], 1, 128) = (r2 \div 256) % 64
    <2>1. (r2 \div 256) % 64 \in 0..127
        BY <1>8
    <2>2. QED
        BY <1>2, <2>1, SevenBits
<1>10. Ota!Bits(bytes[14], 1, 128) * 256 + bytes[15] = r2
    BY <1>2, <1>8, <1>9
<1>11. QED
    BY <1>3, <1>4, <1>6, <1>7, <1>9, <1>10 DEF Ota!FieldsReadBack, r1, r2

LEMMA OtaSteps ==
    /\ Ota!Init => OtaInv
    /\ OtaInv /\ [Ota!Next]_(Ota!otaVars) => OtaInv'
BY DEF Ota!Init, Ota!Next, Ota!GenerateOTAUUID, Ota!otaVars, OtaInv

\* What a byte of an identifier holds is a byte.
LEMMA LayoutIsBytes ==
    ASSUME Ota!OtaAssumption, OtaInv PROVE Ota!TypeOK
<1> SUFFICES ASSUME bytes # Ota!NoBytes PROVE bytes \in [0..15 -> 0..255]
    BY DEF Ota!TypeOK, OtaInv, Ota!Byte
<1> DEFINE g == Ota!Stored(asked.groupIndex, 16)
           f == Ota!Stored(asked.fragmentIndex, 32)
           t == asked.timestamp
           r == asked.reserved2
<1>1. /\ asked \in Ota!Options /\ Ota!InRange(asked)
      /\ bytes = Ota!Layout(asked)
    BY DEF OtaInv
<1>0. /\ Indexes \in SUBSET Int
      /\ asked.groupIndex \in Ota!Optional(Indexes)
      /\ asked.fragmentIndex \in Ota!Optional(Indexes)
      /\ \A gi \in asked.groupIndex : 0 <= gi /\ gi < 15
      /\ \A fi \in asked.fragmentIndex : 0 <= fi /\ fi < 31
    BY <1>1 DEF Ota!Options, Ota!InRange, Ota!OtaAssumption
<1>2. /\ Randoms \in SUBSET [1..8 -> 0..255]
      /\ t \in Int /\ r \in Int /\ asked.reserved1 \in {0, 1}
      /\ asked.random \in Randoms
    BY <1>1 DEF Ota!Options, Ota!InRange, Ota!OtaAssumption
<1>3. g \in 0..15
    BY <1>0, StoredIndex
<1>4. /\ f \in 0..31
      /\ f = IF asked.fragmentIndex = {} THEN 0
             ELSE (CHOOSE x \in asked.fragmentIndex : TRUE) + 1
    <2>1. \A fi \in asked.fragmentIndex : 0 <= fi /\ fi < 32 - 1
        BY <1>0
    <2>2. QED
        BY <1>0, <2>1, StoredIndex
<1>5. \A i \in 1..8 : asked.random[i] \in 0..255
    BY <1>2
<1> HIDE DEF g, f, t, r
<1>6. \A x \in Int, n \in Nat \ {0} : /\ (x \div n) \in Int
                                    /\ x % 256 \in 0..255 /\ x % 64 \in 0..63
    OBVIOUS
<1>7. /\ bytes = [i \in 0..15 |-> bytes[i]]
      /\ bytes[0] = (t \div 16777216) % 256
      /\ bytes[1] = (t \div 65536) % 256
      /\ bytes[2] = (t \div 256) % 256
      /\ bytes[3] = t % 256
    BY <1>1, SMT DEF Ota!Layout, t
<1>8. /\ bytes[4] = asked.random[1] /\ bytes[5] = asked.random[2]
      /\ bytes[6] = 128 + g
      /\ bytes[7] = asked.random[3]
      /\ bytes[8] = 128 + (f + 32 * asked.reserved1)
      /\ \A i \in 9..13 : bytes[i] = asked.random[i - 5]
    BY <1>1, SMT DEF Ota!Layout, g, f
<1>9. bytes[14] = 128 + ((r \div 256) % 64) /\ bytes[15] = r % 256
    BY <1>1, SMT DEF Ota!Layout, r
<1>10. /\ \A i \in 0..3 : bytes[i] \in 0..255
       /\ bytes[15] \in 0..255
    BY <1>2, <1>6, <1>7, <1>9, SMT
<1>11. \A i \in {4, 5, 7} \cup 9..13 : bytes[i] \in 0..255
    BY <1>5, <1>8
<1>12. bytes[6] \in 0..255 /\ bytes[8] \in 0..255
    BY <1>2, <1>3, <1>4, <1>8
<1>13. bytes[14] \in 0..255
    BY <1>2, <1>6, <1>9
<1>14. \A i \in 0..15 : i \in 0..3 \/ i \in {4, 5, 7} \cup 9..13 \/ i \in {6, 8, 14, 15}
    OBVIOUS
<1>15. \A i \in 0..15 : bytes[i] \in 0..255
    BY <1>10, <1>11, <1>12, <1>13, <1>14
<1>16. QED
    BY <1>7, <1>15, SMT

-------------------------------------------------------------------------------
\* NtfyPrefs: types

SetterType == [phase : {"idle", "set", "built", "writing"},
               account : Ntfy!Accounts \cup {Ntfy!None},
               field : {"enabled", "fullText"}, prefs : Ntfy!Prefs]

LEMMA PrefsTypes ==
    /\ Ntfy!NoPrefs \in Ntfy!Prefs /\ Ntfy!None = None
    /\ Ntfy!Resting \in SetterType /\ Ntfy!Resting.phase = "idle"
    /\ Ntfy!NoLogin \in [active : BOOLEAN, prefs : Ntfy!Prefs] /\ ~Ntfy!NoLogin.active
<1>1. Ntfy!NoPrefs \in Ntfy!Prefs
    BY DEF Ntfy!NoPrefs, Ntfy!Prefs, Ntfy!FullTexts
<1>2. QED
    BY <1>1 DEF Ntfy!None, None, Ntfy!Resting, SetterType, Ntfy!NoLogin

\* A record of the settings is what its two fields are.
LEMMA TwoFields ==
    ASSUME NEW p \in Ntfy!Prefs, NEW q \in Ntfy!Prefs,
           p.enabled = q.enabled, p.fullText = q.fullText
    PROVE  p = q
BY DEF Ntfy!Prefs

\* With sets one field, and keeps the other.
LEMMA WithField ==
    ASSUME NEW p \in Ntfy!Prefs, NEW field \in {"enabled", "fullText"},
           NEW v \in Ntfy!ValuesOf(field)
    PROVE  /\ Ntfy!With(p, field, v) \in Ntfy!Prefs
           /\ field = "enabled" => /\ Ntfy!With(p, field, v).enabled = v
                                   /\ Ntfy!With(p, field, v).fullText = p.fullText
           /\ field = "fullText" => /\ Ntfy!With(p, field, v).fullText = v
                                    /\ Ntfy!With(p, field, v).enabled = p.enabled
<1>1. CASE field = "enabled"
    BY <1>1 DEF Ntfy!With, Ntfy!Prefs, Ntfy!ValuesOf
<1>2. CASE field = "fullText"
    BY <1>2 DEF Ntfy!With, Ntfy!Prefs, Ntfy!ValuesOf
<1>3. QED
    BY <1>1, <1>2


\* What the file says is settings.
LEMMA LoadType == Ntfy!TypeOK => Ntfy!Load \in Ntfy!Prefs
BY PrefsTypes DEF Ntfy!TypeOK, Ntfy!Load

\* A handler's step leaves the others alone.
LEMMA SetterKept ==
    ASSUME Ntfy!TypeOK, NEW h \in Handlers, NEW r \in SetterType, Ntfy!Does(h, r)
    PROVE  /\ setter' \in [Handlers -> SetterType]
           /\ \A k \in Handlers : setter'[k] = IF k = h THEN r ELSE setter[k]
BY DEF Ntfy!TypeOK, Ntfy!Does, SetterType

-------------------------------------------------------------------------------
\* NtfyPrefs: the inductive invariant

\* A handler at work has an account, and a login that will make one has room for it.
Works ==
    /\ \A h \in Handlers : setter[h].phase # "idle" => setter[h].account # None
    /\ login.active /\ current = None => made < MaxAccounts

\* Before the first start nothing has happened, and the flag is what the user wants.
BeforeStart ==
    boots = 0 => /\ current = None /\ entry = "none" /\ ~login.active
                 /\ \A h \in Handlers : setter[h].phase = "idle"
                 /\ wish.fullText = "default" /\ (wish.enabled <=> carried = "on")

\* While no mixup but FileOnly has happened the account has what the user wants,
\* and so has a login; handlers at work have that account, and no login with them.
AccountFollows ==
    mixups \subseteq Ntfy!FileOnly =>
        /\ current # None => memory[current] = wish
        /\ login.active => login.prefs = wish /\ Ntfy!Busy = {}
        /\ \A h \in Ntfy!Busy : current # None /\ setter[h].account = current
        /\ told.kind # "none" =>
              told.wished.enabled /\ (told.kind = "text" <=> Ntfy!Effective(told.wished))

\* The record that a handler saves has what the user wants of its own setting...
OwnField(r, w) ==
    /\ r.field = "enabled" => r.prefs.enabled = w.enabled
    /\ r.field = "fullText" => r.prefs.fullText = w.fullText

\* ...and once it is built of both; while no mixup has happened one handler at
\* most is at work, and the file follows when it is done.
FileFollows ==
    mixups = {} =>
        /\ \A h, k \in Ntfy!Busy : h = k
        /\ \A h \in Handlers : setter[h].phase = "set" => OwnField(setter[h], wish)
        /\ \A h \in Handlers : setter[h].phase \in {"built", "writing"} =>
                                  setter[h].prefs = wish
        /\ Ntfy!Busy = {} /\ boots > 0 => Ntfy!Load = wish

NtfyInv == Ntfy!TypeOK /\ Works /\ BeforeStart /\ AccountFollows /\ FileFollows

LEMMA NtfyInit == Ntfy!NtfyAssumption /\ Ntfy!Init => NtfyInv
<1> SUFFICES ASSUME Ntfy!NtfyAssumption, Ntfy!Init PROVE NtfyInv
    OBVIOUS
<1>1. /\ wish \in Ntfy!Prefs /\ wish.fullText = "default" /\ wish.enabled = (carried = "on")
    BY DEF Ntfy!Init, Ntfy!NoPrefs, Ntfy!Prefs, Ntfy!FullTexts
<1>2. Ntfy!Silence \in [kind : {"none", "generic", "text"}, wished : Ntfy!Prefs]
      /\ Ntfy!Silence.kind = "none"
    BY PrefsTypes DEF Ntfy!Silence
<1>3. 0 \in 0..MaxAccounts /\ 0 \in 0..MaxChanges /\ 0 \in 0..MaxBoots
    BY DEF Ntfy!NtfyAssumption
<1>4. Ntfy!TypeOK
    BY <1>1, <1>2, <1>3, PrefsTypes, Zenon DEF Ntfy!Init, Ntfy!TypeOK, SetterType
<1>5. \A h \in Handlers : setter[h].phase = "idle"
    BY PrefsTypes DEF Ntfy!Init
<1>6. current = None /\ ~login.active /\ entry = "none" /\ boots = 0
    BY PrefsTypes DEF Ntfy!Init
<1>7. Ntfy!Busy = {}
    BY <1>5 DEF Ntfy!Busy
<1>8. Works /\ BeforeStart
    BY <1>1, <1>5, <1>6 DEF Works, BeforeStart
<1>9. AccountFollows /\ FileFollows
    BY <1>2, <1>5, <1>6, <1>7 DEF Ntfy!Init, AccountFollows, FileFollows
<1>10. QED
    BY <1>4, <1>8, <1>9 DEF NtfyInv


\* What has been told stays right.
ToldRight ==
    told.kind # "none" =>
        told.wished.enabled /\ (told.kind = "text" <=> Ntfy!Effective(told.wished))

LEMMA ToldKept ==
    ASSUME ToldRight, UNCHANGED <<told, fullMessage>> PROVE ToldRight'
BY DEF ToldRight, Ntfy!Effective

-------------------------------------------------------------------------------
\* NtfyPrefs: the handlers

LEMMA SetFieldStep ==
    ASSUME NtfyInv, Ntfy!NtfyAssumption, NEW h \in Handlers, NEW field \in {"enabled", "fullText"},
           NEW v \in Ntfy!ValuesOf(field), Ntfy!SetField(h, field, v)
    PROVE  NtfyInv'
<1> DEFINE p == Ntfy!With(Ntfy!NoPrefs, field, v)
           m == Ntfy!With(memory[current], field, v)
           w == Ntfy!With(wish, field, v)
           r == [phase |-> "set", account |-> current, field |-> field, prefs |-> p]
<1>0. Ntfy!TypeOK /\ Works /\ BeforeStart /\ AccountFollows /\ FileFollows
    BY DEF NtfyInv
<1>1. /\ setter[h].phase = "idle" /\ current # None /\ changes < MaxChanges
      /\ changes' = changes + 1
      /\ memory' = [memory EXCEPT ![current] = m] /\ wish' = w
      /\ Ntfy!Does(h, r)
      /\ mixups' = mixups \cup (IF Ntfy!Busy # {} THEN {"twoChanges"} ELSE {})
                          \cup (IF login.active THEN {"overlap"} ELSE {})
      /\ UNCHANGED <<fullMessage, current, made, entry, stored, carried, login, told, boots>>
    BY DEF Ntfy!SetField, Ntfy!None, None, Ntfy!diskVars
<1>2. current \in Ntfy!Accounts /\ memory[current] \in Ntfy!Prefs /\ wish \in Ntfy!Prefs
    BY <1>0, <1>1, PrefsTypes DEF Ntfy!TypeOK
<1>3. /\ p \in Ntfy!Prefs /\ m \in Ntfy!Prefs /\ w \in Ntfy!Prefs
      /\ field = "enabled" => p.enabled = v /\ w.enabled = v
      /\ field = "fullText" => p.fullText = v /\ w.fullText = v
    BY <1>2, PrefsTypes, WithField
<1> HIDE DEF p, m, w
<1>4. /\ r \in SetterType /\ r.phase = "set" /\ r.account = current /\ r.field = field
      /\ r.prefs = p
    BY <1>2, <1>3 DEF SetterType
<1> HIDE DEF r
<1>5. /\ setter' \in [Handlers -> SetterType]
      /\ \A k \in Handlers : setter'[k] = IF k = h THEN r ELSE setter[k]
    BY <1>0, <1>1, <1>4, SetterKept
<1>6. Ntfy!TypeOK'
    <2>1. changes' \in 0..MaxChanges
        BY <1>0, <1>1 DEF Ntfy!TypeOK, Ntfy!NtfyAssumption
    <2>2. memory' \in [Ntfy!Accounts -> Ntfy!Prefs] /\ wish' \in Ntfy!Prefs
        BY <1>0, <1>1, <1>2, <1>3 DEF Ntfy!TypeOK
    <2>3. mixups' \subseteq {"twoChanges", "overlap", "reverted", "io", "crash",
                             "staleFlag", "lostFlag"}
        BY <1>0, <1>1 DEF Ntfy!TypeOK
    <2>4. QED
        BY <1>0, <1>1, <1>5, <2>1, <2>2, <2>3 DEF Ntfy!TypeOK, SetterType
<1>7. Works'
    BY <1>0, <1>1, <1>4, <1>5 DEF Works
<1>8. BeforeStart'
    BY <1>0, <1>1 DEF BeforeStart
<1>9. Ntfy!Busy' = Ntfy!Busy \cup {h}
    BY <1>1, <1>4, <1>5 DEF Ntfy!Busy
<1>10. ASSUME mixups' \subseteq Ntfy!FileOnly
       PROVE  /\ mixups \subseteq Ntfy!FileOnly /\ ~login.active
              /\ memory[current] = wish
    BY <1>0, <1>1, <1>10 DEF Ntfy!FileOnly, AccountFollows
<1>11. AccountFollows'
    <2> SUFFICES ASSUME mixups' \subseteq Ntfy!FileOnly PROVE AccountFollows'
        BY DEF AccountFollows, Ntfy!FileOnly
    <2>0. /\ mixups \subseteq Ntfy!FileOnly /\ ~login.active /\ memory[current] = wish
          /\ \A k \in Ntfy!Busy : setter[k].account = current
          /\ ToldRight
        BY <1>0, <1>10 DEF AccountFollows, ToldRight
    <2>1. memory'[current'] = wish'
        BY <1>0, <1>1, <1>2, <2>0 DEF m, w, Ntfy!TypeOK
    <2>2. \A k \in Ntfy!Busy' : current' # None /\ setter'[k].account = current'
        <3>1. \A k \in Ntfy!Busy' : k # h => k \in Ntfy!Busy /\ k \in Handlers
            BY <1>9 DEF Ntfy!Busy
        <3>2. QED
            BY <1>1, <1>4, <1>5, <1>9, <2>0, <3>1
    <2>3. ToldRight'
        BY <1>1, <2>0, ToldKept
    <2>4. QED
        BY <1>1, <2>0, <2>1, <2>2, <2>3 DEF AccountFollows, ToldRight
<1>12. FileFollows'
    <2> SUFFICES ASSUME mixups' = {} PROVE FileFollows'
        BY DEF FileFollows
    <2>1. Ntfy!Busy = {}
        BY <1>1
    <2>2. \A k \in Handlers : k # h => setter'[k].phase = "idle"
        BY <1>5, <2>1 DEF Ntfy!Busy
    <2>3. OwnField(setter'[h], wish')
        BY <1>1, <1>3, <1>4, <1>5 DEF OwnField
    <2>4. \A k \in Handlers : setter'[k].phase = "set" => OwnField(setter'[k], wish')
        BY <1>5, <2>2, <2>3
    <2>5. setter'[h].phase = "set"
        BY <1>4, <1>5
    <2>6. QED
        BY <1>9, <2>1, <2>2, <2>4, <2>5 DEF FileFollows
<1>13. QED
    BY <1>6, <1>7, <1>8, <1>11, <1>12 DEF NtfyInv


\* A step of a handler at work that touches at most the file: all but what the file says.
LEMMA ServeKept ==
    ASSUME NtfyInv, NEW h \in Handlers, NEW r \in SetterType, Ntfy!Does(h, r),
           setter[h].phase # "idle", r.phase = "idle" \/ r.account = setter[h].account,
           mixups \subseteq mixups', mixups' \subseteq mixups \cup {"io"},
           entry' \in {"none", "torn", "whole"}, stored' \in Ntfy!Prefs,
           UNCHANGED <<fullMessage, current, made, memory, carried, login, wish, told, changes,
                       boots>>
    PROVE  /\ Ntfy!TypeOK' /\ Works' /\ BeforeStart' /\ AccountFollows'
           /\ setter' \in [Handlers -> SetterType]
           /\ \A k \in Handlers : setter'[k] = IF k = h THEN r ELSE setter[k]
           /\ boots # 0
<1>0. Ntfy!TypeOK /\ Works /\ BeforeStart /\ AccountFollows
    BY DEF NtfyInv
<1>1. /\ setter' \in [Handlers -> SetterType]
      /\ \A k \in Handlers : setter'[k] = IF k = h THEN r ELSE setter[k]
    BY <1>0, SetterKept
<1>2. boots # 0
    BY <1>0 DEF BeforeStart
<1>3. Ntfy!TypeOK'
    <2>1. mixups' \subseteq {"twoChanges", "overlap", "reverted", "io", "crash",
                             "staleFlag", "lostFlag"}
        BY <1>0 DEF Ntfy!TypeOK
    <2>2. QED
        BY <1>0, <1>1, <2>1 DEF Ntfy!TypeOK, SetterType
<1>4. Works'
    BY <1>0, <1>1 DEF Works
<1>5. BeforeStart'
    BY <1>2 DEF BeforeStart
<1>6. AccountFollows'
    <2> SUFFICES ASSUME mixups' \subseteq Ntfy!FileOnly PROVE AccountFollows'
        BY DEF AccountFollows, Ntfy!FileOnly
    <2>1. mixups \subseteq Ntfy!FileOnly
        OBVIOUS
    <2>2. /\ current # None => memory[current] = wish
          /\ login.active => login.prefs = wish /\ Ntfy!Busy = {}
          /\ \A k \in Ntfy!Busy : current # None /\ setter[k].account = current
          /\ ToldRight
        BY <1>0, <2>1 DEF AccountFollows, ToldRight
    <2>3. \A k \in Ntfy!Busy' : /\ k \in Ntfy!Busy
                               /\ setter'[k].account = setter[k].account
        BY <1>1 DEF Ntfy!Busy
    <2>4. ToldRight'
        BY <2>2, ToldKept
    <2>5. login'.active => login'.prefs = wish' /\ Ntfy!Busy' = {}
        BY <2>2, <2>3
    <2>6. \A k \in Ntfy!Busy' : current' # None /\ setter'[k].account = current'
        BY <2>2, <2>3
    <2>7. current' # None => memory'[current'] = wish'
        BY <2>2
    <2>8. QED
        BY <2>4, <2>5, <2>6, <2>7 DEF AccountFollows, ToldRight
<1>7. QED
    BY <1>1, <1>2, <1>3, <1>4, <1>5, <1>6

LEMMA BuildStep ==
    ASSUME NtfyInv, NEW h \in Handlers, Ntfy!Build(h) PROVE NtfyInv'
<1> DEFINE a == setter[h].account
           f == setter[h].field
           other == IF f = "enabled" THEN "fullText" ELSE "enabled"
           p == Ntfy!With(setter[h].prefs, other, memory[a][other])
           r == [setter[h] EXCEPT !.phase = "built", !.prefs = p]
<1>0. Ntfy!TypeOK /\ Works /\ AccountFollows /\ FileFollows
    BY DEF NtfyInv
<1>1. /\ setter[h].phase = "set" /\ Ntfy!Does(h, r)
      /\ UNCHANGED <<fullMessage, current, made, memory, entry, stored, carried, login, wish,
                     told, changes, boots, mixups>>
    BY DEF Ntfy!Build, Ntfy!memoryVars, Ntfy!diskVars, Ntfy!histories
<1>2. setter[h] \in SetterType /\ memory \in [Ntfy!Accounts -> Ntfy!Prefs]
    BY <1>0 DEF Ntfy!TypeOK, SetterType
<1>3. a \in Ntfy!Accounts
    BY <1>0, <1>1, <1>2, PrefsTypes DEF Works, SetterType
<1>4. /\ memory[a] \in Ntfy!Prefs /\ setter[h].prefs \in Ntfy!Prefs
      /\ f \in {"enabled", "fullText"}
    BY <1>2, <1>3 DEF SetterType
<1>5. memory[a][other] \in Ntfy!ValuesOf(other) /\ other \in {"enabled", "fullText"}
    BY <1>4 DEF Ntfy!Prefs, Ntfy!ValuesOf
<1>6. /\ p \in Ntfy!Prefs
      /\ f = "enabled" => p.fullText = memory[a].fullText
                          /\ p.enabled = setter[h].prefs.enabled
      /\ f = "fullText" => p.enabled = memory[a].enabled
                           /\ p.fullText = setter[h].prefs.fullText
    BY <1>4, <1>5, WithField
<1> HIDE DEF p
<1>7. r \in SetterType /\ r.phase = "built" /\ r.account = a /\ r.prefs = p
    BY <1>2, <1>6 DEF SetterType
<1> HIDE DEF r, a, f
<1>8. /\ Ntfy!TypeOK' /\ Works' /\ BeforeStart' /\ AccountFollows'
      /\ \A k \in Handlers : setter'[k] = IF k = h THEN r ELSE setter[k]
    <2>1. entry \in {"none", "torn", "whole"} /\ stored \in Ntfy!Prefs
        BY <1>0 DEF Ntfy!TypeOK
    <2>2. r.account = setter[h].account
        BY <1>7 DEF a
    <2>3. QED
        BY <1>1, <1>7, <2>1, <2>2, ServeKept
<1>9. FileFollows'
    <2> SUFFICES ASSUME mixups' = {} PROVE FileFollows'
        BY DEF FileFollows
    <2>1. Ntfy!Busy' = Ntfy!Busy /\ h \in Ntfy!Busy
        BY <1>1, <1>7, <1>8 DEF Ntfy!Busy
    <2>2. /\ \A j, k \in Ntfy!Busy : j = k
          /\ OwnField(setter[h], wish)
          /\ a = current /\ memory[a] = wish
        <3>1. mixups = {} /\ mixups \subseteq Ntfy!FileOnly
            BY <1>1
        <3>2. current # None /\ a = current /\ memory[current] = wish
            BY <1>0, <2>1, <3>1 DEF AccountFollows, a
        <3>3. QED
            BY <1>0, <1>1, <3>1, <3>2 DEF FileFollows
    <2>3. p = wish
        <3>1. wish \in Ntfy!Prefs
            BY <1>0 DEF Ntfy!TypeOK
        <3>2. p.enabled = wish.enabled /\ p.fullText = wish.fullText
            BY <1>4, <1>6, <2>2 DEF OwnField, f
        <3>3. QED
            BY <1>6, <3>1, <3>2, TwoFields
    <2>4. \A k \in Handlers : k # h => setter'[k].phase = "idle"
        BY <1>8, <2>1, <2>2 DEF Ntfy!Busy
    <2>5. setter'[h].phase = "built" /\ setter'[h].prefs = wish'
        BY <1>1, <1>7, <1>8, <2>3
    <2>6. QED
        BY <2>1, <2>2, <2>4, <2>5 DEF FileFollows
<1>10. QED
    BY <1>8, <1>9 DEF NtfyInv


LEMMA BeginSaveStep ==
    ASSUME NtfyInv, NEW h \in Handlers, Ntfy!BeginSave(h) PROVE NtfyInv'
<1> DEFINE r == [setter[h] EXCEPT !.phase = "writing"]
<1>0. Ntfy!TypeOK /\ FileFollows
    BY DEF NtfyInv
<1>1. /\ setter[h].phase = "built" /\ Ntfy!Does(h, r) /\ entry' = "torn"
      /\ UNCHANGED <<fullMessage, current, made, memory, stored, carried, login, wish,
                     told, changes, boots, mixups>>
    BY DEF Ntfy!BeginSave, Ntfy!memoryVars, Ntfy!histories
<1>2. setter[h] \in SetterType
    BY <1>0 DEF Ntfy!TypeOK, SetterType
<1>3. /\ r \in SetterType /\ r.phase = "writing" /\ r.account = setter[h].account
      /\ r.prefs = setter[h].prefs
    BY <1>2 DEF SetterType
<1> HIDE DEF r
<1>4. /\ Ntfy!TypeOK' /\ Works' /\ BeforeStart' /\ AccountFollows'
      /\ \A k \in Handlers : setter'[k] = IF k = h THEN r ELSE setter[k]
    <2>1. entry' \in {"none", "torn", "whole"} /\ stored' \in Ntfy!Prefs
        BY <1>0, <1>1 DEF Ntfy!TypeOK
    <2>2. QED
        BY <1>1, <1>3, <2>1, ServeKept
<1>5. FileFollows'
    <2> SUFFICES ASSUME mixups' = {} PROVE FileFollows'
        BY DEF FileFollows
    <2>1. Ntfy!Busy' = Ntfy!Busy /\ h \in Ntfy!Busy
        BY <1>1, <1>3, <1>4 DEF Ntfy!Busy
    <2>2. (\A j, k \in Ntfy!Busy : j = k) /\ setter[h].prefs = wish
        BY <1>0, <1>1 DEF FileFollows
    <2>3. \A k \in Handlers : k # h => setter'[k].phase = "idle"
        BY <1>4, <2>1, <2>2 DEF Ntfy!Busy
    <2>4. setter'[h].phase = "writing" /\ setter'[h].prefs = wish'
        BY <1>1, <1>3, <1>4, <2>2
    <2>5. QED
        BY <2>1, <2>2, <2>3, <2>4 DEF FileFollows
<1>6. QED
    BY <1>4, <1>5 DEF NtfyInv

LEMMA EndSaveStep ==
    ASSUME NtfyInv, NEW h \in Handlers, Ntfy!EndSave(h) PROVE NtfyInv'
<1>0. Ntfy!TypeOK /\ FileFollows
    BY DEF NtfyInv
<1>1. /\ setter[h].phase = "writing" /\ Ntfy!Does(h, Ntfy!Resting)
      /\ entry' = "whole" /\ stored' = setter[h].prefs
      /\ UNCHANGED <<fullMessage, current, made, memory, carried, login, wish,
                     told, changes, boots, mixups>>
    BY DEF Ntfy!EndSave, Ntfy!memoryVars, Ntfy!histories
<1>2. setter[h].prefs \in Ntfy!Prefs
    BY <1>0 DEF Ntfy!TypeOK
<1>3. /\ Ntfy!TypeOK' /\ Works' /\ BeforeStart' /\ AccountFollows'
      /\ \A k \in Handlers : setter'[k] = IF k = h THEN Ntfy!Resting ELSE setter[k]
    BY <1>1, <1>2, PrefsTypes, ServeKept
<1>4. FileFollows'
    <2> SUFFICES ASSUME mixups' = {} PROVE FileFollows'
        BY DEF FileFollows
    <2>1. h \in Ntfy!Busy
        BY <1>1 DEF Ntfy!Busy
    <2>2. (\A j, k \in Ntfy!Busy : j = k) /\ setter[h].prefs = wish
        BY <1>0, <1>1 DEF FileFollows
    <2>3. \A k \in Handlers : setter'[k].phase = "idle"
        BY <1>3, <2>1, <2>2, PrefsTypes DEF Ntfy!Busy
    <2>4. Ntfy!Busy' = {}
        BY <2>3 DEF Ntfy!Busy
    <2>5. Ntfy!Load' = wish'
        BY <1>1, <2>2 DEF Ntfy!Load
    <2>6. QED
        BY <2>3, <2>4, <2>5 DEF FileFollows
<1>5. QED
    BY <1>3, <1>4 DEF NtfyInv

LEMMA SaveFailsStep ==
    ASSUME NtfyInv, NEW h \in Handlers, Ntfy!SaveFails(h) PROVE NtfyInv'
<1>0. Ntfy!TypeOK
    BY DEF NtfyInv
<1>1. /\ setter[h].phase # "idle" /\ Ntfy!Does(h, Ntfy!Resting) /\ mixups' = mixups \cup {"io"}
      /\ UNCHANGED <<fullMessage, current, made, memory, entry, stored, carried, login, wish,
                     told, changes, boots>>
    BY DEF Ntfy!SaveFails, Ntfy!memoryVars, Ntfy!diskVars
<1>2. entry' \in {"none", "torn", "whole"} /\ stored' \in Ntfy!Prefs
    BY <1>0, <1>1 DEF Ntfy!TypeOK
<1>3. Ntfy!TypeOK' /\ Works' /\ BeforeStart' /\ AccountFollows'
    BY <1>1, <1>2, PrefsTypes, ServeKept
<1>4. FileFollows'
    BY <1>1 DEF FileFollows
<1>5. QED
    BY <1>3, <1>4 DEF NtfyInv

-------------------------------------------------------------------------------
\* NtfyPrefs: messages, logins and logouts

LEMMA NotifyStep ==
    ASSUME NtfyInv, NEW own \in BOOLEAN, Ntfy!Notify(own) PROVE NtfyInv'
<1>0. Ntfy!TypeOK /\ Works /\ BeforeStart /\ AccountFollows /\ FileFollows
    BY DEF NtfyInv
<1>1. /\ current # None /\ memory[current].enabled
      /\ told' = [kind |-> IF Ntfy!Effective(memory[current]) THEN "text" ELSE "generic",
                  wished |-> wish]
      /\ UNCHANGED <<fullMessage, current, made, memory, entry, stored, carried, setter, login,
                     wish, changes, boots, mixups>>
    BY DEF Ntfy!Notify, Ntfy!None, None, Ntfy!memoryVars, Ntfy!diskVars
<1>2. told'.kind = IF Ntfy!Effective(memory[current]) THEN "text" ELSE "generic"
    BY <1>1
<1>3. told'.wished = wish
    BY <1>1
<1>4. Ntfy!TypeOK'
    BY <1>0, <1>1 DEF Ntfy!TypeOK
<1>5. Works' /\ BeforeStart'
    BY <1>0, <1>1 DEF Works, BeforeStart
<1>6. AccountFollows'
    <2> SUFFICES ASSUME mixups \subseteq Ntfy!FileOnly PROVE AccountFollows'
        BY <1>1 DEF AccountFollows, Ntfy!FileOnly
    <2>1. memory[current] = wish
        BY <1>0, <1>1 DEF AccountFollows
    <2>2. ToldRight'
        BY <1>1, <1>2, <1>3, <2>1 DEF ToldRight, Ntfy!Effective
    <2>3. /\ current' # None => memory'[current'] = wish'
          /\ login'.active => login'.prefs = wish' /\ Ntfy!Busy' = {}
          /\ \A k \in Ntfy!Busy' : current' # None /\ setter'[k].account = current'
        BY <1>0, <1>1 DEF AccountFollows, Ntfy!Busy
    <2>4. QED
        BY <2>2, <2>3 DEF AccountFollows, ToldRight
<1>7. FileFollows'
    BY <1>0, <1>1 DEF FileFollows, Ntfy!Busy, Ntfy!Load
<1>8. QED
    BY <1>4, <1>5, <1>6, <1>7 DEF NtfyInv

LEMMA PersistStep ==
    ASSUME NtfyInv, Ntfy!Persist PROVE NtfyInv'
<1>0. Ntfy!TypeOK /\ Works /\ BeforeStart /\ AccountFollows /\ FileFollows
    BY DEF NtfyInv
<1>1. /\ current # None /\ carried' \in {"on", "off"}
      /\ UNCHANGED <<fullMessage, current, made, memory, entry, stored, setter, login,
                     wish, told, changes, boots, mixups>>
    BY DEF Ntfy!Persist, Ntfy!None, None, Ntfy!memoryVars, Ntfy!histories
<1>2. Ntfy!TypeOK'
    BY <1>0, <1>1 DEF Ntfy!TypeOK
<1>3. Works' /\ BeforeStart'
    BY <1>0, <1>1 DEF Works, BeforeStart
<1>4. AccountFollows' /\ FileFollows'
    BY <1>0, <1>1 DEF AccountFollows, FileFollows, Ntfy!Busy, Ntfy!Load, Ntfy!Effective,
                      Ntfy!FileOnly
<1>5. QED
    BY <1>2, <1>3, <1>4 DEF NtfyInv


LEMMA LoginLoadsStep ==
    ASSUME NtfyInv, Ntfy!LoginLoads PROVE NtfyInv'
<1>0. Ntfy!TypeOK /\ Works /\ BeforeStart /\ AccountFollows /\ FileFollows
    BY DEF NtfyInv
<1>1. /\ boots > 0 /\ ~login.active
      /\ current = None => made < MaxAccounts
      /\ login' = [active |-> TRUE, prefs |-> Ntfy!Load]
      /\ mixups' = mixups \cup (IF Ntfy!Busy # {} THEN {"overlap"} ELSE {}) \cup Ntfy!Misled
      /\ UNCHANGED <<fullMessage, current, made, memory, entry, stored, carried, setter,
                     wish, told, changes, boots>>
    BY DEF Ntfy!LoginLoads, Ntfy!None, None, Ntfy!memoryVars, Ntfy!diskVars
<1>2. Ntfy!Load \in Ntfy!Prefs
    BY <1>0, LoadType
<1>3. login'.active /\ login'.prefs = Ntfy!Load
    BY <1>1
<1>4. Ntfy!TypeOK'
    <2>1. Ntfy!Misled \subseteq {"reverted"}
        BY DEF Ntfy!Misled
    <2>2. mixups' \subseteq {"twoChanges", "overlap", "reverted", "io", "crash",
                             "staleFlag", "lostFlag"}
        BY <1>0, <1>1, <2>1 DEF Ntfy!TypeOK
    <2>3. login' \in [active : BOOLEAN, prefs : Ntfy!Prefs]
        BY <1>1, <1>2
    <2>4. QED
        BY <1>0, <1>1, <2>2, <2>3 DEF Ntfy!TypeOK
<1>5. Works' /\ BeforeStart'
    <2>1. boots # 0
        BY <1>0, <1>1 DEF Ntfy!TypeOK
    <2>2. QED
        BY <1>0, <1>1, <2>1 DEF Works, BeforeStart
<1>6. Ntfy!Busy' = Ntfy!Busy /\ Ntfy!Load' = Ntfy!Load
    BY <1>1 DEF Ntfy!Busy, Ntfy!Load
<1>7. AccountFollows'
    <2> SUFFICES ASSUME mixups' \subseteq Ntfy!FileOnly PROVE AccountFollows'
        BY DEF AccountFollows, Ntfy!FileOnly
    <2>1. mixups \subseteq Ntfy!FileOnly /\ Ntfy!Busy = {}
        BY <1>1 DEF Ntfy!FileOnly
    <2>2. Ntfy!Misled = {}
        <3>1. "reverted" \notin mixups'
            BY DEF Ntfy!FileOnly
        <3>2. QED
            BY <1>1, <3>1 DEF Ntfy!Misled
    <2>3. Ntfy!Load = wish
        <3>1. CASE mixups \cap Ntfy!FileOnly # {}
            BY <2>2, <3>1 DEF Ntfy!Misled
        <3>2. CASE mixups \cap Ntfy!FileOnly = {}
            BY <1>0, <1>1, <2>1, <3>2 DEF FileFollows
        <3>3. QED
            BY <3>1, <3>2
    <2>4. (current # None => memory[current] = wish) /\ ToldRight
        BY <1>0, <2>1 DEF AccountFollows, ToldRight
    <2>5. ToldRight'
        BY <1>1, <2>4, ToldKept
    <2>6. QED
        BY <1>1, <1>3, <1>6, <2>1, <2>3, <2>4, <2>5 DEF AccountFollows, ToldRight
<1>8. FileFollows'
    <2>1. mixups' = {} => mixups = {}
        BY <1>1
    <2>2. QED
        BY <1>0, <1>1, <1>6, <2>1 DEF FileFollows
<1>9. QED
    BY <1>4, <1>5, <1>7, <1>8 DEF NtfyInv

LEMMA LoginAssignsStep ==
    ASSUME NtfyInv, Ntfy!NtfyAssumption, Ntfy!LoginAssigns PROVE NtfyInv'
<1>0. Ntfy!TypeOK /\ Works /\ BeforeStart /\ AccountFollows /\ FileFollows
    BY DEF NtfyInv
<1>1. /\ login.active /\ login' = Ntfy!NoLogin
      /\ IF current = None
         THEN /\ current' = made + 1 /\ made' = made + 1
              /\ memory' = [memory EXCEPT ![made + 1] = login.prefs]
         ELSE /\ memory' = [memory EXCEPT ![current] = login.prefs]
              /\ UNCHANGED <<current, made>>
      /\ UNCHANGED <<fullMessage, entry, stored, carried, setter, wish, told, changes, boots,
                     mixups>>
    BY DEF Ntfy!LoginAssigns, Ntfy!None, None, Ntfy!diskVars, Ntfy!histories
<1>2. made \in Nat /\ MaxAccounts \in Nat /\ made' \in 0..MaxAccounts
    BY <1>0, <1>1 DEF Works, Ntfy!TypeOK, Ntfy!NtfyAssumption
<1>3. current' \in 1..MaxAccounts /\ current' # None
    BY <1>0, <1>1, <1>2 DEF Ntfy!TypeOK, Works, Ntfy!Accounts, Ntfy!None, None
<1>4. /\ memory' = [memory EXCEPT ![current'] = login.prefs]
      /\ login.prefs \in Ntfy!Prefs
    BY <1>0, <1>1 DEF Ntfy!TypeOK
<1>5. /\ memory' \in [Ntfy!Accounts -> Ntfy!Prefs]
      /\ memory'[current'] = login.prefs
    BY <1>0, <1>3, <1>4 DEF Ntfy!TypeOK, Ntfy!Accounts
<1>6. Ntfy!TypeOK'
    BY <1>0, <1>1, <1>2, <1>3, <1>5, PrefsTypes DEF Ntfy!TypeOK, Ntfy!Accounts
<1>7. Works' /\ BeforeStart'
    <2>1. boots # 0
        BY <1>0, <1>1 DEF BeforeStart
    <2>2. QED
        BY <1>0, <1>1, <2>1, PrefsTypes DEF Works, BeforeStart
<1>8. Ntfy!Busy' = Ntfy!Busy /\ Ntfy!Load' = Ntfy!Load
    BY <1>1 DEF Ntfy!Busy, Ntfy!Load
<1>9. AccountFollows'
    <2> SUFFICES ASSUME mixups \subseteq Ntfy!FileOnly PROVE AccountFollows'
        BY <1>1 DEF AccountFollows, Ntfy!FileOnly
    <2>1. login.prefs = wish /\ Ntfy!Busy = {} /\ ToldRight
        BY <1>0, <1>1 DEF AccountFollows, ToldRight
    <2>2. ToldRight'
        BY <1>1, <2>1, ToldKept
    <2>3. QED
        BY <1>1, <1>5, <1>8, <2>1, <2>2, PrefsTypes DEF AccountFollows, ToldRight
<1>10. FileFollows'
    BY <1>0, <1>1, <1>8 DEF FileFollows
<1>11. QED
    BY <1>6, <1>7, <1>9, <1>10 DEF NtfyInv

LEMMA LogoutAllStep ==
    ASSUME NtfyInv, Ntfy!LogoutAll PROVE NtfyInv'
<1>0. Ntfy!TypeOK /\ Works /\ BeforeStart /\ AccountFollows /\ FileFollows
    BY DEF NtfyInv
<1>1. /\ current # None /\ ~login.active /\ current' = None /\ carried' = "none"
      /\ mixups' = IF Ntfy!Busy # {} THEN mixups \cup {"overlap"} ELSE mixups
      /\ UNCHANGED <<fullMessage, made, memory, entry, stored, setter, login, wish, told,
                     changes, boots>>
    BY DEF Ntfy!LogoutAll, Ntfy!None, None
<1>2. Ntfy!TypeOK'
    <2>1. mixups' \subseteq {"twoChanges", "overlap", "reverted", "io", "crash",
                             "staleFlag", "lostFlag"}
        BY <1>0, <1>1 DEF Ntfy!TypeOK
    <2>2. QED
        BY <1>0, <1>1, <2>1, PrefsTypes DEF Ntfy!TypeOK
<1>3. Works' /\ BeforeStart'
    BY <1>0, <1>1 DEF Works, BeforeStart
<1>4. Ntfy!Busy' = Ntfy!Busy /\ Ntfy!Load' = Ntfy!Load
    BY <1>1 DEF Ntfy!Busy, Ntfy!Load
<1>5. AccountFollows'
    <2> SUFFICES ASSUME mixups' \subseteq Ntfy!FileOnly PROVE AccountFollows'
        BY DEF AccountFollows, Ntfy!FileOnly
    <2>1. mixups = mixups' /\ Ntfy!Busy = {}
        BY <1>1 DEF Ntfy!FileOnly
    <2>2. ToldRight
        BY <1>0, <2>1 DEF AccountFollows, ToldRight
    <2>3. ToldRight'
        BY <1>1, <2>2, ToldKept
    <2>4. QED
        BY <1>1, <1>4, <2>1, <2>3 DEF AccountFollows, ToldRight
<1>6. FileFollows'
    <2>1. mixups' = {} => mixups = {}
        BY <1>1
    <2>2. QED
        BY <1>0, <1>1, <1>4, <2>1 DEF FileFollows
<1>7. QED
    BY <1>2, <1>3, <1>5, <1>6 DEF NtfyInv


-------------------------------------------------------------------------------
\* NtfyPrefs: restarts

\* A start finds in the file what the user wants, or the flag says what is missing.
LEMMA StartFinds ==
    ASSUME NtfyInv, mixups \subseteq Ntfy!FileOnly, Ntfy!Busy = {},
           mixups \cap Ntfy!FileOnly = {}
    PROVE  \/ Ntfy!Load = wish
           \/ boots = 0 /\ Ntfy!Load = Ntfy!NoPrefs /\ carried = "on"
<1>0. Ntfy!TypeOK /\ BeforeStart /\ FileFollows /\ mixups = {}
    BY DEF NtfyInv
<1>1. CASE boots = 0
    <2>1. /\ Ntfy!Load = Ntfy!NoPrefs
          /\ wish.fullText = "default" /\ (wish.enabled <=> carried = "on")
        BY <1>0, <1>1 DEF BeforeStart, Ntfy!Load
    <2>2. CASE carried # "on"
        <3>1. wish \in Ntfy!Prefs /\ Ntfy!NoPrefs \in Ntfy!Prefs
            BY <1>0, PrefsTypes DEF Ntfy!TypeOK
        <3>2. wish.enabled \in BOOLEAN /\ ~wish.enabled
            BY <2>1, <2>2, <3>1 DEF Ntfy!Prefs
        <3>3. Ntfy!NoPrefs.enabled = FALSE /\ Ntfy!NoPrefs.fullText = "default"
            BY DEF Ntfy!NoPrefs
        <3>4. wish.enabled = Ntfy!NoPrefs.enabled
            BY <3>2, <3>3
        <3>5. wish = Ntfy!NoPrefs
            BY <2>1, <3>1, <3>3, <3>4, TwoFields
        <3>6. QED
            BY <2>1, <3>5
    <2>3. QED
        BY <1>1, <2>1, <2>2
<1>2. CASE boots # 0
    BY <1>0, <1>2 DEF FileFollows, Ntfy!TypeOK
<1>3. QED
    BY <1>1, <1>2

\* Whatever account a start makes or drops, and whatever it finds in the file.
LEMMA RestartKept ==
    ASSUME NtfyInv, Ntfy!NtfyAssumption,
           boots < MaxBoots, ~login.active, boots' = boots + 1,
           setter' = [h \in Handlers |-> Ntfy!Resting],
           UNCHANGED <<fullMessage, login, wish, told, changes>>,
           made' \in 0..MaxAccounts, current' \in Ntfy!Accounts \cup {None},
           memory' \in [Ntfy!Accounts -> Ntfy!Prefs],
           entry' \in {"none", "torn", "whole"}, stored' \in Ntfy!Prefs,
           carried' \in {"none", "off", "on"},
           mixups \subseteq mixups',
           mixups' \subseteq mixups \cup {"reverted", "crash", "staleFlag", "lostFlag"},
           mixups' \subseteq Ntfy!FileOnly =>
               /\ current' # None => memory'[current'] = wish
               /\ mixups' = {} => Ntfy!Load' = wish
    PROVE  NtfyInv'
<1>0. Ntfy!TypeOK /\ AccountFollows
    BY DEF NtfyInv
<1>1. boots' \in 0..MaxBoots /\ boots' # 0
    BY <1>0 DEF Ntfy!TypeOK, Ntfy!NtfyAssumption
<1>2. \A h \in Handlers : setter'[h].phase = "idle"
    BY PrefsTypes
<1>3. Ntfy!Busy' = {}
    BY <1>2 DEF Ntfy!Busy
<1>4. mixups' \subseteq {"twoChanges", "overlap", "reverted", "io", "crash",
                         "staleFlag", "lostFlag"}
    BY <1>0 DEF Ntfy!TypeOK
<1>5. Ntfy!TypeOK'
    <2>1. setter' \in [Handlers -> SetterType]
        BY PrefsTypes
    <2>2. QED
        BY <1>0, <1>1, <1>4, <2>1, PrefsTypes DEF Ntfy!TypeOK, SetterType
<1>6. Works' /\ BeforeStart'
    BY <1>1, <1>2 DEF Works, BeforeStart
<1>7. AccountFollows'
    <2> SUFFICES ASSUME mixups' \subseteq Ntfy!FileOnly PROVE AccountFollows'
        BY DEF AccountFollows, Ntfy!FileOnly
    <2>1. mixups \subseteq Ntfy!FileOnly
        OBVIOUS
    <2>2. ToldRight
        BY <1>0, <2>1 DEF AccountFollows, ToldRight
    <2>3. ToldRight'
        BY <2>2, ToldKept
    <2>4. QED
        BY <1>3, <2>3 DEF AccountFollows, ToldRight
<1>8. FileFollows'
    BY <1>2, <1>3 DEF FileFollows
<1>9. QED
    BY <1>5, <1>6, <1>7, <1>8 DEF NtfyInv

LEMMA RestartStep ==
    ASSUME NtfyInv, Ntfy!NtfyAssumption, Ntfy!Restart PROVE NtfyInv'
<1>0. Ntfy!TypeOK /\ Ntfy!Load \in Ntfy!Prefs /\ wish \in Ntfy!Prefs
    BY LoadType DEF NtfyInv, Ntfy!TypeOK
<1>1. /\ boots < MaxBoots /\ ~login.active /\ boots' = boots + 1
      /\ setter' = [h \in Handlers |-> Ntfy!Resting]
      /\ UNCHANGED <<fullMessage, login, wish, told, changes>>
    BY DEF Ntfy!Restart
<1>2. CASE /\ made < MaxAccounts
           /\ Ntfy!Migrate \/ Ntfy!Restore
           /\ current' = made + 1 /\ made' = made + 1
           /\ carried' = IF memory'[made + 1].enabled THEN "on" ELSE "off"
    <2>1. /\ made \in Nat /\ made' \in 0..MaxAccounts /\ current' \in Ntfy!Accounts
          /\ made + 1 \in Ntfy!Accounts
        BY <1>0, <1>2 DEF Ntfy!TypeOK, Ntfy!NtfyAssumption, Ntfy!Accounts
    <2>2. carried' \in {"none", "off", "on"}
        BY <1>2
    <2>3. CASE Ntfy!Migrate
        <3> DEFINE kept == [Ntfy!Load EXCEPT !.enabled = TRUE]
                   only == [Ntfy!NoPrefs EXCEPT !.enabled = TRUE]
        <3>1. /\ memory' = [memory EXCEPT ![made + 1] = kept]
              /\ IF Ntfy!Load.enabled
                 THEN UNCHANGED <<entry, stored>>
                 ELSE entry' = "whole" /\ stored' = only
              /\ mixups' = mixups \cup (IF Ntfy!Busy # {} THEN {"crash"} ELSE {})
                                  \cup (IF ~wish.enabled \/ wish.fullText # Ntfy!Load.fullText
                                        THEN {"staleFlag"} ELSE {})
            BY <2>3 DEF Ntfy!Migrate
        <3>2. /\ kept \in Ntfy!Prefs /\ kept.enabled = TRUE
              /\ kept.fullText = Ntfy!Load.fullText
            BY <1>0 DEF Ntfy!Prefs
        <3>3. only \in Ntfy!Prefs /\ only.enabled = TRUE /\ only.fullText = "default"
            BY DEF Ntfy!NoPrefs, Ntfy!Prefs, Ntfy!FullTexts
        <3> HIDE DEF kept, only
        <3>4. /\ memory' \in [Ntfy!Accounts -> Ntfy!Prefs]
              /\ memory'[current'] = kept
            BY <1>0, <1>2, <2>1, <3>1, <3>2 DEF Ntfy!TypeOK
        <3>5. /\ entry' \in {"none", "torn", "whole"} /\ stored' \in Ntfy!Prefs
              /\ Ntfy!Load.enabled => Ntfy!Load' = Ntfy!Load
              /\ ~Ntfy!Load.enabled => Ntfy!Load' = only
            BY <1>0, <3>1, <3>3 DEF Ntfy!TypeOK, Ntfy!Load
        <3>6. ASSUME mixups' \subseteq Ntfy!FileOnly
              PROVE  kept = wish /\ (mixups' = {} => Ntfy!Load' = wish)
            <4>1. Ntfy!Busy = {} /\ wish.enabled /\ wish.fullText = Ntfy!Load.fullText
                BY <3>1, <3>6 DEF Ntfy!FileOnly
            <4>2. wish.enabled = TRUE
                BY <1>0, <4>1 DEF Ntfy!Prefs
            <4>3. kept = wish
                BY <1>0, <3>2, <4>1, <4>2, TwoFields
            <4>4. ASSUME mixups' = {} PROVE Ntfy!Load' = wish
                <5>1. mixups = {}
                    BY <3>1, <4>4
                <5>2. \/ Ntfy!Load = wish
                      \/ boots = 0 /\ Ntfy!Load = Ntfy!NoPrefs /\ carried = "on"
                    BY <4>1, <5>1, StartFinds
                <5>3. CASE Ntfy!Load = wish
                    BY <3>5, <4>1, <5>3
                <5>4. CASE Ntfy!Load = Ntfy!NoPrefs
                    <6>1. ~Ntfy!Load.enabled /\ Ntfy!Load.fullText = "default"
                        BY <5>4 DEF Ntfy!NoPrefs
                    <6>2. only = wish
                        BY <1>0, <3>3, <4>1, <4>2, <6>1, TwoFields
                    <6>3. QED
                        BY <3>5, <6>1, <6>2
                <5>5. QED
                    BY <5>2, <5>3, <5>4
            <4>5. QED
                BY <4>3, <4>4
        <3>7. /\ mixups \subseteq mixups'
              /\ mixups' \subseteq mixups \cup {"reverted", "crash", "staleFlag", "lostFlag"}
            BY <3>1
        <3>8. QED
            BY <1>1, <2>1, <2>2, <3>4, <3>5, <3>6, <3>7, RestartKept
    <2>4. CASE Ntfy!Restore
        <3>1. /\ carried = "off" /\ memory' = [memory EXCEPT ![made + 1] = Ntfy!Load]
              /\ UNCHANGED <<entry, stored>>
              /\ mixups' = mixups \cup (IF Ntfy!Busy # {} THEN {"crash"} ELSE {}) \cup Ntfy!Misled
            BY <2>4 DEF Ntfy!Restore
        <3>2. /\ memory' \in [Ntfy!Accounts -> Ntfy!Prefs]
              /\ memory'[current'] = Ntfy!Load
            BY <1>0, <1>2, <2>1, <3>1 DEF Ntfy!TypeOK
        <3>3. /\ entry' \in {"none", "torn", "whole"} /\ stored' \in Ntfy!Prefs
              /\ Ntfy!Load' = Ntfy!Load
            BY <1>0, <3>1 DEF Ntfy!TypeOK, Ntfy!Load
        <3>4. Ntfy!Misled \subseteq {"reverted"}
            BY DEF Ntfy!Misled
        <3>5. ASSUME mixups' \subseteq Ntfy!FileOnly PROVE Ntfy!Load = wish
            <4>1. mixups \subseteq Ntfy!FileOnly /\ Ntfy!Busy = {} /\ "reverted" \notin Ntfy!Misled
                BY <3>1, <3>5 DEF Ntfy!FileOnly
            <4>2. CASE mixups \cap Ntfy!FileOnly # {}
                BY <4>1, <4>2 DEF Ntfy!Misled
            <4>3. CASE mixups \cap Ntfy!FileOnly = {}
                BY <3>1, <4>1, <4>3, StartFinds
            <4>4. QED
                BY <4>2, <4>3
        <3>6. /\ mixups \subseteq mixups'
              /\ mixups' \subseteq mixups \cup {"reverted", "crash", "staleFlag", "lostFlag"}
            BY <3>1, <3>4
        <3>7. QED
            BY <1>1, <2>1, <2>2, <3>2, <3>3, <3>5, <3>6, RestartKept
    <2>5. QED
        BY <1>2, <2>3, <2>4
<1>3. CASE /\ current' = None /\ carried' = "none"
           /\ mixups' = mixups \cup (IF Ntfy!Busy # {} THEN {"crash"} ELSE {})
                               \cup (IF Ntfy!Load # wish THEN {"lostFlag"} ELSE {})
           /\ UNCHANGED <<made, memory, entry, stored>>
    <2>1. /\ made' \in 0..MaxAccounts /\ memory' \in [Ntfy!Accounts -> Ntfy!Prefs]
          /\ entry' \in {"none", "torn", "whole"} /\ stored' \in Ntfy!Prefs
          /\ Ntfy!Load' = Ntfy!Load
        BY <1>0, <1>3 DEF Ntfy!TypeOK, Ntfy!Load
    <2>2. ASSUME mixups' \subseteq Ntfy!FileOnly PROVE Ntfy!Load' = wish
        BY <1>3, <2>1, <2>2 DEF Ntfy!FileOnly
    <2>3. /\ mixups \subseteq mixups'
          /\ mixups' \subseteq mixups \cup {"reverted", "crash", "staleFlag", "lostFlag"}
        BY <1>3
    <2>4. QED
        BY <1>1, <1>3, <2>1, <2>2, <2>3, RestartKept
<1>4. QED
    BY <1>2, <1>3 DEF Ntfy!Restart, Ntfy!None, None


LEMMA NtfyQuiet ==
    ASSUME NtfyInv, UNCHANGED Ntfy!ntfyVars PROVE NtfyInv'
<1>0. Ntfy!TypeOK /\ Works /\ BeforeStart /\ AccountFollows /\ FileFollows
    BY DEF NtfyInv
<1>1. UNCHANGED <<fullMessage, current, made, memory, entry, stored, carried, setter, login,
                  wish, told, changes, boots, mixups>>
    BY DEF Ntfy!ntfyVars, Ntfy!memoryVars, Ntfy!diskVars, Ntfy!histories
<1>2. Ntfy!TypeOK'
    BY <1>0, <1>1 DEF Ntfy!TypeOK
<1>3. Works' /\ BeforeStart'
    BY <1>0, <1>1 DEF Works, BeforeStart
<1>4. AccountFollows' /\ FileFollows'
    BY <1>0, <1>1 DEF AccountFollows, FileFollows, Ntfy!Busy, Ntfy!Load, Ntfy!Effective
<1>5. QED
    BY <1>2, <1>3, <1>4 DEF NtfyInv

LEMMA NtfyStep ==
    Ntfy!NtfyAssumption /\ NtfyInv /\ [Ntfy!Next]_(Ntfy!ntfyVars) => NtfyInv'
<1> SUFFICES ASSUME Ntfy!NtfyAssumption, NtfyInv, [Ntfy!Next]_(Ntfy!ntfyVars)
             PROVE  NtfyInv'
    OBVIOUS
<1>1. ASSUME NEW h \in Handlers, Ntfy!Serve(h) PROVE NtfyInv'
    BY <1>1, SetFieldStep, BuildStep, BeginSaveStep, EndSaveStep, SaveFailsStep
    DEF Ntfy!Serve
<1>2. CASE Ntfy!Persist \/ Ntfy!LoginLoads \/ Ntfy!LoginAssigns \/ Ntfy!LogoutAll \/ Ntfy!Restart
    BY <1>2, PersistStep, LoginLoadsStep, LoginAssignsStep, LogoutAllStep, RestartStep
<1>3. CASE UNCHANGED Ntfy!ntfyVars
    BY <1>3, NtfyQuiet
<1>4. QED
    BY <1>1, <1>2, <1>3, NotifyStep DEF Ntfy!Next

LEMMA NtfyPromise == NtfyInv => Ntfy!NtfyFollowsUser
BY DEF NtfyInv, AccountFollows, FileFollows, Ntfy!NtfyFollowsUser, Ntfy!TypeOK, Ntfy!None, None,
       Ntfy!FileOnly


-------------------------------------------------------------------------------
\* Wire: what a frame parses as

\* IDs and addresses are none of the values that stand for something else.
Plain(v) == v \notin {Wired!Absent, Wired!Empty, Wired!Garbled, Wired!Nil, Wired!ZeroId}

LEMMA PlainIds ==
    Wired!WireAssumption => (\A v \in Ids : Plain(v)) /\ (\A v \in Wired!Addresses : Plain(v))
BY DEF Wired!WireAssumption, Wired!Addresses, Plain

LEMMA MessageReadsBack ==
    ASSUME Wired!WireAssumption, NEW m \in Wired!Messages, NEW s \in Wired!Spellings
    PROVE  Wired!Parsed("message", Wired!MessageFrame(m, s)) = {m}
<1> DEFINE f == Wired!MessageFrame(m, s)
<1>1. /\ Plain(m.id) /\ Plain(m.conversation) /\ Plain(m.from) /\ Plain(m.to)
      /\ m.parent = Wired!Nil \/ Plain(m.parent)
      /\ m.body \in {Wired!Nil, "text"}
    BY PlainIds DEF Wired!Messages
<1>2. s = "id" \/ s = "guid" \/ s = "both"
    BY DEF Wired!Spellings
<1>3. f # [value |-> Wired!Garbled]
    <2>1. "value" \notin DOMAIN f /\ "value" \in DOMAIN [value |-> Wired!Garbled]
        BY DEF Wired!MessageFrame
    <2>2. QED
        BY <2>1
<1>4. /\ f.messageId = (CASE s = "id" -> m.id [] s = "guid" -> Wired!Absent
                          [] s = "both" -> Wired!ZeroId)
      /\ f.messageGuid = IF s = "id" THEN Wired!Absent ELSE m.id
      /\ f.conversationId = (CASE s = "id" -> m.conversation [] s = "guid" -> Wired!Absent
                               [] s = "both" -> Wired!ZeroId)
      /\ f.conversationGuid = IF s = "id" THEN Wired!Absent ELSE m.conversation
      /\ f.parentMessageId = IF s = "id" THEN Wired!OrAbsent(m.parent) ELSE Wired!Absent
      /\ f.parentMessageGuid = IF s = "id" THEN Wired!Absent
                               ELSE IF m.parent = Wired!Nil THEN Wired!Empty ELSE m.parent
    BY DEF Wired!MessageFrame
<1>5. /\ f.from = IF s = "guid" THEN Wired!Absent ELSE m.from
      /\ f.sender = IF s = "id" THEN Wired!Absent ELSE m.from
      /\ f.to = IF s = "guid" THEN Wired!Absent ELSE m.to
      /\ f.addresses = IF s = "id" THEN Wired!Absent ELSE m.to
      /\ f.messageBody = Wired!OrAbsent(m.body)
    BY DEF Wired!MessageFrame
<1> HIDE DEF f
<1>6. Wired!MessageParses(f)
    BY <1>1, <1>2, <1>4
    DEF Wired!MessageParses, Wired!IdFields, Wired!GuidFields, Plain, Wired!OrAbsent,
        Wired!Absent, Wired!Empty, Wired!Garbled, Wired!Nil, Wired!ZeroId
<1> DEFINE e == Wired!DecodeMessage(f)
<1>7. e.id = m.id /\ e.conversation = m.conversation
    BY <1>1, <1>2, <1>4
    DEF Wired!DecodeMessage, Wired!Given, Wired!OrZero, Plain, Wired!Absent, Wired!Empty,
        Wired!Garbled, Wired!Nil, Wired!ZeroId
<1>8. e.parent = m.parent
    BY <1>1, <1>2, <1>4
    DEF Wired!DecodeMessage, Wired!Given, Wired!OrNil, Wired!OrAbsent, Plain, Wired!Absent,
        Wired!Empty, Wired!Garbled, Wired!Nil, Wired!ZeroId
<1>9. e.from = m.from /\ e.to = m.to /\ e.body = m.body
    BY <1>1, <1>2, <1>5
    DEF Wired!DecodeMessage, Wired!Given, Wired!OrNil, Wired!OrAbsent, Plain, Wired!Absent,
        Wired!Empty, Wired!Garbled, Wired!Nil, Wired!ZeroId
<1>10. e = m
    <2>1. e = [kind |-> "message", id |-> e.id, conversation |-> e.conversation,
               parent |-> e.parent, from |-> e.from, to |-> e.to, body |-> e.body]
        BY DEF Wired!DecodeMessage
    <2>2. m = [kind |-> "message", id |-> m.id, conversation |-> m.conversation,
               parent |-> m.parent, from |-> m.from, to |-> m.to, body |-> m.body]
        BY DEF Wired!Messages
    <2> HIDE DEF e
    <2>3. QED
        BY <1>7, <1>8, <1>9, <2>1, <2>2, Zenon
<1>11. QED
    BY <1>3, <1>6, <1>10 DEF Wired!Parsed, f

LEMMA StatusReadsBack ==
    ASSUME NEW m \in Wired!Statuses, NEW s \in Wired!Spellings, NEW time \in Wired!TimesOf(m)
    PROVE  Wired!Parsed("status", Wired!StatusFrame(m, s, time)) = {m}
<1> DEFINE f == Wired!StatusFrame(m, s, time)
           e == Wired!DecodeStatus(f)
<1>1. /\ m.kind = "status" /\ m.status \in {Wired!Nil, "Delivered", "Read"}
      /\ m.updatedAt \in {Wired!Nil, "time"} /\ s \in {"id", "guid", "both"}
    BY DEF Wired!Statuses, Wired!Spellings
<1>2. f # [value |-> Wired!Garbled]
    <2>1. "value" \notin DOMAIN f /\ "value" \in DOMAIN [value |-> Wired!Garbled]
        BY DEF Wired!StatusFrame
    <2>2. QED
        BY <2>1
<1>3. /\ f.messageId = m.id /\ f.updatedAt = time
      /\ f.messageStatus = IF s = "guid" THEN Wired!Absent ELSE Wired!OrAbsent(m.status)
      /\ f.status = CASE s = "id" -> Wired!Absent [] s = "guid" -> Wired!OrAbsent(m.status)
                      [] s = "both" -> IF m.status = Wired!Nil THEN Wired!Garbled ELSE "Sent"
    BY DEF Wired!StatusFrame
<1>4. (time \in {"zoned", "unzoned"}) <=> m.updatedAt = "time"
    BY <1>1 DEF Wired!TimesOf, Wired!Absent, Wired!Garbled, Wired!Nil
<1> HIDE DEF f
<1>5. e.id = m.id /\ e.status = m.status /\ e.updatedAt = m.updatedAt
    BY <1>1, <1>3, <1>4
    DEF Wired!DecodeStatus, Wired!OrNil, Wired!OrAbsent, Wired!Absent, Wired!Garbled, Wired!Nil
<1>6. e = m
    <2>1. e = [kind |-> "status", id |-> e.id, status |-> e.status, updatedAt |-> e.updatedAt]
        BY DEF Wired!DecodeStatus
    <2>2. m = [kind |-> "status", id |-> m.id, status |-> m.status, updatedAt |-> m.updatedAt]
        BY DEF Wired!Statuses
    <2> HIDE DEF e
    <2>3. QED
        BY <1>5, <2>1, <2>2, Zenon
<1>7. QED
    BY <1>2, <1>6 DEF Wired!Parsed, f

LEMMA ReplyReadsBack ==
    ASSUME NEW m \in Wired!Replies, NEW s \in Wired!Spellings
    PROVE  Wired!Parsed(m.kind, Wired!ReplyFrame(m, s)) = {m}
<1> DEFINE f == Wired!ReplyFrame(m, s)
<1>1. /\ m.kind \in {"uploadUrl", "member"} /\ m.value \in {Wired!Nil, "given"}
      /\ m = [kind |-> m.kind, value |-> m.value] /\ s \in {"id", "guid", "both"}
    BY DEF Wired!Replies, Wired!Spellings
<1>2. f # [value |-> Wired!Garbled]
    <2>1. "value" \notin DOMAIN f /\ "value" \in DOMAIN [value |-> Wired!Garbled]
        BY DEF Wired!ReplyFrame
    <2>2. QED
        BY <2>1
<1>3. CASE m.kind = "uploadUrl"
    <2>1. /\ f.lower = IF s = "guid" THEN Wired!Absent ELSE Wired!OrAbsent(m.value)
          /\ f.upper = IF s = "id" THEN Wired!Absent ELSE Wired!OrAbsent(m.value)
        BY <1>3 DEF Wired!ReplyFrame
    <2> HIDE DEF f
    <2> DEFINE V == IF {f.lower, f.upper} = {Wired!Absent} THEN {Wired!Absent}
                    ELSE {f.lower, f.upper} \ {Wired!Absent}
    <2>2. V = {Wired!OrAbsent(m.value)}
        BY <1>1, <2>1 DEF Wired!OrAbsent, Wired!Absent, Wired!Nil
    <2>3. Wired!OrNil(Wired!OrAbsent(m.value)) = m.value
        BY <1>1 DEF Wired!OrAbsent, Wired!OrNil, Wired!Absent, Wired!Nil
    <2>4. Wired!DecodeReply(m.kind, f) = {[kind |-> m.kind, value |-> Wired!OrNil(v)] : v \in V}
        BY <1>3 DEF Wired!DecodeReply
    <2>5. Wired!DecodeReply(m.kind, f) = {[kind |-> m.kind, value |-> m.value]}
        BY <2>2, <2>3, <2>4
    <2>6. QED
        BY <1>1, <1>2, <1>3, <2>5 DEF Wired!Parsed, f
<1>4. CASE m.kind = "member"
    <2>1. f.imageUrl = IF m.value # Wired!Nil THEN m.value
                       ELSE IF s = "id" THEN Wired!Absent ELSE Wired!Empty
        BY <1>4 DEF Wired!ReplyFrame
    <2> HIDE DEF f
    <2>2. Wired!DecodeReply(m.kind, f) = {[kind |-> m.kind, value |-> m.value]}
        BY <1>1, <1>4, <2>1
        DEF Wired!DecodeReply, Wired!OrNil, Wired!Absent, Wired!Nil, Wired!Empty
    <2>3. QED
        BY <1>1, <1>2, <1>4, <2>2 DEF Wired!Parsed, f
<1>5. QED
    BY <1>1, <1>3, <1>4

LEMMA UpdateReadsBack ==
    ASSUME NEW m \in Wired!Updates \cup Wired!Devices
    PROVE  Wired!Parsed(m.kind, [value |-> Wired!OrAbsent(m.value)]) = {m}
<1>1. /\ m.kind \in {"mute", "block", "notification", "nonconversational", "deviceAccount"}
      /\ m.value \in {Wired!Nil, "set", "imei"} /\ m = [kind |-> m.kind, value |-> m.value]
    BY DEF Wired!Updates, Wired!Devices
<1> DEFINE f == [value |-> Wired!OrAbsent(m.value)]
<1>2. f.value = Wired!OrAbsent(m.value) /\ f.value # Wired!Garbled
    BY <1>1 DEF Wired!OrAbsent, Wired!Garbled, Wired!Absent, Wired!Nil
<1>3. f # [value |-> Wired!Garbled]
    BY <1>2
<1> HIDE DEF f
<1>4. Wired!OrNil(f.value) = m.value
    BY <1>1, <1>2 DEF Wired!OrNil, Wired!OrAbsent, Wired!Absent, Wired!Nil
<1>5. Wired!Parsed(m.kind, f) = {[kind |-> m.kind, value |-> Wired!OrNil(f.value)]}
    BY <1>1, <1>3 DEF Wired!Parsed
<1>6. QED
    BY <1>1, <1>4, <1>5 DEF f


\* A frame that is damaged does not parse.
LEMMA DamagedIsDropped ==
    ASSUME NEW f, NEW damage \in Wired!IdFields \cup Wired!GuidFields,
           f[damage] = Wired!Garbled
    PROVE  Wired!Parsed("message", f) = {}
BY DEF Wired!Parsed, Wired!MessageParses

-------------------------------------------------------------------------------
\* Wire: the inductive invariant

\* A frame on the wire parses as what is meant, or not at all if it is damaged.
OnTheWire ==
    heard = Wired!Waiting =>
        /\ meant \in Wired!Meanings /\ meant.kind \in Wired!KindsOver(channel)
        /\ note = Wired!NoNote /\ noted = FALSE
        /\ Wired!Parsed(meant.kind, frame) = IF intact THEN {meant} ELSE {}

NothingYet ==
    meant = Wired!NothingMeant =>
        heard = Wired!NothingMeant /\ note = Wired!NoNote /\ noted = FALSE

WireInv == Wired!TypeOK /\ NothingYet /\ OnTheWire /\ Wired!HeardAsMeant

LEMMA WireInit == Wired!Init => WireInv
<1> SUFFICES ASSUME Wired!Init PROVE WireInv
    OBVIOUS
<1>1. /\ meant = Wired!NothingMeant /\ channel = "rest" /\ intact = TRUE
      /\ heard = Wired!NothingMeant /\ note = Wired!NoNote /\ noted = FALSE
    BY DEF Wired!Init
<1>2. Wired!NothingMeant # Wired!Waiting
    BY DEF Wired!NothingMeant, Wired!Waiting
<1>3. QED
    BY <1>1, <1>2 DEF WireInv, Wired!TypeOK, NothingYet, OnTheWire, Wired!HeardAsMeant

\* What Garmin may say is none of the values that the server hears otherwise.
LEMMA Meant ==
    ASSUME NEW m \in Wired!Meanings
    PROVE  /\ m.kind \in {"message", "status", "mute", "block", "notification",
                          "nonconversational", "deviceAccount", "uploadUrl", "member"}
           /\ m # Wired!NothingMeant /\ m # Wired!Waiting /\ m # Wired!Dropped
           /\ m # Wired!Ignored
           /\ m.kind = "message" => m \in Wired!Messages
           /\ m.kind = "status" => m \in Wired!Statuses
           /\ m.kind \in {"uploadUrl", "member"} => m \in Wired!Replies
           /\ m.kind \notin {"message", "status", "uploadUrl", "member"} =>
                  m \in Wired!Updates \cup Wired!Devices
<1>1. /\ m \in Wired!Messages => m.kind = "message"
      /\ m \in Wired!Statuses => m.kind = "status"
      /\ m \in Wired!Updates => m.kind \in {"mute", "block", "notification"}
      /\ m \in Wired!Devices => m.kind \in {"nonconversational", "deviceAccount"}
      /\ m \in Wired!Replies => m.kind \in {"uploadUrl", "member"}
    BY DEF Wired!Messages, Wired!Statuses, Wired!Updates, Wired!Devices, Wired!Replies
<1>2. \/ m \in Wired!Messages \/ m \in Wired!Statuses \/ m \in Wired!Updates
      \/ m \in Wired!Devices \/ m \in Wired!Replies
    BY DEF Wired!Meanings
<1>3. m.kind \notin {"nothing", "waiting", "dropped", "ignored"}
    BY <1>1, <1>2
<1>4. m # Wired!NothingMeant /\ m # Wired!Waiting /\ m # Wired!Dropped /\ m # Wired!Ignored
    BY <1>3 DEF Wired!NothingMeant, Wired!Waiting, Wired!Dropped, Wired!Ignored
<1>5. QED
    BY <1>1, <1>2, <1>4

LEMMA SaysStep ==
    ASSUME Wired!WireAssumption, WireInv, NEW m \in Wired!Meanings,
           NEW c \in {"signalr", "fcm", "rest"}, NEW s \in Wired!Spellings,
           NEW time \in Wired!TimesOf(m),
           NEW damage \in {"none", "all"} \cup Wired!GuidFields \cup Wired!IdFields,
           Wired!Says(m, c, s, time, damage)
    PROVE  WireInv'
<1> DEFINE f == CASE m.kind = "message" -> Wired!MessageFrame(m, s)
                  [] m.kind = "status"  -> Wired!StatusFrame(m, s, time)
                  [] m.kind \in {"uploadUrl", "member"} -> Wired!ReplyFrame(m, s)
                  [] OTHER -> [value |-> Wired!OrAbsent(m.value)]
<1>1. /\ meant = Wired!NothingMeant /\ m.kind \in Wired!KindsOver(c)
      /\ meant' = m /\ channel' = c
      /\ \/ damage = "none" /\ frame' = f /\ intact' = TRUE
         \/ damage = "all" /\ frame' = [value |-> Wired!Garbled] /\ intact' = FALSE
         \/ /\ damage \in DOMAIN f /\ m.kind = "message" /\ Wired!Given(f[damage])
            /\ frame' = [f EXCEPT ![damage] = Wired!Garbled] /\ intact' = FALSE
      /\ heard' = Wired!Waiting /\ UNCHANGED <<note, noted>>
    BY DEF Wired!Says
<1>2. note = Wired!NoNote /\ noted = FALSE
    BY <1>1 DEF WireInv, NothingYet
<1>3. Wired!Parsed(m.kind, f) = {m}
    <2>1. CASE m.kind = "message"
        BY <2>1, Meant, MessageReadsBack
    <2>2. CASE m.kind = "status"
        BY <2>2, Meant, StatusReadsBack
    <2>3. CASE m.kind \in {"uploadUrl", "member"}
        BY <2>3, Meant, ReplyReadsBack
    <2>4. CASE m.kind \notin {"message", "status", "uploadUrl", "member"}
        BY <2>4, Meant, UpdateReadsBack
    <2>5. QED
        BY <2>1, <2>2, <2>3, <2>4
<1>4. Wired!Parsed(m.kind, frame') = IF intact' THEN {m} ELSE {}
    <2>1. CASE damage = "none" /\ frame' = f /\ intact' = TRUE
        BY <1>3, <2>1
    <2>2. CASE frame' = [value |-> Wired!Garbled] /\ intact' = FALSE
        BY <2>2 DEF Wired!Parsed
    <2>3. CASE /\ damage \in DOMAIN f /\ m.kind = "message"
               /\ frame' = [f EXCEPT ![damage] = Wired!Garbled] /\ intact' = FALSE
        <3>1. f = Wired!MessageFrame(m, s)
            BY <2>3
        <3>2. damage # "none" /\ damage # "all"
            BY <2>3, <3>1 DEF Wired!MessageFrame
        <3>3. damage \in Wired!IdFields \cup Wired!GuidFields
            BY <3>2
        <3> HIDE DEF f
        <3>4. frame'[damage] = Wired!Garbled
            BY <2>3
        <3>5. Wired!Parsed("message", frame') = {}
            BY <3>3, <3>4, DamagedIsDropped
        <3>6. QED
            BY <2>3, <3>5
    <2>4. QED
        BY <1>1, <2>1, <2>2, <2>3
<1> HIDE DEF f
<1>5. meant' # Wired!NothingMeant /\ intact' \in BOOLEAN
    BY <1>1, Meant
<1>6. Wired!TypeOK'
    BY <1>1, <1>2, <1>5 DEF Wired!TypeOK, Wired!Meanings
<1>7. NothingYet'
    BY <1>5 DEF NothingYet
<1>8. OnTheWire'
    BY <1>1, <1>2, <1>4 DEF OnTheWire
<1>9. Wired!HeardAsMeant'
    BY <1>1 DEF Wired!HeardAsMeant
<1>10. QED
    BY <1>6, <1>7, <1>8, <1>9 DEF WireInv

\* What a receiver leaves behind.
LEMMA Received ==
    ASSUME WireInv, heard = Wired!Waiting, UNCHANGED <<meant, channel, frame, intact>>,
           noted' = (intact /\ channel = "fcm"),
           intact => \/ /\ meant.kind \in {"nonconversational", "deviceAccount"}
                        /\ heard' = Wired!Ignored /\ UNCHANGED note
                     \/ /\ meant.kind \notin {"nonconversational", "deviceAccount"}
                        /\ heard' = meant
                        /\ meant.kind = "message" => note' = Wired!PushPayload(meant),
           ~intact => heard' = Wired!Dropped /\ UNCHANGED note
    PROVE  WireInv'
<1>1. /\ meant \in Wired!Meanings /\ note = Wired!NoNote /\ noted = FALSE
      /\ Wired!TypeOK
    BY DEF WireInv, OnTheWire
<1>2. /\ meant # Wired!NothingMeant /\ meant # Wired!Waiting /\ meant # Wired!Dropped
      /\ meant # Wired!Ignored
    BY <1>1, Meant
<1>3. /\ Wired!Dropped # Wired!Waiting /\ Wired!Ignored # Wired!Waiting
      /\ Wired!Dropped # Wired!Ignored
    BY DEF Wired!Dropped, Wired!Waiting, Wired!Ignored
<1>4. heard' # Wired!Waiting
    BY <1>2, <1>3
<1>5. Wired!TypeOK' /\ NothingYet' /\ OnTheWire'
    BY <1>1, <1>2, <1>4 DEF Wired!TypeOK, NothingYet, OnTheWire
<1>6. Wired!HeardAsMeant'
    <2>1. CASE ~intact
        BY <1>1, <1>2, <1>3, <2>1 DEF Wired!HeardAsMeant
    <2>2. CASE intact /\ heard' = Wired!Ignored
        BY <1>2, <2>2 DEF Wired!HeardAsMeant
    <2>3. CASE /\ intact /\ heard' = meant
               /\ meant.kind \notin {"nonconversational", "deviceAccount"}
               /\ meant.kind = "message" => note' = Wired!PushPayload(meant)
        <3>1. meant.kind = "message" =>
                 IF Wired!IsOwn(meant.from) THEN note' = Wired!NoNote
                 ELSE note'.id = meant.id /\ note'.conversation = meant.conversation
            <4>1. CASE meant.kind = "message" /\ ~Wired!IsOwn(meant.from)
                <5>1. note' = [title |-> "Garmin Messenger", conversation |-> meant.conversation,
                               id |-> meant.id, from |-> meant.from,
                               body |-> IF meant.body = Wired!Nil THEN "New message"
                                        ELSE meant.body]
                    BY <2>3, <4>1 DEF Wired!PushPayload
                <5>2. QED
                    BY <4>1, <5>1
            <4>2. CASE meant.kind = "message" /\ Wired!IsOwn(meant.from)
                BY <2>3, <4>2 DEF Wired!PushPayload
            <4>3. QED
                BY <4>1, <4>2
        <3>2. QED
            BY <1>2, <2>3, <3>1 DEF Wired!HeardAsMeant, Wired!IsOwn
    <2>4. QED
        BY <2>1, <2>2, <2>3
<1>7. QED
    BY <1>5, <1>6 DEF WireInv

LEMMA ReceiveStep ==
    ASSUME WireInv, Wired!HubReceives \/ Wired!DataMessageComes \/ Wired!ReplyComes
    PROVE  WireInv'
<1>1. /\ heard = Wired!Waiting /\ UNCHANGED <<meant, channel, frame, intact>>
      /\ channel \in {"signalr", "fcm", "rest"}
    BY DEF Wired!HubReceives, Wired!DataMessageComes, Wired!ReplyComes
<1>2. /\ meant.kind \in Wired!KindsOver(channel) /\ note = Wired!NoNote /\ noted = FALSE
      /\ Wired!Parsed(meant.kind, frame) = IF intact THEN {meant} ELSE {}
    BY <1>1 DEF WireInv, OnTheWire
<1>3. Wired!Parsed(meant.kind, frame) = {} <=> ~intact
    BY <1>2
<1>4. CASE Wired!HubReceives
    <2>1. channel = "signalr" /\ noted' = noted
        BY <1>4 DEF Wired!HubReceives
    <2>2. CASE ~intact
        BY <1>1, <1>2, <1>3, <1>4, <2>1, <2>2, Received DEF Wired!HubReceives
    <2>3. CASE intact
        <3>1. IF meant.kind = "nonconversational" THEN heard' = Wired!Ignored /\ UNCHANGED note
              ELSE heard' = meant /\ note' = Wired!PushPayload(meant)
            BY <1>2, <1>3, <1>4, <2>3 DEF Wired!HubReceives
        <3>2. meant.kind # "deviceAccount"
            BY <1>2, <2>1 DEF Wired!KindsOver
        <3>3. QED
            BY <1>1, <1>2, <2>1, <2>3, <3>1, <3>2, Received
    <2>4. QED
        BY <2>2, <2>3
<1>5. CASE Wired!DataMessageComes
    <2>1. channel = "fcm"
        BY <1>5 DEF Wired!DataMessageComes
    <2>2. CASE ~intact
        BY <1>1, <1>2, <1>3, <1>5, <2>1, <2>2, Received DEF Wired!DataMessageComes
    <2>3. CASE intact
        <3>1. /\ IF meant.kind # "message" THEN heard' = Wired!Ignored /\ UNCHANGED note
                 ELSE heard' = meant /\ note' = Wired!PushPayload(meant)
              /\ noted' = TRUE
            BY <1>2, <1>3, <1>5, <2>3 DEF Wired!DataMessageComes
        <3>2. meant.kind \in {"message", "nonconversational", "deviceAccount"}
            BY <1>2, <2>1 DEF Wired!KindsOver
        <3>3. QED
            BY <1>1, <1>2, <2>1, <2>3, <3>1, <3>2, Received
    <2>4. QED
        BY <2>2, <2>3
<1>6. CASE Wired!ReplyComes
    <2>1. channel = "rest" /\ noted' = noted /\ note' = note
        BY <1>6 DEF Wired!ReplyComes
    <2>2. CASE ~intact
        BY <1>1, <1>2, <1>3, <1>6, <2>1, <2>2, Received DEF Wired!ReplyComes
    <2>3. CASE intact
        <3>1. heard' = meant
            BY <1>2, <1>3, <1>6, <2>3 DEF Wired!ReplyComes
        <3>2. meant.kind \in {"uploadUrl", "member"}
            BY <1>2, <2>1 DEF Wired!KindsOver
        <3>3. QED
            BY <1>1, <1>2, <2>1, <2>3, <3>1, <3>2, Received
    <2>4. QED
        BY <2>2, <2>3
<1>7. QED
    BY <1>4, <1>5, <1>6

LEMMA WireStep ==
    Wired!WireAssumption /\ WireInv /\ [Wired!Next]_(Wired!wireVars) => WireInv'
<1> SUFFICES ASSUME Wired!WireAssumption, WireInv, [Wired!Next]_(Wired!wireVars)
             PROVE  WireInv'
    OBVIOUS
<1>1. CASE UNCHANGED Wired!wireVars
    BY <1>1 DEF Wired!wireVars, WireInv, Wired!TypeOK, NothingYet, OnTheWire,
                Wired!HeardAsMeant
<1>2. CASE Wired!HubReceives \/ Wired!DataMessageComes \/ Wired!ReplyComes
    BY <1>2, ReceiveStep
<1>3. ASSUME NEW m \in Wired!Meanings, NEW c \in {"signalr", "fcm", "rest"},
             NEW s \in Wired!Spellings, NEW time \in Wired!TimesOf(m),
             NEW damage \in {"none", "all"} \cup Wired!GuidFields \cup Wired!IdFields,
             Wired!Says(m, c, s, time, damage)
      PROVE  WireInv'
    BY <1>3, SaysStep
<1>4. QED
    BY <1>1, <1>2, <1>3 DEF Wired!Next


-------------------------------------------------------------------------------
\* MessageSending: types

Phases == {"new", "posting", "uploading", "answered"} \cup Sending!Converting
RequestType == [phase : Phases, kind : Sending!Kinds, answer : {"none", "ok", "error"}]
FileType == [dir : Pids, owner : Handlers \cup {"other", "dead", "old"}, part : Sending!Parts]
ViewType == [phase : {"new", "url", "answered"}, of : SUBSET Handlers,
             got : {"none", "whole", "cut"}]

LEMMA FileFields ==
    ASSUME NEW d, NEW o, NEW x
    PROVE  /\ Sending!FileOf(d, o, x).dir = d /\ Sending!FileOf(d, o, x).owner = o
           /\ Sending!FileOf(d, o, x).part = x
           /\ d \in Pids /\ o \in Handlers \cup {"other"} /\ x \in Sending!Parts =>
                  Sending!FileOf(d, o, x) \in FileType
BY DEF Sending!FileOf, FileType

\* A file that changes hands.
LEMMA ChangesHands ==
    ASSUME NEW f \in FileType, NEW o \in {"dead", "old"}
    PROVE  /\ [f EXCEPT !.owner = o] \in FileType
           /\ [f EXCEPT !.owner = o].owner = o /\ [f EXCEPT !.owner = o].dir = f.dir
BY DEF FileType

LEMMA RequestAt ==
    ASSUME Sending!TypeOK
    PROVE  /\ request \in [Handlers -> RequestType] /\ sent \in [Handlers -> Nat]
           /\ files \subseteq FileType /\ view \in [Views -> ViewType]
BY DEF Sending!TypeOK, RequestType, Phases, FileType, ViewType

LEMMA GoesOn ==
    ASSUME Sending!TypeOK, NEW u \in Handlers, NEW phase \in Phases, Sending!Goes(u, phase)
    PROVE  /\ request' \in [Handlers -> RequestType]
           /\ \A w \in Handlers \ {u} : request'[w] = request[w]
           /\ request'[u].phase = phase /\ request'[u].kind = request[u].kind
           /\ request'[u].answer = request[u].answer
<1>1. request \in [Handlers -> RequestType]
    BY RequestAt
<1>2. QED
    BY <1>1 DEF Sending!Goes, RequestType

LEMMA IsAnswered ==
    ASSUME Sending!TypeOK, NEW u \in Handlers, NEW a \in {"none", "ok", "error"},
           Sending!Answer(u, a)
    PROVE  /\ request' \in [Handlers -> RequestType]
           /\ \A w \in Handlers \ {u} : request'[w] = request[w]
           /\ request'[u].phase = "answered" /\ request'[u].kind = request[u].kind
           /\ request'[u].answer = a
<1>1. request \in [Handlers -> RequestType]
    BY RequestAt
<1>2. QED
    BY <1>1 DEF Sending!Answer, RequestType, Phases

-------------------------------------------------------------------------------
\* MessageSending: the inductive invariant

\* A request r has sent n messages: none until its message is posted, one then.
OnceOf(r, n) ==
    /\ r.phase \in {"new", "posting"} \cup Sending!Converting => n = 0 /\ r.answer = "none"
    /\ r.phase = "uploading" => n = 1 /\ r.answer = "none" /\ r.kind # "text"
    /\ r.phase \in {"mid", "normalizing"} => r.kind # "image"

Once == \A u \in Handlers : OnceOf(request[u], sent[u])

\* A server that is down has nothing under way, and a sweep examines each
\* directory once and dooms none that is the server's.
Standing ==
    /\ pid \notin others
    /\ pid = Sending!NoPid => sweep = "due" /\ Sending!Active = {}
    /\ sweep # "running" => todo = {} /\ doomed = Sending!NoPid
    /\ doomed \notin todo /\ (doomed # Sending!NoPid => doomed # pid)
    /\ \A f \in files : f.dir \in dirs

\* Nothing has taken the ID of a process that left files behind.
Tidy == mishaps \cap {"startedSince", "sameId"} = {}

\* A request's files are those its conversion needs.
OwnFiles ==
    \A u \in Handlers :
        Sending!Owned(u) = {Sending!FileOf(pid, u, x) : x \in Sending!FilesIn(request[u])}

\* A photo that another process converts is there, and not about to go.
OtherFiles ==
    /\ \A p \in busy : Sending!FileOf(p, "other", "in") \in files
    /\ doomed \notin others

\* What dead processes left is in directories of none that lives, and what was
\* there at the start is gone, or the sweep has it before it.
Leftovers ==
    /\ \A f \in files : f.owner \in {"dead", "old"} => f.dir # pid /\ f.dir \notin others
    /\ \A f \in files : f.owner = "old" =>
          sweep = "due" \/ (sweep = "running" /\ f.dir \in todo \cup {doomed})

SpoolInv == Standing /\ (Tidy => OwnFiles /\ OtherFiles /\ Leftovers)
SendInv  == Sending!TypeOK /\ Once /\ Sending!AnswerIsHonest /\ SpoolInv

LEMMA SendInit == Sending!SendingAssumption /\ Sending!Init => SendInv
<1> SUFFICES ASSUME Sending!SendingAssumption, Sending!Init PROVE SendInv
    OBVIOUS
<1> DEFINE r0 == [phase |-> "new", kind |-> "text", answer |-> "none"]
           v0 == [phase |-> "new", of |-> {}, got |-> "none"]
<1>1. /\ pid = Sending!NoPid /\ others = {} /\ busy = {} /\ launches = 0 /\ starts = 0
      /\ dirs = {} /\ files = {} /\ sweep = "due" /\ todo = {} /\ doomed = Sending!NoPid
      /\ request = [u \in Handlers |-> r0]
      /\ sent = [u \in Handlers |-> 0] /\ inS3 = {}
      /\ view = [v \in Views |-> v0] /\ mishaps = {}
    BY DEF Sending!Init
<1>2. r0 \in RequestType /\ r0.phase = "new" /\ r0.answer = "none"
    BY DEF RequestType, Phases, Sending!Kinds
<1>3. v0 \in ViewType /\ v0.got = "none"
    BY DEF ViewType
<1> HIDE DEF r0, v0
<1>4. Sending!TypeOK
    BY <1>1, <1>2, <1>3 DEF Sending!TypeOK, RequestType, Phases, ViewType,
                            Sending!SendingAssumption
<1>5. Once /\ Sending!AnswerIsHonest
    BY <1>1, <1>2, <1>3 DEF Once, OnceOf, Sending!AnswerIsHonest, Sending!Converting
<1>6. Standing
    BY <1>1, <1>2 DEF Standing, Sending!Active
<1>7. OwnFiles
    <2>1. \A u \in Handlers : Sending!FilesIn(request[u]) = {} /\ Sending!Owned(u) = {}
        BY <1>1, <1>2 DEF Sending!FilesIn, Sending!Owned
    <2>2. QED
        BY <2>1 DEF OwnFiles
<1>8. OtherFiles /\ Leftovers
    BY <1>1 DEF OtherFiles, Leftovers
<1>9. QED
    BY <1>4, <1>5, <1>6, <1>7, <1>8 DEF SendInv, SpoolInv

-------------------------------------------------------------------------------
\* MessageSending: steps that a part of the invariant survives

\* One request does something: what the others have sent and heard stays.
LEMMA OthersAnswers ==
    ASSUME SendInv, NEW u \in Handlers,
           \A w \in Handlers \ {u} : request'[w] = request[w] /\ sent'[w] = sent[w],
           inS3 \subseteq inS3', mishaps \subseteq mishaps', UNCHANGED view,
           OnceOf(request'[u], sent'[u]), sent'[u] <= 1,
           request'[u].answer = "ok" =>
               /\ sent'[u] = 1
               /\ request'[u].kind = "text" \/ u \in inS3' \/ "noUrl" \in mishaps'
    PROVE  Once' /\ Sending!AnswerIsHonest'
<1>1. Once /\ Sending!AnswerIsHonest
    BY DEF SendInv
<1>2. Once'
    BY <1>1 DEF Once
<1>3. ASSUME NEW w \in Handlers
      PROVE  /\ sent'[w] <= 1
             /\ request'[w].answer = "ok" =>
                   /\ sent'[w] = 1
                   /\ request'[w].kind = "text" \/ w \in inS3' \/ "noUrl" \in mishaps'
    <2>1. CASE w = u
        BY <2>1
    <2>2. CASE w # u
        BY <1>1, <2>2 DEF Sending!AnswerIsHonest
    <2>3. QED
        BY <2>1, <2>2
<1>4. \A v \in Views : view'[v].got # "none" => view'[v].of \subseteq inS3'
    BY <1>1 DEF Sending!AnswerIsHonest
<1>5. QED
    BY <1>2, <1>3, <1>4 DEF Sending!AnswerIsHonest

\* Nobody's answer changes.
LEMMA SameAnswers ==
    ASSUME SendInv, UNCHANGED <<request, sent, inS3, view>>, mishaps \subseteq mishaps'
    PROVE  Once' /\ Sending!AnswerIsHonest'
BY DEF SendInv, Once, Sending!AnswerIsHonest

\* No file comes or goes.
LEMMA SameFiles ==
    ASSUME SendInv, UNCHANGED <<pid, others, busy, dirs, files, sweep, todo, doomed>>,
           mishaps \subseteq mishaps',
           pid = Sending!NoPid => UNCHANGED request,
           \A u \in Handlers : Sending!FilesIn(request'[u]) = Sending!FilesIn(request[u])
    PROVE  SpoolInv'
<1>1. SpoolInv
    BY DEF SendInv
<1>2. Standing'
    BY <1>1 DEF SpoolInv, Standing, Sending!Active
<1>3. Tidy' => Tidy
    BY DEF Tidy
<1>4. ASSUME OwnFiles PROVE OwnFiles'
    BY <1>4 DEF OwnFiles, Sending!Owned
<1>5. OtherFiles /\ Leftovers => OtherFiles' /\ Leftovers'
    BY DEF OtherFiles, Leftovers
<1>6. QED
    BY <1>1, <1>2, <1>3, <1>4, <1>5 DEF SpoolInv


-------------------------------------------------------------------------------
\* MessageSending: the requests that send

LEMMA TakenStep ==
    ASSUME SendInv, NEW u \in Handlers, NEW kind \in Sending!Kinds, Sending!Receive(u, kind)
    PROVE  SendInv'
<1> DEFINE r == [phase |-> IF kind = "text" THEN "posting" ELSE "in",
                 kind |-> kind, answer |-> "none"]
<1>0. Sending!TypeOK /\ Once /\ Sending!AnswerIsHonest
    BY DEF SendInv
<1>1. /\ pid # Sending!NoPid /\ request[u].phase = "new"
      /\ request' = [request EXCEPT ![u] = r]
      /\ UNCHANGED <<pid, others, busy, launches, starts, dirs, files, sweep, todo, doomed,
                     sent, inS3, view, mishaps>>
    BY DEF Sending!Receive, Sending!processes, Sending!spool, Sending!sweeping, Sending!service
<1>2. /\ r \in RequestType /\ r.answer = "none" /\ r.phase \in {"posting", "in"}
    BY DEF RequestType, Phases, Sending!Converting
<1> HIDE DEF r
<1>3. /\ request' \in [Handlers -> RequestType] /\ request'[u] = r
      /\ \A w \in Handlers \ {u} : request'[w] = request[w]
    BY <1>0, <1>1, <1>2, RequestAt
<1>4. sent[u] = 0
    BY <1>0, <1>1 DEF Once, OnceOf
<1>5. OnceOf(r, sent'[u])
    BY <1>1, <1>2, <1>4 DEF OnceOf
<1>6. Once' /\ Sending!AnswerIsHonest'
    BY <1>0, <1>1, <1>2, <1>3, <1>4, <1>5, OthersAnswers
<1>7. SpoolInv'
    <2>1. Sending!FilesIn(request'[u]) = Sending!FilesIn(request[u])
        BY <1>1, <1>2, <1>3 DEF Sending!FilesIn
    <2>2. \A w \in Handlers : Sending!FilesIn(request'[w]) = Sending!FilesIn(request[w])
        BY <1>3, <2>1
    <2>3. QED
        BY <1>1, <2>2, SameFiles
<1>8. Sending!TypeOK'
    BY <1>0, <1>1, <1>3 DEF Sending!TypeOK, RequestType, Phases
<1>9. QED
    BY <1>6, <1>7, <1>8 DEF SendInv

LEMMA NormalizeStep ==
    ASSUME SendInv, NEW u \in Handlers, Sending!Normalize(u) PROVE SendInv'
<1>0. Sending!TypeOK /\ Once /\ Sending!AnswerIsHonest /\ Standing
    BY DEF SendInv, SpoolInv
<1>1. /\ request[u].phase = "normalizing" /\ Sending!Goes(u, "out")
      /\ UNCHANGED <<pid, others, busy, launches, starts, dirs, files, sweep, todo, doomed,
                     sent, inS3, view, mishaps>>
    BY DEF Sending!Normalize, Sending!processes, Sending!spool, Sending!sweeping, Sending!service
<1>2. "out" \in Phases
    BY DEF Phases, Sending!Converting
<1>3. /\ request' \in [Handlers -> RequestType]
      /\ \A w \in Handlers \ {u} : request'[w] = request[w]
      /\ request'[u].phase = "out" /\ request'[u].kind = request[u].kind
      /\ request'[u].answer = request[u].answer
    BY <1>0, <1>1, <1>2, GoesOn
<1>4. sent[u] = 0 /\ request[u].answer = "none" /\ request[u].kind # "image"
    BY <1>0, <1>1 DEF Once, OnceOf, Sending!Converting
<1>5. OnceOf(request'[u], sent'[u])
    BY <1>1, <1>3, <1>4 DEF OnceOf
<1>6. Once' /\ Sending!AnswerIsHonest'
    BY <1>0, <1>1, <1>3, <1>4, <1>5, OthersAnswers
<1>7. SpoolInv'
    <2>1. Sending!FilesIn(request'[u]) = Sending!FilesIn(request[u])
        BY <1>1, <1>3, <1>4 DEF Sending!FilesIn
    <2>2. \A w \in Handlers : Sending!FilesIn(request'[w]) = Sending!FilesIn(request[w])
        BY <1>3, <2>1
    <2>3. pid # Sending!NoPid
        BY <1>0, <1>1 DEF Standing, Sending!Active
    <2>4. QED
        BY <1>1, <2>2, <2>3, SameFiles
<1>8. Sending!TypeOK'
    BY <1>0, <1>1, <1>3 DEF Sending!TypeOK, RequestType, Phases
<1>9. QED
    BY <1>6, <1>7, <1>8 DEF SendInv

LEMMA PostStep ==
    ASSUME SendInv, NEW u \in Handlers, Sending!Post(u) PROVE SendInv'
<1>0. Sending!TypeOK /\ Once /\ Sending!AnswerIsHonest /\ Standing
    BY DEF SendInv, SpoolInv
<1> DEFINE n == [sent EXCEPT ![u] = @ + 1]
<1>1. /\ request[u].phase = "posting"
      /\ UNCHANGED <<pid, others, busy, launches, starts, dirs, files, sweep, todo, doomed,
                     inS3, view>>
      /\ \/ /\ Sending!Answer(u, "error") /\ sent' \in {sent, n} /\ UNCHANGED mishaps
         \/ /\ sent' = n /\ request[u].kind = "text" /\ Sending!Answer(u, "ok")
            /\ UNCHANGED mishaps
         \/ /\ sent' = n /\ request[u].kind # "text" /\ Sending!Goes(u, "uploading")
            /\ UNCHANGED mishaps
         \/ /\ sent' = n /\ Sending!Answer(u, "ok") /\ mishaps' = mishaps \cup {"noUrl"}
    BY DEF Sending!Post, Sending!processes, Sending!spool, Sending!sweeping
<1>2. sent[u] = 0 /\ request[u].answer = "none"
    BY <1>0, <1>1 DEF Once, OnceOf
<1>3. /\ n \in [Handlers -> Nat] /\ n[u] = 1 /\ sent \in [Handlers -> Nat]
      /\ \A w \in Handlers \ {u} : n[w] = sent[w]
    BY <1>0, <1>2, RequestAt
<1> HIDE DEF n
<1>4. "uploading" \in Phases
    BY DEF Phases
<1>5. /\ request' \in [Handlers -> RequestType] /\ sent' \in [Handlers -> Nat]
      /\ \A w \in Handlers \ {u} : request'[w] = request[w] /\ sent'[w] = sent[w]
      /\ mishaps' \in {mishaps, mishaps \cup {"noUrl"}}
      /\ sent'[u] <= 1 /\ request'[u].phase \in {"answered", "uploading"}
      /\ OnceOf(request'[u], sent'[u])
      /\ request'[u].answer = "ok" =>
            /\ sent'[u] = 1
            /\ request'[u].kind = "text" \/ u \in inS3' \/ "noUrl" \in mishaps'
    <2>1. CASE Sending!Answer(u, "error") /\ sent' \in {sent, n} /\ UNCHANGED mishaps
        <3>1. /\ request' \in [Handlers -> RequestType]
              /\ \A w \in Handlers \ {u} : request'[w] = request[w]
              /\ request'[u].phase = "answered" /\ request'[u].answer = "error"
            BY <1>0, <2>1, IsAnswered
        <3>2. OnceOf(request'[u], sent'[u])
            BY <3>1 DEF OnceOf, Sending!Converting
        <3>3. QED
            BY <1>2, <1>3, <2>1, <3>1, <3>2
    <2>2. CASE /\ sent' = n /\ Sending!Answer(u, "ok")
               /\ \/ request[u].kind = "text" /\ UNCHANGED mishaps
                  \/ mishaps' = mishaps \cup {"noUrl"}
        <3>1. /\ request' \in [Handlers -> RequestType]
              /\ \A w \in Handlers \ {u} : request'[w] = request[w]
              /\ request'[u].phase = "answered" /\ request'[u].answer = "ok"
              /\ request'[u].kind = request[u].kind
            BY <1>0, <2>2, IsAnswered
        <3>2. OnceOf(request'[u], sent'[u])
            BY <3>1 DEF OnceOf, Sending!Converting
        <3>3. QED
            BY <1>2, <1>3, <2>2, <3>1, <3>2
    <2>3. CASE /\ sent' = n /\ request[u].kind # "text" /\ Sending!Goes(u, "uploading")
               /\ UNCHANGED mishaps
        <3>1. /\ request' \in [Handlers -> RequestType]
              /\ \A w \in Handlers \ {u} : request'[w] = request[w]
              /\ request'[u].phase = "uploading" /\ request'[u].answer = "none"
              /\ request'[u].kind = request[u].kind
            BY <1>0, <1>2, <1>4, <2>3, GoesOn
        <3>2. OnceOf(request'[u], sent'[u])
            BY <1>3, <2>3, <3>1 DEF OnceOf, Sending!Converting
        <3>3. QED
            BY <1>2, <1>3, <2>3, <3>1, <3>2
    <2>4. QED
        BY <1>1, <2>1, <2>2, <2>3
<1>6. Once' /\ Sending!AnswerIsHonest'
    BY <1>1, <1>5, OthersAnswers
<1>7. SpoolInv'
    <2>1. Sending!FilesIn(request'[u]) = Sending!FilesIn(request[u])
        BY <1>1, <1>5 DEF Sending!FilesIn
    <2>2. \A w \in Handlers : Sending!FilesIn(request'[w]) = Sending!FilesIn(request[w])
        BY <1>5, <2>1
    <2>3. pid # Sending!NoPid
        BY <1>0, <1>1 DEF Standing, Sending!Active
    <2>4. QED
        BY <1>1, <1>5, <2>2, <2>3, SameFiles
<1>8. Sending!TypeOK'
    BY <1>0, <1>1, <1>5 DEF Sending!TypeOK, RequestType, Phases
<1>9. QED
    BY <1>6, <1>7, <1>8 DEF SendInv

LEMMA UploadStep ==
    ASSUME SendInv, NEW u \in Handlers, Sending!Upload(u) PROVE SendInv'
<1>0. Sending!TypeOK /\ Once /\ Sending!AnswerIsHonest /\ Standing
    BY DEF SendInv, SpoolInv
<1>1. /\ request[u].phase = "uploading"
      /\ UNCHANGED <<pid, others, busy, launches, starts, dirs, files, sweep, todo, doomed,
                     sent, view, mishaps>>
      /\ \/ Sending!Answer(u, "error") /\ inS3' \in {inS3, inS3 \cup {u}}
         \/ Sending!Answer(u, "ok") /\ inS3' = inS3 \cup {u}
    BY DEF Sending!Upload, Sending!processes, Sending!spool, Sending!sweeping
<1>2. sent[u] = 1
    BY <1>0, <1>1 DEF Once, OnceOf
<1>3. PICK a \in {"error", "ok"} :
          /\ Sending!Answer(u, a) /\ inS3' \in {inS3, inS3 \cup {u}}
          /\ a = "ok" => u \in inS3'
    BY <1>1
<1>4. /\ request' \in [Handlers -> RequestType]
      /\ \A w \in Handlers \ {u} : request'[w] = request[w]
      /\ request'[u].phase = "answered" /\ request'[u].answer = a
    <2>1. a \in {"none", "ok", "error"}
        OBVIOUS
    <2>2. Sending!Answer(u, a)
        BY <1>3
    <2>3. QED
        BY <1>0, <2>1, <2>2, IsAnswered
<1>5. OnceOf(request'[u], sent'[u])
    BY <1>4 DEF OnceOf, Sending!Converting
<1>6. Once' /\ Sending!AnswerIsHonest'
    <2>1. inS3 \subseteq inS3' /\ (request'[u].answer = "ok" => u \in inS3')
        BY <1>3, <1>4
    <2>2. sent'[u] = 1 /\ sent'[u] <= 1
        BY <1>1, <1>2
    <2>3. QED
        BY <1>1, <1>4, <1>5, <2>1, <2>2, OthersAnswers
<1>7. SpoolInv'
    <2>1. Sending!FilesIn(request'[u]) = Sending!FilesIn(request[u])
        BY <1>1, <1>4 DEF Sending!FilesIn
    <2>2. \A w \in Handlers : Sending!FilesIn(request'[w]) = Sending!FilesIn(request[w])
        BY <1>4, <2>1
    <2>3. pid # Sending!NoPid
        BY <1>0, <1>1 DEF Standing, Sending!Active
    <2>4. QED
        BY <1>1, <2>2, <2>3, SameFiles
<1>8. Sending!TypeOK'
    BY <1>0, <1>1, <1>3, <1>4 DEF Sending!TypeOK, RequestType, Phases
<1>9. QED
    BY <1>6, <1>7, <1>8 DEF SendInv


\* A request makes or removes files of its own.
LEMMA UsersFiles ==
    ASSUME SendInv, Sending!SendingAssumption, NEW u \in Handlers, pid # Sending!NoPid,
           UNCHANGED <<pid, others, busy, sweep, todo, doomed, mishaps>>,
           \A f \in files' : f.dir \in dirs' /\ (f \in files \/ f.owner = u),
           \A f \in files : f.owner # u => f \in files',
           \A w \in Handlers \ {u} : request'[w] = request[w],
           Tidy /\ OwnFiles =>
               {f \in files' : f.owner = u} =
                   {Sending!FileOf(pid, u, x) : x \in Sending!FilesIn(request'[u])}
    PROVE  SpoolInv'
<1>0. u \notin {"other", "dead", "old"}
    BY DEF Sending!SendingAssumption
<1>1. Standing /\ (Tidy => OwnFiles /\ OtherFiles /\ Leftovers)
    BY DEF SendInv, SpoolInv
<1>2. Standing'
    BY <1>1 DEF Standing
<1> SUFFICES ASSUME Tidy PROVE OwnFiles' /\ OtherFiles' /\ Leftovers'
    BY <1>2 DEF SpoolInv, Tidy
<1>3. OwnFiles'
    <2> SUFFICES ASSUME NEW w \in Handlers
                 PROVE  {f \in files' : f.owner = w} =
                            {Sending!FileOf(pid, w, x) : x \in Sending!FilesIn(request'[w])}
        BY DEF OwnFiles, Sending!Owned
    <2>1. CASE w = u
        BY <1>1, <2>1
    <2>2. CASE w # u
        <3>1. {f \in files' : f.owner = w} = {f \in files : f.owner = w}
            BY <2>2
        <3>2. QED
            BY <1>1, <2>2, <3>1 DEF OwnFiles, Sending!Owned
    <2>3. QED
        BY <2>1, <2>2
<1>4. OtherFiles'
    <2>1. ASSUME NEW p \in busy PROVE Sending!FileOf(p, "other", "in") \in files'
        <3>1. Sending!FileOf(p, "other", "in") \in files
            BY <1>1 DEF OtherFiles
        <3>2. Sending!FileOf(p, "other", "in").owner # u
            BY <1>0, FileFields
        <3>3. QED
            BY <3>1, <3>2
    <2>2. QED
        BY <1>1, <2>1 DEF OtherFiles
<1>5. Leftovers'
    BY <1>0, <1>1 DEF Leftovers
<1>6. QED
    BY <1>3, <1>4, <1>5

LEMMA MakeTempStep ==
    ASSUME SendInv, Sending!SendingAssumption, NEW u \in Handlers, Sending!MakeTemp(u)
    PROVE  SendInv'
<1> DEFINE p == request[u].phase
           next == CASE p = "in"  -> IF request[u].kind = "image" THEN "out" ELSE "mid"
                     [] p = "mid" -> "normalizing"
                     [] p = "out" -> "encoding"
           new == Sending!FileOf(pid, u, p)
<1>0. Sending!TypeOK /\ Once /\ Standing
    BY DEF SendInv, SpoolInv
<1>1. /\ p \in {"in", "mid", "out"} /\ dirs' = dirs \cup {pid}
      /\ files' = files \cup {new} /\ Sending!Goes(u, next)
      /\ UNCHANGED <<pid, others, busy, launches, starts, sweep, todo, doomed, sent, inS3,
                     view, mishaps>>
    BY DEF Sending!MakeTemp, Sending!NeedsDir, Sending!processes, Sending!sweeping,
           Sending!service
<1>2. next \in {"out", "mid", "normalizing", "encoding"} /\ next \in Phases
    BY <1>1 DEF Phases, Sending!Converting
<1>3. /\ request' \in [Handlers -> RequestType]
      /\ \A w \in Handlers \ {u} : request'[w] = request[w]
      /\ request'[u].phase = next /\ request'[u].kind = request[u].kind
      /\ request'[u].answer = request[u].answer
    BY <1>0, <1>1, <1>2, GoesOn
<1>4. pid # Sending!NoPid /\ pid \in Pids
    BY <1>0, <1>1 DEF Standing, Sending!Active, Sending!TypeOK
<1>5. new \in FileType /\ new.owner = u /\ new.dir = pid
    BY <1>1, <1>4, FileFields DEF Sending!Parts
<1>6. sent[u] = 0 /\ request[u].answer = "none"
    BY <1>0, <1>1 DEF Once, OnceOf, Sending!Converting
<1>7. Once' /\ Sending!AnswerIsHonest'
    <2>1. next \in {"mid", "normalizing"} => request[u].kind # "image"
        BY <1>0, <1>1 DEF Once, OnceOf
    <2>2. OnceOf(request'[u], sent'[u])
        BY <1>1, <1>2, <1>3, <1>6, <2>1 DEF OnceOf
    <2>3. QED
        BY <1>1, <1>3, <1>6, <2>2, OthersAnswers
<1>8. SpoolInv'
    <2>1. ASSUME OwnFiles
          PROVE  {f \in files' : f.owner = u} =
                     {Sending!FileOf(pid, u, x) : x \in Sending!FilesIn(request'[u])}
        <3>1. {f \in files' : f.owner = u} = {f \in files : f.owner = u} \cup {new}
            BY <1>1, <1>5
        <3>2. {f \in files : f.owner = u} =
                  {Sending!FileOf(pid, u, x) : x \in Sending!FilesIn(request[u])}
            BY <2>1 DEF OwnFiles, Sending!Owned
        <3>3. Sending!FilesIn(request'[u]) = Sending!FilesIn(request[u]) \cup {p}
            <4>1. CASE p = "in"
                BY <1>3, <4>1 DEF Sending!FilesIn
            <4>2. CASE p = "mid"
                BY <1>3, <4>2 DEF Sending!FilesIn
            <4>3. CASE p = "out"
                BY <1>3, <4>3 DEF Sending!FilesIn, Sending!Parts
            <4>4. QED
                BY <1>1, <4>1, <4>2, <4>3
        <3> HIDE DEF p
        <3>4. QED
            BY <3>1, <3>2, <3>3
    <2>2. \A f \in files' : f.dir \in dirs' /\ (f \in files \/ f.owner = u)
        BY <1>0, <1>1, <1>5 DEF Standing
    <2>3. QED
        BY <1>1, <1>3, <1>4, <2>1, <2>2, UsersFiles
<1>9. Sending!TypeOK'
    <2>1. files' \subseteq FileType /\ dirs' \subseteq Pids
        BY <1>0, <1>1, <1>4, <1>5, RequestAt DEF Sending!TypeOK
    <2>2. todo' \subseteq dirs'
        BY <1>0, <1>1 DEF Sending!TypeOK
    <2>3. QED
        BY <1>0, <1>1, <1>3, <2>1, <2>2 DEF Sending!TypeOK, RequestType, Phases, FileType
<1>10. QED
    BY <1>7, <1>8, <1>9 DEF SendInv

\* A conversion is over: its files are gone.
LEMMA FilesGo ==
    ASSUME SendInv, Sending!SendingAssumption, NEW u \in Handlers,
           request[u].phase \in Sending!Converting,
           files' = files \ Sending!Owned(u), request' \in [Handlers -> RequestType],
           \A w \in Handlers \ {u} : request'[w] = request[w],
           request'[u].phase \in {"posting", "answered"},
           request'[u].answer = IF request'[u].phase = "posting" THEN "none" ELSE "error",
           UNCHANGED <<pid, others, busy, launches, starts, dirs, sweep, todo, doomed, sent,
                       inS3, view, mishaps>>
    PROVE  SendInv'
<1>0. Sending!TypeOK /\ Once /\ Standing
    BY DEF SendInv, SpoolInv
<1>1. sent[u] = 0
    BY <1>0 DEF Once, OnceOf
<1>2. Once' /\ Sending!AnswerIsHonest'
    <2>1. OnceOf(request'[u], sent'[u])
        BY <1>1 DEF OnceOf, Sending!Converting
    <2>2. QED
        BY <1>1, <2>1, OthersAnswers
<1>3. SpoolInv'
    <2>1. {f \in files' : f.owner = u} = {} /\ Sending!FilesIn(request'[u]) = {}
        BY DEF Sending!Owned, Sending!FilesIn
    <2>2. pid # Sending!NoPid
        BY <1>0 DEF Standing, Sending!Active, Sending!Converting
    <2>3. \A f \in files : f.owner # u => f \in files'
        BY DEF Sending!Owned
    <2>4. \A f \in files' : f.dir \in dirs' /\ (f \in files \/ f.owner = u)
        BY <1>0 DEF Standing
    <2>5. {f \in files' : f.owner = u} =
              {Sending!FileOf(pid, u, x) : x \in Sending!FilesIn(request'[u])}
        BY <2>1
    <2>6. QED
        BY <2>2, <2>3, <2>4, <2>5, UsersFiles
<1>4. Sending!TypeOK'
    BY <1>0 DEF Sending!TypeOK, RequestType, Phases
<1>5. QED
    BY <1>2, <1>3, <1>4 DEF SendInv

LEMMA EncodeStep ==
    ASSUME SendInv, Sending!SendingAssumption, NEW u \in Handlers,
           Sending!Encode(u) \/ Sending!ConversionFails(u)
    PROVE  SendInv'
<1>0. Sending!TypeOK /\ Once
    BY DEF SendInv
<1>1. /\ request[u].phase \in Sending!Converting
      /\ files' = files \ Sending!Owned(u)
      /\ \/ request[u].phase = "encoding" /\ Sending!Goes(u, "posting")
         \/ Sending!Answer(u, "error")
      /\ UNCHANGED <<pid, others, busy, launches, starts, dirs, sweep, todo, doomed, sent,
                     inS3, view, mishaps>>
    BY DEF Sending!Encode, Sending!ConversionFails, Sending!Converting, Sending!processes,
           Sending!sweeping, Sending!service
<1>2. CASE request[u].phase = "encoding" /\ Sending!Goes(u, "posting")
    <2>1. /\ request' \in [Handlers -> RequestType]
          /\ \A w \in Handlers \ {u} : request'[w] = request[w]
          /\ request'[u].phase = "posting" /\ request'[u].answer = request[u].answer
        BY <1>0, <1>2, GoesOn DEF Phases
    <2>2. request[u].answer = "none"
        BY <1>0, <1>1 DEF Once, OnceOf
    <2>3. QED
        BY <1>1, <2>1, <2>2, FilesGo
<1>3. CASE Sending!Answer(u, "error")
    <2>1. /\ request' \in [Handlers -> RequestType]
          /\ \A w \in Handlers \ {u} : request'[w] = request[w]
          /\ request'[u].phase = "answered" /\ request'[u].answer = "error"
        BY <1>0, <1>3, IsAnswered
    <2>2. QED
        BY <1>1, <2>1, FilesGo
<1>4. QED
    BY <1>1, <1>2, <1>3


-------------------------------------------------------------------------------
\* MessageSending: the requests that fetch

LEMMA ViewStep ==
    ASSUME SendInv, NEW v \in Views,
           Sending!Fetch(v) \/ \E u \in Handlers : Sending!AskUrl(v, u)
    PROVE  SendInv'
<1>0. Sending!TypeOK /\ Once /\ Sending!AnswerIsHonest /\ view \in [Views -> ViewType]
    BY RequestAt DEF SendInv
<1>1. UNCHANGED <<pid, others, busy, launches, starts, dirs, files, sweep, todo, doomed,
                  request, sent, inS3, mishaps>>
    BY DEF Sending!Fetch, Sending!AskUrl, Sending!processes, Sending!spool, Sending!sweeping,
           Sending!service
<1>2. /\ view' \in [Views -> ViewType]
      /\ \A w \in Views \ {v} : view'[w] = view[w]
      /\ view'[v].got # "none" => view'[v].of \subseteq inS3
    <2>1. CASE Sending!Fetch(v)
        <3>1. view[v].got # "none" => view[v].of \subseteq inS3
            BY <1>0 DEF Sending!AnswerIsHonest
        <3>2. \/ /\ view' = [view EXCEPT ![v].phase = "answered", ![v].got = "whole"]
                 /\ view[v].of \subseteq inS3
              \/ view' = [view EXCEPT ![v].phase = "answered"]
              \/ /\ view' = [view EXCEPT ![v].phase = "answered", ![v].got = "cut"]
                 /\ view[v].of \subseteq inS3
            BY <2>1 DEF Sending!Fetch
        <3>3. QED
            BY <1>0, <3>1, <3>2 DEF ViewType
    <2>2. ASSUME NEW u \in Handlers, Sending!AskUrl(v, u)
          PROVE  /\ view' \in [Views -> ViewType]
                 /\ \A w \in Views \ {v} : view'[w] = view[w]
                 /\ view'[v].got # "none" => view'[v].of \subseteq inS3
        <3> DEFINE asking == [phase |-> "url", of |-> {u}, got |-> "none"]
        <3>1. view' = [view EXCEPT ![v] = asking]
            BY <2>2 DEF Sending!AskUrl
        <3>2. asking \in ViewType /\ asking.got = "none"
            BY DEF ViewType
        <3> HIDE DEF asking
        <3>3. QED
            BY <1>0, <3>1, <3>2
    <2>3. QED
        BY <2>1, <2>2
<1>3. Sending!TypeOK'
    BY <1>0, <1>1, <1>2 DEF Sending!TypeOK, ViewType
<1>4. Once'
    BY <1>0, <1>1 DEF Once
<1>5. Sending!AnswerIsHonest'
    <2>1. \A w \in Views : view'[w].got # "none" => view'[w].of \subseteq inS3
        BY <1>0, <1>2 DEF Sending!AnswerIsHonest
    <2>2. QED
        BY <1>0, <1>1, <2>1 DEF Sending!AnswerIsHonest
<1>6. SpoolInv'
    BY <1>1, SameFiles
<1>7. QED
    BY <1>3, <1>4, <1>5, <1>6 DEF SendInv

-------------------------------------------------------------------------------
\* MessageSending: the sweep

LEMMA BeginSweepStep ==
    ASSUME SendInv, Sending!SendingAssumption, Sending!BeginSweep PROVE SendInv'
<1>0. Sending!TypeOK /\ Standing /\ (Tidy => OwnFiles /\ OtherFiles /\ Leftovers)
    BY DEF SendInv, SpoolInv
<1>1. /\ sweep = "due" /\ sweep' = "running" /\ todo' = dirs
      /\ \E u \in Handlers : request[u].phase \in {"in", "mid", "out"}
      /\ UNCHANGED <<pid, others, busy, launches, starts, dirs, files, doomed, request, sent,
                     inS3, view, mishaps>>
    BY DEF Sending!BeginSweep, Sending!NeedsDir, Sending!processes, Sending!spool,
           Sending!service
<1>2. Once' /\ Sending!AnswerIsHonest'
    BY <1>1, SameAnswers
<1>3. doomed = Sending!NoPid /\ pid # Sending!NoPid
    BY <1>0, <1>1 DEF Standing, Sending!Active
<1>4. Sending!TypeOK'
    BY <1>0, <1>1 DEF Sending!TypeOK
<1>5. Standing'
    BY <1>0, <1>1, <1>3 DEF Standing, Sending!TypeOK, Sending!SendingAssumption
<1>6. Tidy' => OwnFiles' /\ OtherFiles' /\ Leftovers'
    <2> SUFFICES ASSUME Tidy PROVE OwnFiles' /\ OtherFiles' /\ Leftovers'
        BY <1>1 DEF Tidy
    <2>1. OwnFiles' /\ OtherFiles'
        BY <1>0, <1>1 DEF OwnFiles, OtherFiles, Sending!Owned
    <2>2. Leftovers'
        BY <1>0, <1>1 DEF Leftovers, Standing
    <2>3. QED
        BY <2>1, <2>2
<1>7. QED
    BY <1>2, <1>4, <1>5, <1>6 DEF SendInv, SpoolInv

LEMMA ExamineStep ==
    ASSUME SendInv, Sending!SendingAssumption, NEW d \in Pids, Sending!Examine(d)
    PROVE  SendInv'
<1>0. Sending!TypeOK /\ Standing /\ (Tidy => OwnFiles /\ OtherFiles /\ Leftovers)
    BY DEF SendInv, SpoolInv
<1>1. /\ sweep = "running" /\ doomed = Sending!NoPid /\ d \in todo /\ todo' = todo \ {d}
      /\ doomed' = IF d = pid \/ d \in others \cup {pid} THEN Sending!NoPid ELSE d
      /\ UNCHANGED <<pid, others, busy, launches, starts, dirs, files, sweep, request, sent,
                     inS3, view, mishaps>>
    BY DEF Sending!Examine, Sending!ProcessAlive, Sending!processes, Sending!spool,
           Sending!service
<1>2. Once' /\ Sending!AnswerIsHonest'
    BY <1>1, SameAnswers
<1>3. Sending!TypeOK'
    BY <1>0, <1>1 DEF Sending!TypeOK
<1>4. Standing'
    BY <1>0, <1>1 DEF Standing, Sending!Active
<1>5. Tidy' => OwnFiles' /\ OtherFiles' /\ Leftovers'
    <2> SUFFICES ASSUME Tidy PROVE OwnFiles' /\ OtherFiles' /\ Leftovers'
        BY <1>1 DEF Tidy
    <2>1. OwnFiles'
        BY <1>0, <1>1 DEF OwnFiles, Sending!Owned
    <2>2. OtherFiles'
        BY <1>0, <1>1 DEF OtherFiles
    <2>3. \A f \in files : f.owner = "old" => f.dir \in todo \cup {doomed}
        BY <1>0, <1>1 DEF Leftovers
    <2>4. \A f \in files : f.owner = "old" => f.dir \in todo
        BY <1>0, <1>1, <2>3, RequestAt
        DEF FileType, Sending!SendingAssumption
    <2>5. \A f \in files : f.owner = "old" /\ f.dir = d => doomed' = d
        BY <1>0, <1>1 DEF Leftovers
    <2>6. \A f \in files : f.owner = "old" => f.dir \in todo' \cup {doomed'}
        BY <1>1, <2>4, <2>5
    <2>7. Leftovers'
        BY <1>0, <1>1, <2>6 DEF Leftovers
    <2>8. QED
        BY <2>1, <2>2, <2>7
<1>6. QED
    BY <1>2, <1>3, <1>4, <1>5 DEF SendInv, SpoolInv

LEMMA RemoveDoomedStep ==
    ASSUME SendInv, Sending!SendingAssumption, Sending!RemoveDoomed PROVE SendInv'
<1>0. Sending!TypeOK /\ Standing /\ (Tidy => OwnFiles /\ OtherFiles /\ Leftovers)
    BY DEF SendInv, SpoolInv
<1>1. /\ doomed # Sending!NoPid /\ doomed' = Sending!NoPid /\ dirs' = dirs \ {doomed}
      /\ files' = {f \in files : f.dir # doomed}
      /\ UNCHANGED <<pid, others, busy, launches, starts, sweep, todo, request, sent,
                     inS3, view, mishaps>>
    BY DEF Sending!RemoveDoomed, Sending!processes, Sending!service
<1>2. Once' /\ Sending!AnswerIsHonest'
    BY <1>1, SameAnswers
<1>3. Sending!TypeOK'
    BY <1>0, <1>1 DEF Sending!TypeOK, Standing
<1>4. Standing'
    BY <1>0, <1>1
    DEF Standing, Sending!Active, Sending!TypeOK, Sending!SendingAssumption
<1>5. Tidy' => OwnFiles' /\ OtherFiles' /\ Leftovers'
    <2> SUFFICES ASSUME Tidy PROVE OwnFiles' /\ OtherFiles' /\ Leftovers'
        BY <1>1 DEF Tidy
    <2>1. ASSUME NEW u \in Handlers PROVE Sending!Owned(u)' = Sending!Owned(u)
        <3>1. Sending!Owned(u) = {Sending!FileOf(pid, u, x) : x \in Sending!FilesIn(request[u])}
            BY <1>0 DEF OwnFiles
        <3>2. \A f \in Sending!Owned(u) : f.dir = pid
            BY <3>1, FileFields
        <3>3. \A f \in files : f.owner = u => f.dir # doomed
            BY <1>0, <1>1, <3>2 DEF Standing, Sending!Owned
        <3>4. QED
            BY <1>1, <3>3 DEF Sending!Owned
    <2>2. OwnFiles'
        BY <1>0, <1>1, <2>1 DEF OwnFiles
    <2>3. OtherFiles'
        <3>1. ASSUME NEW p \in busy PROVE Sending!FileOf(p, "other", "in") \in files'
            <4>1. Sending!FileOf(p, "other", "in") \in files
                BY <1>0 DEF OtherFiles
            <4>2. p # doomed
                BY <1>0 DEF OtherFiles, Sending!TypeOK
            <4>3. Sending!FileOf(p, "other", "in").dir = p
                BY FileFields
            <4>4. QED
                BY <1>1, <4>1, <4>2, <4>3
        <3>2. Sending!NoPid \notin others
            BY <1>0 DEF Sending!TypeOK, Sending!SendingAssumption
        <3>3. QED
            BY <1>1, <3>1, <3>2 DEF OtherFiles
    <2>4. Leftovers'
        BY <1>0, <1>1 DEF Leftovers
    <2>5. QED
        BY <2>2, <2>3, <2>4
<1>6. QED
    BY <1>2, <1>3, <1>4, <1>5 DEF SendInv, SpoolInv

LEMMA EndSweepStep ==
    ASSUME SendInv, Sending!SendingAssumption, Sending!EndSweep PROVE SendInv'
<1>0. Sending!TypeOK /\ Standing /\ (Tidy => OwnFiles /\ OtherFiles /\ Leftovers)
    BY DEF SendInv, SpoolInv
<1>1. /\ sweep = "running" /\ todo = {} /\ doomed = Sending!NoPid /\ sweep' = "done"
      /\ UNCHANGED <<pid, others, busy, launches, starts, dirs, files, todo, doomed, request,
                     sent, inS3, view, mishaps>>
    BY DEF Sending!EndSweep, Sending!processes, Sending!spool, Sending!service
<1>2. Once' /\ Sending!AnswerIsHonest'
    BY <1>1, SameAnswers
<1>3. Sending!TypeOK'
    BY <1>0, <1>1 DEF Sending!TypeOK
<1>4. Standing'
    BY <1>0, <1>1 DEF Standing, Sending!Active
<1>5. Tidy' => OwnFiles' /\ OtherFiles' /\ Leftovers'
    <2> SUFFICES ASSUME Tidy PROVE OwnFiles' /\ OtherFiles' /\ Leftovers'
        BY <1>1 DEF Tidy
    <2>1. OwnFiles' /\ OtherFiles'
        BY <1>0, <1>1 DEF OwnFiles, OtherFiles, Sending!Owned
    <2>2. \A f \in files : f.dir # Sending!NoPid
        BY <1>0, RequestAt DEF FileType, Sending!SendingAssumption
    <2>3. Leftovers'
        BY <1>0, <1>1, <2>2 DEF Leftovers
    <2>4. QED
        BY <2>1, <2>3
<1>6. QED
    BY <1>2, <1>3, <1>4, <1>5 DEF SendInv, SpoolInv


-------------------------------------------------------------------------------
\* MessageSending: processes

LEMMA BootStep ==
    ASSUME SendInv, Sending!SendingAssumption, NEW p \in Pids, Sending!Boot(p) PROVE SendInv'
<1> DEFINE aged(f) == IF f.owner = "dead" THEN [f EXCEPT !.owner = "old"] ELSE f
<1>0. /\ Sending!TypeOK /\ Standing /\ (Tidy => OwnFiles /\ OtherFiles /\ Leftovers)
      /\ Handlers \cap {"other", "dead", "old"} = {} /\ Sending!NoPid \notin Pids
      /\ MaxBoots \in Nat /\ files \subseteq FileType
    BY RequestAt DEF SendInv, SpoolInv, Sending!SendingAssumption
<1>1. /\ pid = Sending!NoPid /\ launches < MaxBoots /\ p \notin others
      /\ pid' = p /\ launches' = launches + 1 /\ sweep' = "due" /\ todo' = {}
      /\ doomed' = Sending!NoPid /\ files' = {aged(f) : f \in files}
      /\ mishaps' = mishaps \cup Sending!TakesOver(p)
      /\ UNCHANGED <<others, busy, starts, dirs, request, sent, inS3, view>>
    BY DEF Sending!Boot, Sending!service
<1>2. ASSUME NEW f \in files
      PROVE  /\ aged(f) \in FileType /\ aged(f).dir = f.dir
             /\ aged(f).owner = IF f.owner = "dead" THEN "old" ELSE f.owner
             /\ f.owner # "dead" => aged(f) = f
    <2>1. f \in FileType
        BY <1>0
    <2>2. CASE f.owner = "dead"
        BY <2>1, <2>2, ChangesHands
    <2>3. CASE f.owner # "dead"
        BY <2>1, <2>3
    <2>4. QED
        BY <2>2, <2>3
<1>3. ASSUME NEW g \in files'
      PROVE  \E f \in files : /\ g \in FileType /\ g.dir = f.dir
                              /\ g.owner = IF f.owner = "dead" THEN "old" ELSE f.owner
                              /\ f.owner # "dead" => g = f
    BY <1>1, <1>2
<1>4. \A f \in files : f.owner # "dead" => f \in files'
    BY <1>1
<1> HIDE DEF aged
<1>5. Once' /\ Sending!AnswerIsHonest'
    BY <1>1, SameAnswers
<1>6. Sending!TypeOK'
    <2>1. files' \subseteq FileType
        BY <1>3
    <2>2. launches' \in 0..MaxBoots
        BY <1>0, <1>1 DEF Sending!TypeOK
    <2>3. Sending!TakesOver(p) \subseteq {"sameId"}
        BY DEF Sending!TakesOver
    <2>4. QED
        BY <1>0, <1>1, <2>1, <2>2, <2>3 DEF Sending!TypeOK, FileType
<1>7. Standing'
    <2>1. \A g \in files' : g.dir \in dirs'
        BY <1>0, <1>1, <1>3 DEF Standing
    <2>2. QED
        BY <1>0, <1>1, <2>1 DEF Standing
<1>8. Tidy' => OwnFiles' /\ OtherFiles' /\ Leftovers'
    <2> SUFFICES ASSUME Tidy' PROVE OwnFiles' /\ OtherFiles' /\ Leftovers'
        OBVIOUS
    <2>1. Tidy /\ Sending!TakesOver(p) = {}
        BY <1>1 DEF Tidy, Sending!TakesOver
    <2>2. \A f \in files : f.dir # p
        BY <1>0, <2>1 DEF Standing, Sending!TakesOver
    <2>3. ASSUME NEW u \in Handlers PROVE Sending!Owned(u)' = {} /\ Sending!FilesIn(request[u]) = {}
        <3>1. request[u].phase \in {"new", "answered"}
            BY <1>0, <1>1 DEF Standing, Sending!Active
        <3>2. Sending!FilesIn(request[u]) = {}
            BY <3>1 DEF Sending!FilesIn
        <3>3. Sending!Owned(u) = {}
            BY <1>0, <2>1, <3>2 DEF OwnFiles
        <3>4. \A f \in files : f.owner # u
            BY <3>3 DEF Sending!Owned
        <3>5. u # "old"
            BY <1>0
        <3>6. \A g \in files' : g.owner # u
            BY <1>3, <3>4, <3>5
        <3>7. QED
            BY <3>2, <3>6 DEF Sending!Owned
    <2>4. OwnFiles'
        BY <1>1, <2>3 DEF OwnFiles
    <2>5. OtherFiles'
        <3>1. ASSUME NEW q \in busy PROVE Sending!FileOf(q, "other", "in") \in files'
            BY <1>0, <1>4, <2>1, FileFields DEF OtherFiles
        <3>2. Sending!NoPid \notin others
            BY <1>0 DEF Sending!TypeOK
        <3>3. QED
            BY <1>1, <3>1, <3>2 DEF OtherFiles
    <2>6. Leftovers'
        BY <1>0, <1>1, <1>3, <2>1, <2>2 DEF Leftovers
    <2>7. QED
        BY <2>4, <2>5, <2>6
<1>9. QED
    BY <1>5, <1>6, <1>7, <1>8 DEF SendInv, SpoolInv

LEMMA StopStep ==
    ASSUME SendInv, Sending!SendingAssumption, Sending!Stop PROVE SendInv'
<1> DEFINE left(f) == IF f.owner \in Handlers THEN [f EXCEPT !.owner = "dead"] ELSE f
<1>0. /\ Sending!TypeOK /\ Once /\ Sending!AnswerIsHonest /\ Standing
      /\ (Tidy => OwnFiles /\ OtherFiles /\ Leftovers)
      /\ Handlers \cap {"other", "dead", "old"} = {} /\ Sending!NoPid \notin Pids
      /\ files \subseteq FileType /\ request \in [Handlers -> RequestType]
      /\ view \in [Views -> ViewType]
    BY RequestAt DEF SendInv, SpoolInv, Sending!SendingAssumption
<1>1. /\ pid # Sending!NoPid /\ pid' = Sending!NoPid /\ files' = {left(f) : f \in files}
      /\ request' = [u \in Handlers |-> IF u \in Sending!Active
                                        THEN [request[u] EXCEPT !.phase = "answered"]
                                        ELSE request[u]]
      /\ view' = [v \in Views |-> IF view[v].phase = "url"
                                  THEN [view[v] EXCEPT !.phase = "answered"] ELSE view[v]]
      /\ sweep' = "due" /\ todo' = {} /\ doomed' = Sending!NoPid
      /\ UNCHANGED <<others, busy, launches, starts, dirs, sent, inS3, mishaps>>
    BY DEF Sending!Stop, Sending!service
<1>2. ASSUME NEW f \in files
      PROVE  /\ left(f) \in FileType /\ left(f).dir = f.dir
             /\ left(f).owner = IF f.owner \in Handlers THEN "dead" ELSE f.owner
             /\ f.owner \notin Handlers => left(f) = f
    BY <1>0, ChangesHands
<1>3. ASSUME NEW g \in files'
      PROVE  \E f \in files : /\ g \in FileType /\ g.dir = f.dir
                              /\ g.owner = IF f.owner \in Handlers THEN "dead" ELSE f.owner
                              /\ f.owner \notin Handlers => g = f
    BY <1>1, <1>2
<1>4. \A f \in files : f.owner \notin Handlers => f \in files'
    BY <1>1
<1> HIDE DEF left
<1>5. ASSUME NEW u \in Handlers
      PROVE  /\ request'[u] \in RequestType /\ request'[u].phase \in {"new", "answered"}
             /\ request'[u].kind = request[u].kind /\ request'[u].answer = request[u].answer
             /\ request'[u].phase = "new" => request'[u] = request[u]
    BY <1>0, <1>1 DEF RequestType, Phases, Sending!Active
<1>6. request' \in [Handlers -> RequestType]
    BY <1>1, <1>5
<1>7. ASSUME NEW v \in Views
      PROVE  view'[v] \in ViewType /\ view'[v].of = view[v].of /\ view'[v].got = view[v].got
    BY <1>0, <1>1 DEF ViewType
<1>8. view' \in [Views -> ViewType]
    BY <1>1, <1>7
<1>9. Once'
    BY <1>0, <1>1, <1>5 DEF Once, OnceOf, Sending!Converting
<1>10. Sending!AnswerIsHonest'
    <2>1. \A v \in Views : view'[v].got # "none" => view'[v].of \subseteq inS3
        BY <1>0, <1>7 DEF Sending!AnswerIsHonest
    <2>2. ASSUME NEW u \in Handlers
          PROVE  /\ sent[u] <= 1
                 /\ request'[u].answer = "ok" =>
                       /\ sent[u] = 1
                       /\ request'[u].kind = "text" \/ u \in inS3 \/ "noUrl" \in mishaps
        BY <1>0, <1>5 DEF Sending!AnswerIsHonest
    <2>3. QED
        BY <1>1, <2>1, <2>2 DEF Sending!AnswerIsHonest
<1>11. Sending!TypeOK'
    <2>1. files' \subseteq FileType
        BY <1>3
    <2>2. QED
        BY <1>0, <1>1, <1>6, <1>8, <2>1
        DEF Sending!TypeOK, FileType, RequestType, Phases, ViewType
<1>12. Standing'
    <2>1. \A g \in files' : g.dir \in dirs'
        BY <1>0, <1>1, <1>3 DEF Standing
    <2>2. Sending!Active' = {}
        BY <1>5 DEF Sending!Active
    <2>3. Sending!NoPid \notin others
        BY <1>0 DEF Sending!TypeOK
    <2>4. QED
        BY <1>0, <1>1, <2>1, <2>2, <2>3 DEF Standing
<1>13. Tidy' => OwnFiles' /\ OtherFiles' /\ Leftovers'
    <2> SUFFICES ASSUME Tidy PROVE OwnFiles' /\ OtherFiles' /\ Leftovers'
        BY <1>1 DEF Tidy
    <2>1. ASSUME NEW u \in Handlers
          PROVE  Sending!Owned(u)' = {} /\ Sending!FilesIn(request'[u]) = {}
        <3>1. Sending!FilesIn(request'[u]) = {}
            BY <1>5 DEF Sending!FilesIn
        <3>2. \A g \in files' : g.owner # u
            BY <1>0, <1>3
        <3>3. QED
            BY <3>1, <3>2 DEF Sending!Owned
    <2>2. OwnFiles'
        BY <2>1 DEF OwnFiles
    <2>3. OtherFiles'
        <3>1. ASSUME NEW q \in busy PROVE Sending!FileOf(q, "other", "in") \in files'
            BY <1>0, <1>4, FileFields DEF OtherFiles
        <3>2. Sending!NoPid \notin others
            BY <1>0 DEF Sending!TypeOK
        <3>3. QED
            BY <1>1, <3>1, <3>2 DEF OtherFiles
    <2>4. Leftovers'
        <3>1. ASSUME NEW f \in files, f.owner \in Handlers PROVE f.dir = pid
            <4>1. f \in Sending!Owned(f.owner)
                BY DEF Sending!Owned
            <4>2. PICK x \in Sending!FilesIn(request[f.owner]) :
                      f = Sending!FileOf(pid, f.owner, x)
                BY <1>0, <3>1, <4>1 DEF OwnFiles
            <4>3. QED
                BY <4>2, FileFields
        <3>2. \A f \in files : f.dir # Sending!NoPid
            BY <1>0 DEF FileType
        <3>3. \A f \in files : f.owner \in Handlers => f.dir \notin others
            BY <1>0, <3>1 DEF Standing
        <3>4. \A g \in files' : g.owner \in {"dead", "old"} =>
                  g.dir # Sending!NoPid /\ g.dir \notin others
            BY <1>0, <1>3, <3>2, <3>3 DEF Leftovers
        <3>5. QED
            BY <1>1, <3>4 DEF Leftovers
    <2>5. QED
        BY <2>2, <2>3, <2>4
<1>14. QED
    BY <1>9, <1>10, <1>11, <1>12, <1>13 DEF SendInv, SpoolInv


LEMMA OtherStartsStep ==
    ASSUME SendInv, Sending!SendingAssumption, NEW p \in Pids, NEW converts \in BOOLEAN,
           Sending!OtherStarts(p, converts)
    PROVE  SendInv'
<1> DEFINE photo == Sending!FileOf(p, "other", "in")
<1>0. /\ Sending!TypeOK /\ Standing /\ (Tidy => OwnFiles /\ OtherFiles /\ Leftovers)
      /\ Handlers \cap {"other", "dead", "old"} = {} /\ Sending!NoPid \notin Pids
      /\ MaxOthers \in Nat /\ files \subseteq FileType
    BY RequestAt DEF SendInv, SpoolInv, Sending!SendingAssumption
<1>1. /\ starts < MaxOthers /\ p \notin others /\ p # pid
      /\ others' = others \cup {p} /\ starts' = starts + 1
      /\ mishaps' = mishaps \cup Sending!TakesOver(p)
                            \cup (IF p = doomed THEN {"startedSince"} ELSE {})
      /\ \/ busy' = busy \cup {p} /\ dirs' = dirs \cup {p} /\ files' = files \cup {photo}
         \/ UNCHANGED <<busy, dirs, files>>
      /\ UNCHANGED <<pid, launches, sweep, todo, doomed, request, sent, inS3, view>>
    BY DEF Sending!OtherStarts, Sending!sweeping, Sending!service
<1>2. photo \in FileType /\ photo.owner = "other" /\ photo.dir = p
    BY FileFields DEF Sending!Parts
<1> HIDE DEF photo
<1>3. Once' /\ Sending!AnswerIsHonest'
    BY <1>1, SameAnswers
<1>4. Sending!TypeOK'
    <2>1. Sending!TakesOver(p) \subseteq {"sameId"}
        BY DEF Sending!TakesOver
    <2>2. mishaps' \subseteq {"startedSince", "sameId", "noUrl"} /\ starts' \in 0..MaxOthers
        <3>1. mishaps' \subseteq mishaps \cup {"sameId", "startedSince"}
            BY <1>1, <2>1
        <3>2. mishaps' \subseteq {"startedSince", "sameId", "noUrl"}
            BY <1>0, <3>1 DEF Sending!TypeOK
        <3>3. starts' \in 0..MaxOthers
            BY <1>0, <1>1 DEF Sending!TypeOK
        <3>4. QED
            BY <3>2, <3>3
    <2>3. files' \subseteq FileType /\ busy' \subseteq others' /\ dirs' \subseteq Pids
        BY <1>0, <1>1, <1>2 DEF Sending!TypeOK
    <2>4. todo' \subseteq dirs'
        BY <1>0, <1>1 DEF Sending!TypeOK
    <2>5. QED
        BY <1>0, <1>1, <2>2, <2>3, <2>4 DEF Sending!TypeOK, FileType
<1>5. Standing'
    BY <1>0, <1>1, <1>2 DEF Standing, Sending!Active
<1>6. Tidy' => OwnFiles' /\ OtherFiles' /\ Leftovers'
    <2> SUFFICES ASSUME Tidy' PROVE OwnFiles' /\ OtherFiles' /\ Leftovers'
        OBVIOUS
    <2>1. Tidy /\ Sending!TakesOver(p) = {} /\ p # doomed
        <3>1. "startedSince" \notin mishaps' /\ "sameId" \notin mishaps'
            BY DEF Tidy
        <3>2. QED
            BY <1>1, <3>1 DEF Tidy, Sending!TakesOver
    <2>2. \A f \in files : f.dir # p
        BY <1>0, <2>1 DEF Standing, Sending!TakesOver
    <2>3. \A f \in files' : f \in files \/ f = photo
        BY <1>1
    <2>4. OwnFiles'
        <3>1. \A u \in Handlers : Sending!Owned(u)' = Sending!Owned(u)
            BY <1>0, <1>1, <1>2 DEF Sending!Owned
        <3>2. QED
            BY <1>0, <1>1, <2>1, <3>1 DEF OwnFiles
    <2>5. OtherFiles'
        <3>1. ASSUME NEW q \in busy' PROVE Sending!FileOf(q, "other", "in") \in files'
            <4>1. CASE q \in busy
                BY <1>0, <1>1, <2>1, <4>1 DEF OtherFiles
            <4>2. CASE q \notin busy
                <5>1. q = p /\ photo \in files'
                    BY <1>1, <4>2
                <5>2. QED
                    BY <5>1 DEF photo
            <4>3. QED
                BY <4>1, <4>2
        <3>2. QED
            BY <1>0, <1>1, <2>1, <3>1 DEF OtherFiles
    <2>6. Leftovers'
        BY <1>0, <1>1, <1>2, <2>1, <2>2, <2>3 DEF Leftovers
    <2>7. QED
        BY <2>4, <2>5, <2>6
<1>7. QED
    BY <1>3, <1>4, <1>5, <1>6 DEF SendInv, SpoolInv

LEMMA OtherEndsStep ==
    ASSUME SendInv, Sending!SendingAssumption, NEW p \in Pids, Sending!OtherEnds(p)
    PROVE  SendInv'
<1> DEFINE left(f) == IF f.dir = p /\ f.owner = "other" THEN [f EXCEPT !.owner = "dead"] ELSE f
           photo == Sending!FileOf(p, "other", "in")
<1>0. /\ Sending!TypeOK /\ Standing /\ (Tidy => OwnFiles /\ OtherFiles /\ Leftovers)
      /\ Handlers \cap {"other", "dead", "old"} = {}
      /\ files \subseteq FileType
    BY RequestAt DEF SendInv, SpoolInv, Sending!SendingAssumption
<1>1. /\ p \in others /\ others' = others \ {p} /\ busy' = busy \ {p}
      /\ files' = files \ {photo} \/ files' = {left(f) : f \in files}
      /\ UNCHANGED <<pid, launches, starts, dirs, sweep, todo, doomed, request, sent, inS3,
                     view, mishaps>>
    BY DEF Sending!OtherEnds, Sending!sweeping, Sending!service
<1>2. ASSUME NEW f \in files
      PROVE  /\ left(f) \in FileType /\ left(f).dir = f.dir
             /\ left(f) = f \/ (f.dir = p /\ f.owner = "other" /\ left(f).owner = "dead")
             /\ (f.dir = p /\ f.owner = "other") \/ left(f) = f
    <2>1. f \in FileType
        BY <1>0
    <2>2. CASE f.dir = p /\ f.owner = "other"
        BY <2>1, <2>2, ChangesHands
    <2>3. CASE ~(f.dir = p /\ f.owner = "other")
        BY <2>1, <2>3
    <2>4. QED
        BY <2>2, <2>3
<1>3. ASSUME NEW g \in files'
      PROVE  \/ g \in files
             \/ \E f \in files : /\ g \in FileType /\ g.dir = p /\ f.dir = p
                                 /\ f.owner = "other" /\ g.owner = "dead"
    <2>1. CASE files' = files \ {photo}
        BY <2>1
    <2>2. CASE files' = {left(f) : f \in files}
        <3>1. PICK f \in files : g = left(f)
            BY <2>2
        <3>2. g = f \/ (f.dir = p /\ f.owner = "other" /\ g.owner = "dead")
            BY <1>2, <3>1
        <3>3. g \in FileType /\ g.dir = f.dir
            BY <1>2, <3>1
        <3>4. QED
            BY <3>2, <3>3
    <2>3. QED
        BY <1>1, <2>1, <2>2
<1>4. photo.dir = p /\ photo.owner = "other"
    BY FileFields
<1>5. ASSUME NEW f \in files, f.dir # p \/ f.owner # "other" PROVE f \in files'
    <2>1. f # photo /\ left(f) = f
        BY <1>2, <1>4, <1>5
    <2>2. QED
        BY <1>1, <2>1
<1> HIDE DEF left, photo
<1>6. Once' /\ Sending!AnswerIsHonest'
    BY <1>1, SameAnswers
<1>7. Sending!TypeOK'
    <2>1. files' \subseteq FileType
        BY <1>0, <1>3
    <2>2. QED
        BY <1>0, <1>1, <2>1 DEF Sending!TypeOK, FileType
<1>8. Standing'
    <2>1. \A g \in files' : g.dir \in dirs'
        BY <1>0, <1>1, <1>3 DEF Standing
    <2>2. QED
        BY <1>0, <1>1, <2>1 DEF Standing, Sending!Active
<1>9. Tidy' => OwnFiles' /\ OtherFiles' /\ Leftovers'
    <2> SUFFICES ASSUME Tidy PROVE OwnFiles' /\ OtherFiles' /\ Leftovers'
        BY <1>1 DEF Tidy
    <2>1. OwnFiles'
        <3>1. ASSUME NEW u \in Handlers PROVE Sending!Owned(u)' = Sending!Owned(u)
            <4>1. u # "other" /\ u # "dead"
                BY <1>0
            <4>2. QED
                BY <1>3, <1>5, <4>1 DEF Sending!Owned
        <3>2. QED
            BY <1>0, <1>1, <3>1 DEF OwnFiles
    <2>2. OtherFiles'
        <3>1. ASSUME NEW q \in busy, q # p PROVE Sending!FileOf(q, "other", "in") \in files'
            BY <1>0, <1>5, <3>1, FileFields DEF OtherFiles
        <3>2. QED
            BY <1>0, <1>1, <3>1 DEF OtherFiles
    <2>3. Leftovers'
        <3>1. p # pid
            BY <1>0, <1>1 DEF Standing
        <3>2. ASSUME NEW g \in files', g.owner \in {"dead", "old"}
              PROVE  g.dir # pid /\ g.dir \notin others'
            BY <1>0, <1>1, <1>3, <3>1, <3>2 DEF Leftovers
        <3>3. ASSUME NEW g \in files', g.owner = "old"
              PROVE  sweep = "due" \/ (sweep = "running" /\ g.dir \in todo \cup {doomed})
            BY <1>0, <1>3, <3>3 DEF Leftovers
        <3>4. QED
            BY <1>1, <3>2, <3>3 DEF Leftovers
    <2>4. QED
        BY <2>1, <2>2, <2>3
<1>10. QED
    BY <1>6, <1>7, <1>8, <1>9 DEF SendInv, SpoolInv

LEMMA SendQuiet == ASSUME SendInv, UNCHANGED Sending!sendVars PROVE SendInv'
<1>1. UNCHANGED <<pid, others, busy, launches, starts, dirs, files, sweep, todo, doomed,
                  request, sent, inS3, view, mishaps>>
    BY DEF Sending!sendVars, Sending!processes, Sending!spool, Sending!sweeping,
           Sending!service
<1>2. Sending!TypeOK'
    BY <1>1 DEF SendInv, Sending!TypeOK
<1>3. Once' /\ Sending!AnswerIsHonest'
    BY <1>1, SameAnswers
<1>4. SpoolInv'
    BY <1>1, SameFiles
<1>5. QED
    BY <1>2, <1>3, <1>4 DEF SendInv

LEMMA SendStep ==
    Sending!SendingAssumption /\ SendInv /\ [Sending!Next]_(Sending!sendVars) => SendInv'
<1> SUFFICES ASSUME Sending!SendingAssumption, SendInv, [Sending!Next]_(Sending!sendVars)
             PROVE  SendInv'
    OBVIOUS
<1>1. ASSUME NEW u \in Handlers, Sending!Serve(u) PROVE SendInv'
    BY <1>1, TakenStep, MakeTempStep, NormalizeStep, EncodeStep, PostStep, UploadStep
    DEF Sending!Serve
<1>2. ASSUME NEW v \in Views, Sending!Fetch(v) \/ \E u \in Handlers : Sending!AskUrl(v, u)
      PROVE  SendInv'
    BY <1>2, ViewStep
<1>3. CASE Sending!Sweep
    BY <1>3, BeginSweepStep, ExamineStep, RemoveDoomedStep, EndSweepStep DEF Sending!Sweep
<1>4. CASE Sending!Processes
    BY <1>4, BootStep, StopStep, OtherStartsStep, OtherEndsStep DEF Sending!Processes
<1>5. CASE UNCHANGED Sending!sendVars
    BY <1>5, SendQuiet
<1>6. QED
    BY <1>1, <1>2, <1>3, <1>4, <1>5 DEF Sending!Next

LEMMA SpoolExact == SendInv => Sending!SpoolIsExact
<1> SUFFICES ASSUME SendInv, Tidy
             PROVE  /\ OwnFiles
                    /\ \A p \in busy : Sending!FileOf(p, "other", "in") \in files
                    /\ sweep = "done" => \A f \in files : f.owner # "old"
    BY DEF Sending!SpoolIsExact, Tidy, OwnFiles
<1>1. OwnFiles /\ OtherFiles /\ Leftovers
    BY DEF SendInv, SpoolInv
<1>2. QED
    BY <1>1 DEF OtherFiles, Leftovers


-------------------------------------------------------------------------------
\* The groups side by side

\* The invariant of the group that a behaviour is of, and of OtpLogin, whose
\* variables rest in the behaviours of the others.
WebInv ==
    /\ part \in Parts
    /\ Inv
    /\ part = "ntfy" => NtfyInv
    /\ part = "limits" => LimitsInv
    /\ part = "sending" => SendInv
    /\ part = "wire" => WireInv
    /\ part = "ota" => OtaInv

LEMMA WebInitInv == WebInit => WebInv
<1> SUFFICES ASSUME WebInit PROVE WebInv
    OBVIOUS
<1>1. part \in Parts /\ Inv
    BY InitInv DEF WebInit
<1>2. part = "ntfy" => NtfyInv
    BY NtfyInit, WebAssumption DEF WebInit, WebAssumption
<1>3. part = "limits" => LimitsInv
    BY LimitsInit, WebAssumption DEF WebInit, WebAssumption
<1>4. part = "sending" => SendInv
    BY SendInit, WebAssumption DEF WebInit, WebAssumption
<1>5. part = "wire" => WireInv
    BY WireInit DEF WebInit
<1>6. part = "ota" => OtaInv
    BY OtaSteps DEF WebInit
<1>7. QED
    BY <1>1, <1>2, <1>3, <1>4, <1>5, <1>6 DEF WebInv

\* A step of the composition is a step of the group that it is of, or none of it.
LEMMA StepOfPart ==
    ASSUME [WebNext]_webVars
    PROVE  /\ part' = part /\ [Next]_vars
           /\ part = "ntfy" => [Ntfy!Next]_(Ntfy!ntfyVars)
           /\ part = "limits" => [Limits!Next]_(Limits!limiterVars)
           /\ part = "sending" => [Sending!Next]_(Sending!sendVars)
           /\ part = "wire" => [Wired!Next]_(Wired!wireVars)
           /\ part = "ota" => [Ota!Next]_(Ota!otaVars)
<1>1. CASE WebNext
    <2>1. part' = part /\ [Next]_vars
        BY <1>1 DEF WebNext, OtpPart, NtfyPart, LimitPart, SendingPart, WirePart, OtaPart
    <2>2. /\ part = "ntfy" => Ntfy!Next
          /\ part = "limits" => Limits!Next
          /\ part = "sending" => Sending!Next
          /\ part = "wire" => Wired!Next
          /\ part = "ota" => Ota!Next
        BY <1>1 DEF WebNext, OtpPart, NtfyPart, LimitPart, SendingPart, WirePart, OtaPart
    <2>3. QED
        BY <2>1, <2>2
<1>2. CASE UNCHANGED webVars
    <2>1. /\ UNCHANGED <<ntfyState, limitState, sendState, wireState, otaState>>
          /\ UNCHANGED vars /\ part' = part
        BY <1>2 DEF webVars
    <2>2. UNCHANGED Ntfy!ntfyVars
        BY <2>1 DEF ntfyState, Ntfy!ntfyVars, Ntfy!memoryVars, Ntfy!diskVars, Ntfy!histories
    <2>3. UNCHANGED Limits!limiterVars
        BY <2>1 DEF limitState, Limits!limiterVars
    <2>4. UNCHANGED Sending!sendVars
        BY <2>1 DEF sendState, Sending!sendVars, Sending!processes, Sending!spool,
                    Sending!sweeping, Sending!service
    <2>5. UNCHANGED Wired!wireVars /\ UNCHANGED Ota!otaVars
        BY <2>1 DEF wireState, otaState, Wired!wireVars, Ota!otaVars
    <2>6. QED
        BY <2>1, <2>2, <2>3, <2>4, <2>5
<1>3. QED
    BY <1>1, <1>2

LEMMA WebInvStep == WebInv /\ [WebNext]_webVars => WebInv'
<1> SUFFICES ASSUME WebInv, [WebNext]_webVars PROVE WebInv'
    OBVIOUS
<1>1. /\ part' = part /\ [Next]_vars
      /\ part = "ntfy" => [Ntfy!Next]_(Ntfy!ntfyVars)
      /\ part = "limits" => [Limits!Next]_(Limits!limiterVars)
      /\ part = "sending" => [Sending!Next]_(Sending!sendVars)
      /\ part = "wire" => [Wired!Next]_(Wired!wireVars)
      /\ part = "ota" => [Ota!Next]_(Ota!otaVars)
    BY StepOfPart
<1>2. Inv'
    BY <1>1, InvStep DEF WebInv
<1>3. part' = "ntfy" => NtfyInv'
    BY <1>1, NtfyStep, WebAssumption DEF WebInv, WebAssumption
<1>4. part' = "limits" => LimitsInv'
    BY <1>1, LimitsStep, WebAssumption DEF WebInv, WebAssumption
<1>5. part' = "sending" => SendInv'
    BY <1>1, SendStep, WebAssumption DEF WebInv, WebAssumption
<1>6. part' = "wire" => WireInv'
    BY <1>1, WireStep, WebAssumption DEF WebInv, WebAssumption
<1>7. part' = "ota" => OtaInv'
    BY <1>1, OtaSteps DEF WebInv
<1>8. QED
    BY <1>1, <1>2, <1>3, <1>4, <1>5, <1>6, <1>7 DEF WebInv

LEMMA WebInvariance == WebSpec => []WebInv
BY WebInitInv, WebInvStep, PTL DEF WebSpec

-------------------------------------------------------------------------------
\* Theorems

\* The variables of every group of handlers have their types.
THEOREM HandlersTypeCorrect == WebSpec => []HandlersTypeOK
<1>1. WebInv => HandlersTypeOK
    <2> SUFFICES ASSUME WebInv PROVE HandlersTypeOK
        OBVIOUS
    <2>1. TypeOK
        BY DEF WebInv, Inv
    <2>2. part = "ntfy" => Ntfy!TypeOK
        BY DEF WebInv, NtfyInv
    <2>3. part = "limits" => Limits!TypeOK
        BY DEF WebInv, LimitsInv
    <2>4. part = "sending" => Sending!TypeOK
        BY DEF WebInv, SendInv
    <2>5. part = "wire" => Wired!TypeOK
        BY DEF WebInv, WireInv
    <2>6. part = "ota" => Ota!TypeOK
        BY LayoutIsBytes, WebAssumption DEF WebInv, WebAssumption
    <2>7. part \in {"otp", "ntfy", "limits", "sending", "wire", "ota"}
        BY DEF WebInv, Parts
    <2>8. QED
        BY <2>1, <2>2, <2>3, <2>4, <2>5, <2>6, <2>7 DEF HandlersTypeOK
<1>2. QED
    BY <1>1, WebInvariance, PTL

\* What sendNtfy sends, and what the file says between two changes, are what the
\* user last asked for, across logins, logouts and starts, unless a mixup that
\* the model names has lost it.
THEOREM NtfyFollows == WebSpec => []NtfyFollowsUser
<1>1. WebInv => NtfyFollowsUser
    BY NtfyPromise DEF WebInv, NtfyFollowsUser
<1>2. QED
    BY <1>1, WebInvariance, PTL

\* rateLimiter.allow lets no key have more than its limit in any window, the
\* prunes in the calls of other keys included.
THEOREM TheLimitHolds == WebSpec => []LimitHolds
<1>1. LimitsInv => Limits!LimitHolds
    BY DEF LimitsInv, Logs, Log, Limits!LimitHolds
<1>2. WebInv => LimitHolds
    BY <1>1 DEF WebInv, LimitHolds
<1>3. QED
    BY <1>2, WebInvariance, PTL

\* The files of mediaTempDir are those of the conversions that run, however
\* requests and processes end, unless an ID is taken over.
THEOREM TheSpoolIsExact == WebSpec => []SpoolIsExact
<1>1. WebInv => SpoolIsExact
    BY SpoolExact DEF WebInv, SpoolIsExact
<1>2. QED
    BY <1>1, WebInvariance, PTL

\* handleSendMedia and the others answer "ok" only for what Garmin has, send
\* nothing twice, and handleProxyMedia serves no media that is not stored.
THEOREM AnswersAreHonest == WebSpec => []AnswerIsHonest
<1>1. WebInv => AnswerIsHonest
    BY DEF WebInv, SendInv, AnswerIsHonest
<1>2. QED
    BY <1>1, WebInvariance, PTL

\* MessageModel.UnmarshalJSON and the other decoders read from every spelling
\* of a frame what is meant, and the receivers publish that and no more.
THEOREM FramesAreHeardAsMeant == WebSpec => []HeardAsMeant
<1>1. WebInv => HeardAsMeant
    BY DEF WebInv, WireInv, HeardAsMeant
<1>2. QED
    BY <1>1, WebInvariance, PTL

\* Every identifier that GenerateOTAUUID makes has the fields asked for, and no
\* others, whatever the timestamp and the random bytes.
THEOREM EveryFieldReadsBack == WebSpec => []FieldsReadBack
<1>1. WebInv => FieldsReadBack
    BY LayoutReadsBack, WebAssumption DEF WebInv, WebAssumption, FieldsReadBack
<1>2. QED
    BY <1>1, WebInvariance, PTL


===============================================================================
