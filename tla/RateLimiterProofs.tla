-------------------------- MODULE RateLimiterProofs --------------------------
(***************************************************************************)
(* The bound of the rate limiter for any rate and window.  WindowInv says  *)
(* where the open window lies in the log: its requests are the last count  *)
(* entries, and what is Allowed or more places before it was admitted a    *)
(* whole window before it opened.                                          *)
(***************************************************************************)
EXTENDS RateLimiter, TLAPS

\* The log of an address and the window that is open for it.
WindowAt(s, c, f) ==
    /\ c <= Len(s)
    /\ c = 0 => Len(s) = 0
    /\ c > 0 => s[Len(s) - c + 1] = f
    /\ \A i, j \in 1..Len(s) : i <= j => s[i] <= s[j]
    /\ \A j \in 1..Len(s) : s[j] <= now
    /\ \A j \in 1..Len(s) : j <= Len(s) - c - Allowed + 1 => s[j] + Window <= f

Spans(s) ==
    \A i \in 1..Len(s) :
        i + 2 * Allowed - 1 <= Len(s) => s[i + 2 * Allowed - 1] - s[i] >= Window

LimiterInv ==
    /\ TypeOK
    /\ \A a \in Addresses : WindowAt(log[a], ips[a].count, ips[a].firstReq)
    /\ \A a \in Addresses : Spans(log[a])

LEMMA AllowedPositive == TypeOK => Allowed \in Nat /\ Allowed >= 1
  BY LimiterAssumption DEF TypeOK, Allowed

\* A sequence with one more element.
LEMMA Appended ==
    ASSUME NEW s \in Seq(Nat), NEW t \in Nat
    PROVE  /\ Append(s, t) \in Seq(Nat)
           /\ Len(s) \in Nat
           /\ Len(Append(s, t)) = Len(s) + 1
           /\ Append(s, t)[Len(s) + 1] = t
           /\ \A i \in 1..Len(s) : Append(s, t)[i] = s[i] /\ s[i] \in Nat
  OBVIOUS

LEMMA LimiterInit == Init => LimiterInv
  <1> SUFFICES ASSUME Init PROVE LimiterInv
    OBVIOUS
  <1>1. TypeOK
    BY LimiterAssumption DEF Init, TypeOK, Entry, Allowed
  <1> QED
    BY <1>1 DEF Init, LimiterInv, WindowAt, Spans

\* A request that opens a window: the last one has ended a window ago.
LEMMA OpensKeeps ==
    ASSUME TypeOK, NEW s \in Seq(Nat), NEW c \in 0..Allowed, NEW f \in Nat,
           WindowAt(s, c, f), Spans(s), c = 0 \/ now - f >= Window
    PROVE  WindowAt(Append(s, now), 1, now) /\ Spans(Append(s, now))
  <1> DEFINE n == Len(s)
             u == Append(s, now)
             A == Allowed
  <1>1. now \in Nat /\ Window \in Nat /\ A \in Nat /\ A >= 1
    BY AllowedPositive, LimiterAssumption DEF TypeOK
  <1>2. /\ n \in Nat /\ Len(u) = n + 1 /\ u[n + 1] = now
        /\ \A i \in 1..n : u[i] = s[i] /\ s[i] \in Nat
    BY <1>1, Appended
  <1>3. \A j \in 1..n : j <= n - c + 1 => s[j] + Window <= now
    <2> SUFFICES ASSUME NEW j \in 1..n, j <= n - c + 1 PROVE s[j] + Window <= now
      OBVIOUS
    <2>1. c > 0 /\ n - c + 1 \in 1..n /\ s[n - c + 1] = f
      BY <1>2 DEF WindowAt
    <2>2. s[j] <= f /\ s[j] \in Nat
      BY <1>2, <2>1 DEF WindowAt
    <2> QED
      BY <1>1, <2>1, <2>2
  <1>ord. /\ \A i, j \in 1..n : i <= j => s[i] <= s[j]
        /\ \A j \in 1..n : s[j] <= now
    BY DEF WindowAt
  <1> HIDE DEF u, n, A
  <1>4. \A j \in 1..n : j <= (n + 1) - 1 - A + 1 => u[j] + Window <= now
    BY <1>1, <1>2, <1>3 DEF A
  <1>5. WindowAt(u, 1, now)
    <2>1. \A i, j \in 1..Len(u) : i <= j => u[i] <= u[j]
      <3> SUFFICES ASSUME NEW i \in 1..Len(u), NEW j \in 1..Len(u), i <= j
                   PROVE  u[i] <= u[j]
        OBVIOUS
      <3>1. CASE j <= n
        <4>1. i \in 1..n /\ j \in 1..n
          BY <1>2, <3>1
        <4> QED
          BY <1>2, <1>ord, <4>1
      <3>2. CASE j = n + 1
        <4>1. i = n + 1 \/ i \in 1..n
          BY <1>2
        <4> QED
          BY <1>1, <1>2, <1>ord, <3>2, <4>1
      <3> QED
        BY <1>2, <3>1, <3>2
    <2>2. \A j \in 1..Len(u) : u[j] <= now
      <3> SUFFICES ASSUME NEW j \in 1..Len(u) PROVE u[j] <= now
        OBVIOUS
      <3>1. j = n + 1 \/ j \in 1..n
        BY <1>2
      <3> QED
        BY <1>1, <1>2, <1>ord, <3>1
    <2>3. \A j \in 1..Len(u) : j <= Len(u) - 1 - Allowed + 1 => u[j] + Window <= now
      BY <1>1, <1>2, <1>4 DEF A
    <2> QED
      BY <1>2, <2>1, <2>2, <2>3 DEF WindowAt
  <1>6. Spans(u)
    <2> SUFFICES ASSUME NEW i \in 1..Len(u), i + 2 * A - 1 <= Len(u)
                 PROVE  u[i + 2 * A - 1] - u[i] >= Window
      BY DEF Spans, A
    <2>1. CASE i + 2 * A - 1 <= n
      <3>1. i \in 1..n /\ i + 2 * A - 1 \in 1..n
        BY <1>1, <1>2, <2>1
      <3> QED
        BY <1>2, <2>1, <3>1 DEF Spans, n, A
    <2>2. CASE i + 2 * A - 1 = n + 1
      <3>1. i \in 1..n /\ i <= n - c + 1
        BY <1>1, <1>2, <2>2 DEF A
      <3>2. u[i] = s[i] /\ s[i] + Window <= now
        BY <1>2, <1>3, <3>1
      <3>3. u[i + 2 * A - 1] = now
        BY <1>2, <2>2
      <3> QED
        BY <1>1, <1>2, <3>1, <3>2, <3>3
    <2> QED
      BY <1>1, <1>2, <2>1, <2>2
  <1> QED
    BY <1>5, <1>6 DEF u

\* A request in an open window that has room.
LEMMA CountsKeeps ==
    ASSUME TypeOK, NEW s \in Seq(Nat), NEW c \in 1..Allowed, NEW f \in Nat,
           WindowAt(s, c, f), Spans(s), c + 1 <= Allowed, f <= now
    PROVE  WindowAt(Append(s, now), c + 1, f) /\ Spans(Append(s, now))
  <1> DEFINE n == Len(s)
             u == Append(s, now)
             A == Allowed
  <1>1. now \in Nat /\ Window \in Nat /\ A \in Nat /\ A >= 1
    BY AllowedPositive, LimiterAssumption DEF TypeOK
  <1>2. /\ n \in Nat /\ Len(u) = n + 1 /\ u[n + 1] = now
        /\ \A i \in 1..n : u[i] = s[i] /\ s[i] \in Nat
    BY <1>1, Appended
  <1>ord. /\ \A i, j \in 1..n : i <= j => s[i] <= s[j]
        /\ \A j \in 1..n : s[j] <= now
    BY DEF WindowAt
  <1> HIDE DEF u, n, A
  <1>3. c <= n /\ s[n - c + 1] = f /\ n - c + 1 \in 1..n
    BY <1>1, <1>2 DEF WindowAt, n
  <1>4. \A j \in 1..n : j <= n - c - A + 1 => s[j] + Window <= f
    BY DEF WindowAt, n, A
  <1>5. WindowAt(u, c + 1, f)
    <2>1. \A i, j \in 1..Len(u) : i <= j => u[i] <= u[j]
      <3> SUFFICES ASSUME NEW i \in 1..Len(u), NEW j \in 1..Len(u), i <= j
                   PROVE  u[i] <= u[j]
        OBVIOUS
      <3>1. CASE j <= n
        <4>1. i \in 1..n /\ j \in 1..n
          BY <1>2, <3>1
        <4> QED
          BY <1>2, <1>ord, <4>1
      <3>2. CASE j = n + 1
        <4>1. i = n + 1 \/ i \in 1..n
          BY <1>2
        <4> QED
          BY <1>1, <1>2, <1>ord, <3>2, <4>1
      <3> QED
        BY <1>2, <3>1, <3>2
    <2>2. \A j \in 1..Len(u) : u[j] <= now
      <3> SUFFICES ASSUME NEW j \in 1..Len(u) PROVE u[j] <= now
        OBVIOUS
      <3>1. j = n + 1 \/ j \in 1..n
        BY <1>2
      <3> QED
        BY <1>1, <1>2, <1>ord, <3>1
    <2>3. \A j \in 1..Len(u) : j <= Len(u) - (c + 1) - Allowed + 1 => u[j] + Window <= f
      BY <1>1, <1>2, <1>4 DEF A
    <2>4. u[Len(u) - (c + 1) + 1] = f
      BY <1>2, <1>3
    <2> QED
      BY <1>2, <1>3, <2>1, <2>2, <2>3, <2>4 DEF WindowAt
  <1>6. Spans(u)
    <2> SUFFICES ASSUME NEW i \in 1..Len(u), i + 2 * A - 1 <= Len(u)
                 PROVE  u[i + 2 * A - 1] - u[i] >= Window
      BY DEF Spans, A
    <2>1. CASE i + 2 * A - 1 <= n
      <3>1. i \in 1..n /\ i + 2 * A - 1 \in 1..n
        BY <1>1, <1>2, <2>1
      <3> QED
        BY <1>2, <2>1, <3>1 DEF Spans, n, A
    <2>2. CASE i + 2 * A - 1 = n + 1
      <3>1. i \in 1..n /\ i <= n - c - A + 1
        BY <1>1, <1>2, <2>2 DEF A
      <3>2. u[i] + Window <= f /\ u[i] \in Nat
        BY <1>2, <1>4, <3>1
      <3> QED
        BY <1>1, <1>2, <2>2, <3>2
    <2> QED
      BY <1>1, <1>2, <2>1, <2>2
  <1> QED
    BY <1>5, <1>6 DEF u

LEMMA AdmitKeeps == ASSUME LimiterInv, NEW a \in Addresses, Admit(a) PROVE LimiterInv'
  <1> DEFINE c == ips[a].count
             f == ips[a].firstReq
             s == log[a]
  <1>1. /\ c \in Nat /\ f \in Nat /\ c <= Allowed /\ f <= now /\ s \in Seq(Nat)
        /\ now \in Nat /\ Allowed \in Nat /\ Allowed >= 1 /\ rate \in Nat
        /\ WindowAt(s, c, f) /\ Spans(s)
    BY AllowedPositive, LimiterAssumption DEF LimiterInv, TypeOK, Entry
  <1>2. /\ log' = [log EXCEPT ![a] = Append(s, now)] /\ Append(s, now) \in Seq(Nat)
        /\ UNCHANGED <<rate, now>> /\ Allowed' = Allowed /\ answer' = "admitted"
    BY <1>1 DEF Admit, Allowed
  <1>3. \E d, h \in Nat :
          /\ ips' = [ips EXCEPT ![a] = [count |-> d, firstReq |-> h]]
          /\ d <= Allowed /\ h <= now
          /\ WindowAt(Append(s, now), d, h) /\ Spans(Append(s, now))
    <2>1. CASE (~ Exists(a) \/ Over(a)) /\ Opens(a)
      <3>1. c = 0 \/ now - f >= Window
        BY <1>1, <2>1 DEF Exists, Over
      <3>2. WindowAt(Append(s, now), 1, now) /\ Spans(Append(s, now))
        BY <1>1, <3>1, OpensKeeps DEF LimiterInv
      <3>3. ips' = [ips EXCEPT ![a] = [count |-> 1, firstReq |-> now]]
        BY <2>1 DEF Opens
      <3>4. 1 \in Nat /\ 1 <= Allowed /\ now \in Nat /\ now <= now
        BY <1>1
      <3> HIDE DEF c, f, s
      <3> QED
        BY <3>2, <3>3, <3>4
    <2>2. CASE Exists(a) /\ ~ Over(a) /\ Fits(a) /\ Counts(a)
      <3>1. c >= 1 /\ c + 1 <= Allowed /\ c + 1 \in Nat
        BY <1>1, <2>2 DEF Exists, Fits, Allowed
      <3>2. WindowAt(Append(s, now), c + 1, f) /\ Spans(Append(s, now))
        BY <1>1, <3>1, CountsKeeps DEF LimiterInv
      <3>3. ips' = [ips EXCEPT ![a] = [count |-> c + 1, firstReq |-> f]]
        BY <2>2 DEF Counts
      <3> QED
        BY <1>1, <3>1, <3>2, <3>3
    <2> QED
      BY <2>1, <2>2 DEF Admit
  <1>4. PICK d \in Nat, h \in Nat :
          /\ ips' = [ips EXCEPT ![a] = [count |-> d, firstReq |-> h]]
          /\ d <= Allowed /\ h <= now
          /\ WindowAt(Append(s, now), d, h) /\ Spans(Append(s, now))
    BY <1>3
  <1> HIDE DEF c, f, s
  <1>5. /\ ips'[a].count = d /\ ips'[a].firstReq = h /\ log'[a] = Append(s, now)
        /\ \A b \in Addresses : b # a => ips'[b] = ips[b] /\ log'[b] = log[b]
        /\ [count |-> d, firstReq |-> h] \in Entry
    BY <1>2, <1>4 DEF LimiterInv, TypeOK, Entry
  <1>6. TypeOK'
    BY <1>2, <1>4, <1>5 DEF LimiterInv, TypeOK
  <1>7. ASSUME NEW b \in Addresses
        PROVE  WindowAt(log[b], ips[b].count, ips[b].firstReq)' /\ Spans(log[b])'
    <2>1. /\ WindowAt(log'[b], ips'[b].count, ips'[b].firstReq) /\ Spans(log'[b])
      BY <1>4, <1>5 DEF LimiterInv
    <2> QED
      BY <1>2, <2>1 DEF WindowAt, Spans
  <1> QED
    BY <1>6, <1>7 DEF LimiterInv

\* Time passes, or nothing but the answer changes.
LEMMA TickKeeps == LimiterInv /\ Tick => LimiterInv'
  <1> SUFFICES ASSUME LimiterInv, Tick PROVE LimiterInv'
    OBVIOUS
  <1>1. now' = now + 1 /\ now \in Nat /\ now' \in 0..MaxTime
        /\ UNCHANGED <<rate, ips, log, answer>> /\ Allowed' = Allowed
    BY LimiterAssumption DEF LimiterInv, TypeOK, Tick, Allowed
  <1>2. TypeOK'
    BY <1>1 DEF LimiterInv, TypeOK, Entry
  <1>3. ASSUME NEW a \in Addresses
        PROVE  WindowAt(log[a], ips[a].count, ips[a].firstReq)' /\ Spans(log[a])'
    <2>1. \A j \in 1..Len(log[a]) : log[a][j] <= now => log[a][j] <= now'
      <3>1. log[a] \in Seq(Nat)
        BY DEF LimiterInv, TypeOK
      <3> QED
        BY <1>1, <3>1
    <2> QED
      BY <1>1, <2>1 DEF LimiterInv, WindowAt, Spans
  <1> QED
    BY <1>2, <1>3 DEF LimiterInv

LEMMA RestKeeps ==
    ASSUME LimiterInv, UNCHANGED <<rate, now, ips, log>>,
           answer' \in {"none", "admitted", "refused"}
    PROVE  LimiterInv'
  BY DEF LimiterInv, TypeOK, WindowAt, Spans, Allowed

LEMMA LimiterStep == LimiterInv /\ [Next]_vars => LimiterInv'
  <1> SUFFICES ASSUME LimiterInv, [Next]_vars PROVE LimiterInv'
    OBVIOUS
  <1>1. CASE \E a \in Addresses : Admit(a)
    BY <1>1, AdmitKeeps
  <1>2. CASE \E a \in Addresses : Refuse(a)
    BY <1>2, RestKeeps DEF Refuse
  <1>3. CASE RefuseUnknown
    BY <1>3, RestKeeps DEF RefuseUnknown
  <1>4. CASE Tick
    BY <1>4, TickKeeps
  <1>5. CASE UNCHANGED vars
    BY <1>5, RestKeeps DEF vars, LimiterInv, TypeOK
  <1> QED
    BY <1>1, <1>2, <1>3, <1>4, <1>5 DEF Next

-----------------------------------------------------------------------------
\* The open window of every address lies where the argument needs it.
THEOREM LimiterInvariant == Spec => []LimiterInv
  BY LimiterInit, LimiterStep, PTL DEF Spec

\* Every variable keeps to its range, the counts to the rate.
THEOREM LimiterTyped == Spec => []TypeOK
  BY LimiterInvariant, PTL DEF LimiterInv

\* 2 * rate requests of an address that pass span a window, around its border too.
THEOREM TwiceTheRate == Spec => []SpansWindow
  <1>1. LimiterInv => SpansWindow
    BY DEF LimiterInv, Spans, SpansWindow
  <1> QED
    BY <1>1, LimiterInvariant, PTL

\* Whoever is refused has used his rate within the last window.
THEOREM NobodyIdleRefused == Spec => RefusesOnlyBusy
  <1>1. ASSUME LimiterInv, NEW a \in Addresses, Refuse(a)
        PROVE  /\ Len(log[a]) >= Allowed
               /\ now - log[a][Len(log[a]) - Allowed + 1] < Window
    <2>1. /\ ips[a].count \in Nat /\ ips[a].firstReq \in Nat /\ rate \in Nat
          /\ ips[a].count <= Allowed /\ ips[a].count > 0
          /\ ~ (now - ips[a].firstReq >= Window) /\ ~ (ips[a].count < rate)
          /\ now \in Nat /\ Window \in Nat
      BY <1>1, LimiterAssumption DEF LimiterInv, TypeOK, Entry, Refuse, Exists, Over, Fits
    <2>2. ips[a].count = Allowed
      BY <2>1 DEF Allowed
    <2>3. Len(log[a]) >= Allowed /\ log[a][Len(log[a]) - Allowed + 1] = ips[a].firstReq
      BY <1>1, <2>1, <2>2 DEF LimiterInv, WindowAt
    <2> QED
      BY <2>1, <2>3
  <1>2. LimiterInv =>
          [\A a \in Addresses :
             Refuse(a) =>
                 /\ Len(log[a]) >= Allowed
                 /\ now - log[a][Len(log[a]) - Allowed + 1] < Window]_vars
    BY <1>1
  <1> QED
    BY <1>2, LimiterInvariant, PTL DEF Spec, RefusesOnlyBusy
=============================================================================
