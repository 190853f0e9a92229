---------------------------- MODULE RateLimiter ----------------------------
(***************************************************************************)
(* The rate limiter in front of every route of the API: a window of fixed  *)
(* length for each client address, opened by the first request after the   *)
(* last window.  isAllowed holds a mutex and reads the clock under it, so  *)
(* a request is one step.                                                  *)
(***************************************************************************)
EXTENDS Integers, Sequences

CONSTANTS
    Addresses,     \* what getClientIP returns
    Rates,         \* values of the setting API_RATE_LIMIT
    Window,        \* API_RATE_WINDOW_SECS, in ticks of the clock
    MaxTime,       \* bound: ticks
    MaxRequests    \* bound: admitted requests of an address

ASSUME LimiterAssumption ==
    /\ Rates \subseteq Nat
    /\ Window \in Nat /\ MaxTime \in Nat /\ MaxRequests \in Nat

VARIABLES
    rate,
    now,
    ips,     \* the map; count 0 is an address that is not in it
    log,     \* history: when an address was admitted
    answer   \* of the last request

vars == <<rate, now, ips, log, answer>>

Entry == [count : Nat, firstReq : Nat]

\* What a window admits: the request that opens it passes with a rate of 0 too.
Allowed == IF rate = 0 THEN 1 ELSE rate

TypeOK ==
    /\ rate \in Rates
    /\ now \in 0..MaxTime
    /\ ips \in [Addresses -> Entry]
    /\ \A a \in Addresses : ips[a].count <= Allowed /\ ips[a].firstReq <= now
    /\ log \in [Addresses -> Seq(Nat)]
    /\ answer \in {"none", "admitted", "refused"}

Init ==
    /\ rate \in Rates
    /\ now = 0
    /\ ips = [a \in Addresses |-> [count |-> 0, firstReq |-> 0]]
    /\ log = [a \in Addresses |-> << >>]
    /\ answer = "none"

Exists(a) == ips[a].count > 0

\* An address that is new, or whose window is over.
Opens(a) == ips' = [ips EXCEPT ![a] = [count |-> 1, firstReq |-> now]]

\* Mutants: one too many, one too few.
FitsOneMore(a) == ips[a].count <= rate
FitsOneLess(a) == ips[a].count + 1 < rate

Fits(a) == ips[a].count < rate

\* Mutant: the window is over a tick too early.
OverEarly(a) == now - ips[a].firstReq >= Window - 1

Over(a) == now - ips[a].firstReq >= Window

Counts(a) == ips' = [ips EXCEPT ![a] = [count |-> @.count + 1, firstReq |-> @.firstReq]]

Admit(a) ==
    /\ Len(log[a]) < MaxRequests
    /\ \/ (~ Exists(a) \/ Over(a)) /\ Opens(a)
       \/ Exists(a) /\ ~ Over(a) /\ Fits(a) /\ Counts(a)
    /\ log' = [log EXCEPT ![a] = Append(@, now)]
    /\ answer' = "admitted"
    /\ UNCHANGED <<rate, now>>

Refuse(a) ==
    /\ Exists(a) /\ ~ Over(a) /\ ~ Fits(a)
    /\ answer' = "refused"
    /\ UNCHANGED <<rate, now, ips, log>>

\* getClientIP found no address.
RefuseUnknown ==
    /\ answer' = "refused"
    /\ UNCHANGED <<rate, now, ips, log>>

Tick ==
    /\ now < MaxTime
    /\ now' = now + 1
    /\ UNCHANGED <<rate, ips, log, answer>>

Next ==
    \/ \E a \in Addresses : Admit(a) \/ Refuse(a)
    \/ RefuseUnknown
    \/ Tick

Spec == Init /\ [][Next]_vars

-----------------------------------------------------------------------------
\* However requests are timed around the border of two windows, any 2 * rate of
\* an address that pass span a window: at most 2 * rate - 1 fall in a shorter time.
SpansWindow ==
    \A a \in Addresses :
        \A i \in 1..Len(log[a]) :
            i + 2 * Allowed - 1 <= Len(log[a]) =>
                log[a][i + 2 * Allowed - 1] - log[a][i] >= Window

\* Only an address that has used its rate within the last window is refused.
RefusesOnlyBusy ==
    [][\A a \in Addresses :
         Refuse(a) =>
             /\ Len(log[a]) >= Allowed
             /\ now - log[a][Len(log[a]) - Allowed + 1] < Window]_vars
=============================================================================
