------------------------------- MODULE RateLimit -------------------------------
(***************************************************************************)
(* The middleware in front of every route: fixed windows counted in        *)
(* Postgres, one row per identity, scope and window.  A request is counted *)
(* by an upsert that holds its row until the commit, so counting, the      *)
(* occasional sweep and the verdict are one step.                          *)
(***************************************************************************)
EXTENDS Naturals, FiniteSets

CONSTANTS
    Caller,           \* identities: users with a token, addresses without
    Address,          \* client addresses
    AddressOf,        \* the address a caller connects from
    Limit,            \* rate_limit_requests_per_minute
    SignupLimit,      \* rate_limit_registrations_per_hour
    Window,           \* RATE_LIMIT_WINDOW_SECONDS, in ticks
    SignupWindow,     \* REGISTRATION_WINDOW_SECONDS
    Retention,        \* RATE_LIMIT_RETENTION_SECONDS
    MaxNow,           \* bound: the clock stops here
    MaxHits,          \* bound: requests counted for one caller in one window
    MaxErrors         \* bound: requests for which the counter is unavailable

ASSUME LimiterAssumption ==
    /\ AddressOf \in [Caller -> Address]
    /\ Limit \in Nat /\ SignupLimit \in Nat
    /\ Window \in Nat \ {0} /\ SignupWindow \in Nat \ {0}
    /\ Retention \in Nat /\ Window <= Retention /\ SignupWindow <= Retention
    /\ MaxNow \in Nat /\ MaxHits \in Nat /\ MaxErrors \in Nat

VARIABLES
    now,       \* the clock
    hits,      \* RateLimitCounter.count in scope REQUEST, by caller and window
    signups,   \* the same in scope REGISTER, by address and window
    passed,    \* requests let through to a route, by caller and tick
    accounts,  \* registrations let through, by address and tick
    errors     \* requests let through because the counter failed

limitVars == <<hits, signups, passed, accounts, errors>>

Tick == 0..MaxNow

LimitTypeOK ==
    /\ now \in Tick
    /\ hits \in [Caller -> [Tick -> Nat]]
    /\ signups \in [Address -> [Tick -> Nat]]
    /\ passed \in [Caller -> [Tick -> Nat]]
    /\ accounts \in [Address -> [Tick -> Nat]]
    /\ errors \in 0..MaxErrors

\* window_start: every caller of one window lands on the same row.
WindowStart(t, w) == t - (t % w)

\* prune: rows of windows that began before the retention period are gone.
Swept(counter) == [s \in Tick |-> IF s + Retention < now THEN 0 ELSE counter[s]]

\* The sweep takes every row of the table, of whatever scope.
SweepOf(sweep, table) ==
    IF sweep THEN [i \in DOMAIN table |-> Swept(table[i])] ELSE table

\* A mistake the code could have made: the count of the row that was to be
\* inserted, which is always 1.
CountExcluded(table, i, w) == 1

\* The upsert of hit: one more in the row of the current window, and the new
\* value is what it returns.
Count(table, i, w) == table[i][WindowStart(now, w)] + 1
Hit(table, i, w)   == [table EXCEPT ![i][WindowStart(now, w)] = Count(table, i, w)]

OverLimit(c)  == Count(hits, c, Window) > Limit
OverSignup(a) == Count(signups, a, SignupWindow) > SignupLimit

\* The counters after a request that counts in scope REQUEST only.
CountsRequest(c) ==
    \E sweep \in BOOLEAN :
        /\ hits[c][WindowStart(now, Window)] < MaxHits
        /\ hits' = SweepOf(sweep, Hit(hits, c, Window))
        /\ signups' = SweepOf(sweep, signups)

CountsSignup(c) ==
    \E sweep \in BOOLEAN :
        /\ hits[c][WindowStart(now, Window)] < MaxHits
        /\ hits' = SweepOf(sweep, Hit(hits, c, Window))
        /\ signups' = SweepOf(sweep, Hit(signups, AddressOf[c], SignupWindow))

Passing(c) == passed' = [passed EXCEPT ![c][now] = @ + 1]

\* An ordinary request: counted, and let through while the count is within the
\* limit.  One that is refused has been counted all the same.
LetThrough(c) ==
    /\ ~OverLimit(c)
    /\ CountsRequest(c)
    /\ Passing(c)
    /\ UNCHANGED <<accounts, errors>>

TooMany(c) ==
    /\ OverLimit(c)
    /\ CountsRequest(c)
    /\ UNCHANGED <<passed, accounts, errors>>

\* POST /auth/register counts a second time, against the address, unless it was
\* over the first limit already.
Register(c) ==
    /\ ~OverLimit(c)
    /\ CountsSignup(c)
    /\ IF OverSignup(AddressOf[c])
       THEN UNCHANGED <<passed, accounts>>
       ELSE /\ Passing(c)
            /\ accounts' = [accounts EXCEPT ![AddressOf[c]][now] = @ + 1]
    /\ UNCHANGED errors

\* The counter is unavailable: the limiter fails open.
FailsOpen(c) ==
    /\ errors < MaxErrors
    /\ errors' = errors + 1
    /\ Passing(c)
    /\ UNCHANGED <<hits, signups, accounts>>

FailsOpenForSignup(c) ==
    /\ errors < MaxErrors
    /\ errors' = errors + 1
    /\ Passing(c)
    /\ accounts' = [accounts EXCEPT ![AddressOf[c]][now] = @ + 1]
    /\ UNCHANGED <<hits, signups>>

Advance == now < MaxNow /\ now' = now + 1

LimitInit ==
    /\ now = 0
    /\ hits = [c \in Caller |-> [t \in Tick |-> 0]]
    /\ signups = [a \in Address |-> [t \in Tick |-> 0]]
    /\ passed = [c \in Caller |-> [t \in Tick |-> 0]]
    /\ accounts = [a \in Address |-> [t \in Tick |-> 0]]
    /\ errors = 0

LimitNext ==
    \/ \E c \in Caller :
        /\ \/ LetThrough(c) \/ TooMany(c) \/ Register(c)
           \/ FailsOpen(c) \/ FailsOpenForSignup(c)
        /\ UNCHANGED now
    \/ Advance /\ UNCHANGED limitVars

LimitSpec == LimitInit /\ [][LimitNext]_<<now, limitVars>>

-------------------------------------------------------------------------------

\* The sum of f over S, counted unit by unit.
Units(f, S)   == UNION {{x} \X (1..f[x]) : x \in S}
SumOver(f, S) == Cardinality(Units(f, S))

\* In any stretch of time as long as a window a caller gets no more than twice
\* its limit through, and an address no more than twice its registrations, but
\* for the requests the counter missed: fixed windows are no worse than that,
\* and neither the sweep nor a change of identity resets them.
LimitsHold ==
    \A t \in Tick :
        /\ \A c \in Caller :
            SumOver(passed[c], Tick \cap (t..(t + Window - 1))) <= 2 * Limit + errors
        /\ \A a \in Address :
            SumOver(accounts[a], Tick \cap (t..(t + SignupWindow - 1)))
                <= 2 * SignupLimit + errors

-------------------------------------------------------------------------------
(* The inductive invariant behind LimitsHold.                                *)

\* The ticks that share a row of the counter.
RowOf(s, w) == {t \in Tick : WindowStart(t, w) = s}

\* What went through a counter by clock n: no row holds more than the limit, nor
\* two of them more than twice that, the failures e being counted once; and the
\* current row knows of all that went through it but for these.
Fits(through, counts, w, limit, n, e) ==
    LET Into(s) == SumOver(through, RowOf(s, w))
        current == WindowStart(n, w)
    IN  /\ \A t \in Tick : t > n => through[t] = 0
        /\ Into(current) <= counts[current] + e
        /\ \A s \in Tick : Into(s) <= limit + e
        /\ \A s \in Tick \ {current} : Into(s) + Into(current) <= counts[current] + limit + e
        /\ \A s, u \in Tick : s # u => Into(s) + Into(u) <= 2 * limit + e

LimitInv ==
    /\ \A c \in Caller : Fits(passed[c], hits[c], Window, Limit, now, errors)
    /\ \A a \in Address :
        Fits(accounts[a], signups[a], SignupWindow, SignupLimit, now, errors)
================================================================================
