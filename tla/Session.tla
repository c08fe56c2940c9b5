-------------------------------- MODULE Session --------------------------------
(***************************************************************************)
(* One user's session, in one browser with several tabs.                   *)
(*                                                                         *)
(* The server keeps one refresh token per user and rotates it: whoever     *)
(* presents the current one, and the CSRF value minted with it, gets the   *)
(* next.  The browser keeps the token in a cookie and the CSRF value in    *)
(* localStorage, both shared by its tabs; the access token is a variable   *)
(* of each tab.  A request that is answered 401 waits for a refresh, which *)
(* all requests of a tab share, and is sent again.                         *)
(*                                                                         *)
(* Tokens are named by the exchange (login or refresh) that minted them,   *)
(* and so are the access token and the CSRF value that came with them; 0   *)
(* is none.                                                                *)
(*                                                                         *)
(* Sending is one step: the browser adds the cookie to what the script has *)
(* read.  A tab is not closed while it signs out, and a logout that fails  *)
(* either never reached the server or did all it does.                     *)
(***************************************************************************)
EXTENDS Naturals, FiniteSets

CONSTANTS
    Tab,            \* tabs of the browser
    Slot,           \* requests that may be in flight in a tab
    MaxExchanges,   \* bound: logins and refreshes
    MaxFaults       \* bound: failures, and what other devices do

ASSUME SessionAssumption ==
    /\ IsFiniteSet(Tab)
    /\ IsFiniteSet(Slot)
    /\ MaxExchanges \in Nat
    /\ MaxFaults \in Nat

VARIABLES
    current,    \* User.current_refresh_jti
    exch,       \* POST /auth/login and /auth/refresh, as they travel
    expired,    \* access tokens past their fifteen minutes
    cookie,     \* the refresh token's cookie
    csrf,       \* localStorage's aiwa.csrf
    access,     \* accessToken of a tab
    status,     \* what AuthContext shows
    flight,     \* refreshInFlight
    entry,      \* the login the form is waiting for
    call,       \* requests under way in a tab
    faults,     \* against MaxFaults
    calm        \* has nothing yet disturbed the session?

server  == <<current, exch, expired>>
browser == <<cookie, csrf>>
tabs    == <<access, status, flight, entry, call>>
meter   == <<faults, calm>>
vars    == <<server, browser, tabs, meter>>

Exchange == 1..MaxExchanges
Token    == 0..MaxExchanges

Letter == [at : {"unused", "sent", "checked", "issued", "denied", "arrived", "over"},
           kind : {"login", "refresh"}, cookie : Token, csrf : Token]

\* A restore waits for its refresh ("opening") before it asks who the user is.
Call == [at : {"idle", "entering", "opening", "sent", "waiting", "again", "leaving", "left"},
         kind : {"api", "signIn", "restore", "logout"}, bears : Token]

Over == [at |-> "over", kind |-> "login", cookie |-> 0, csrf |-> 0]
Idle == [at |-> "idle", kind |-> "api", bears |-> 0]

TypeOK ==
    /\ current \in Token
    /\ exch \in [Exchange -> Letter]
    /\ expired \subseteq Exchange
    /\ cookie \in Token
    /\ csrf \in Token
    /\ access \in [Tab -> Token]
    /\ status \in [Tab -> {"closed", "restoring", "authenticated", "anonymous"}]
    /\ flight \in [Tab -> Token]
    /\ entry \in [Tab -> Token]
    /\ call \in [Tab -> [Slot -> Call]]
    /\ faults \in 0..MaxFaults
    /\ calm \in BOOLEAN

Busy == {p \in Tab \X Slot : call[p[1]][p[2]].at # "idle"}
Used == {e \in Exchange : exch[e].at # "unused"}

\* Bound: every request under way may need one more exchange.
Room(n) == Cardinality(Used) + Cardinality(Busy) + n <= MaxExchanges

Sound(token) == token # 0 /\ token \notin expired

InUse(e)   == \E t \in Tab : access[t] = e \/ \E c \in Slot : call[t][c].bears = e
Awaited(e) == \E t \in Tab : flight[t] = e \/ entry[t] = e

\* Something that may end a session in spite of the code.
Fault ==
    /\ faults < MaxFaults
    /\ faults' = faults + 1
    /\ calm' = FALSE

\* No tokens are being exchanged; or none but by the refresh of tab t.
Active(e) == exch[e].at \notin {"unused", "over"}
Quiet     == \A e \in Exchange : ~Active(e)
Alone(t)  == \A e \in Exchange : Active(e) => flight[t] = e

SigningOut == \E p \in Busy : call[p[1]][p[2]].kind = "logout"

\* The next exchange leaves the browser.
Send(kind, e) ==
    /\ exch[e].at = "unused"
    /\ \A d \in Exchange : d < e => exch[d].at # "unused"
    /\ exch' = [exch EXCEPT ![e] = [at |-> "sent", kind |-> kind,
                                    cookie |-> cookie, csrf |-> csrf]]

-------------------------------------------------------------------------------
(* Mistakes the code could have made in the definitions below *)

\* The CSRF value is left in localStorage.
ClearToken(t) ==
    /\ access' = [access EXCEPT ![t] = 0]
    /\ status' = [status EXCEPT ![t] = "anonymous"]
    /\ UNCHANGED csrf

\* Nobody is told.
ClearQuietly(t) ==
    /\ access' = [access EXCEPT ![t] = 0]
    /\ csrf' = 0
    /\ UNCHANGED status

\* Every 401 refreshes for itself.
NeverShared(t) == FALSE

\* Only a restore goes on when the refresh it waits for is over.
ResumedOnce(it, e) ==
    IF it.at = "opening" THEN [it EXCEPT !.at = "sent", !.bears = e] ELSE it

-------------------------------------------------------------------------------
\* clearSession, whose listener shows the login page.
ClearSession(t) ==
    /\ access' = [access EXCEPT ![t] = 0]
    /\ csrf' = 0
    /\ status' = [status EXCEPT ![t] = "anonymous"]

KeepSession == UNCHANGED <<access, csrf, status>>

\* The request throws: logout clears the session all the same, and so does a
\* restore that cannot find out who the user is.
Throws(t, how) ==
    IF how \in {"logout", "restore"} THEN ClearSession(t) ELSE KeepSession

-------------------------------------------------------------------------------
(* The server: auth_service *)

\* rotate_refresh_token up to its last condition.
Granted(letter) ==
    /\ letter.cookie # 0
    /\ letter.csrf = letter.cookie
    /\ current = letter.cookie

Check(e) ==
    /\ exch[e].at = "sent"
    /\ exch[e].kind = "refresh"
    /\ exch' = [exch EXCEPT ![e].at = IF Granted(exch[e]) THEN "checked" ELSE "denied"]
    /\ UNCHANGED <<current, expired, browser, tabs, meter>>

\* issue_tokens, in a login or at the end of a rotation.
Issue(e) ==
    /\ exch[e].at = IF exch[e].kind = "login" THEN "sent" ELSE "checked"
    /\ current' = e
    /\ exch' = [exch EXCEPT ![e].at = "issued"]
    /\ UNCHANGED <<expired, browser, tabs, meter>>

\* Rate limited, or an error: to performRefresh, one as good as the other.
ServerError(e) ==
    /\ exch[e].at \in {"sent", "checked"}
    /\ exch[e].kind = "refresh"
    /\ exch' = [exch EXCEPT ![e].at = "denied"]
    /\ Fault
    /\ UNCHANGED <<current, expired, browser, tabs>>

Expire(e) ==
    /\ InUse(e)
    /\ expired' = expired \cup {e}
    /\ UNCHANGED <<current, exch, browser, tabs, meter>>

\* The user's other devices log in and out; the tokens they get are theirs.
Elsewhere ==
    /\ \/ /\ current' = 0
          /\ UNCHANGED exch
       \/ /\ Room(1)
          /\ \E e \in Exchange \ Used :
                /\ \A d \in Exchange : d < e => d \in Used
                /\ exch' = [exch EXCEPT ![e] = Over]
                /\ current' = e
    /\ Fault
    /\ UNCHANGED <<expired, browser, tabs>>

-------------------------------------------------------------------------------
(* The browser: cookies, and requests nobody waits for *)

\* The head of an answer sets the cookie, whoever reads the rest.
Arrive(e) ==
    /\ exch[e].at = "issued"
    /\ cookie' = e
    /\ exch' = [exch EXCEPT ![e] = IF Awaited(e) THEN [@ EXCEPT !.at = "arrived"] ELSE Over]
    /\ UNCHANGED <<current, expired, csrf, tabs, meter>>

Drop(e) ==
    /\ Active(e)
    /\ ~Awaited(e)
    /\ exch' = [exch EXCEPT ![e] = Over]
    /\ UNCHANGED <<current, expired, browser, tabs, meter>>

CookieExpires ==
    /\ cookie # 0
    /\ cookie' = 0
    /\ Fault
    /\ UNCHANGED <<server, csrf, tabs>>

-------------------------------------------------------------------------------
(* A tab: client.ts, endpoints.ts and AuthContext.tsx *)

\* mightHaveSession, and one silent refresh if so.
Open(t) ==
    /\ status[t] = "closed"
    /\ \/ /\ csrf = 0
          /\ status' = [status EXCEPT ![t] = "anonymous"]
          /\ UNCHANGED <<exch, flight, call, calm>>
       \/ /\ csrf # 0
          /\ Room(2)
          /\ status' = [status EXCEPT ![t] = "restoring"]
          /\ \E e \in Exchange, c \in Slot :
                /\ Send("refresh", e)
                /\ calm' = (calm /\ Alone(t) /\ ~SigningOut)
                /\ flight' = [flight EXCEPT ![t] = e]
                /\ call' = [call EXCEPT ![t][c] =
                              [at |-> "opening", kind |-> "restore", bears |-> 0]]
    /\ UNCHANGED <<current, expired, browser, access, entry, faults>>

\* Closed, or about to be reloaded: its variables are gone, its requests are not.
Close(t) ==
    /\ status[t] # "closed"
    /\ \A c \in Slot : call[t][c].kind # "logout"
    /\ status' = [status EXCEPT ![t] = "closed"]
    /\ access' = [access EXCEPT ![t] = 0]
    /\ flight' = [flight EXCEPT ![t] = 0]
    /\ entry' = [entry EXCEPT ![t] = 0]
    /\ call' = [call EXCEPT ![t] = [c \in Slot |-> Idle]]
    /\ calm' = (calm /\ flight[t] = 0 /\ entry[t] = 0)
    /\ UNCHANGED <<server, browser, faults>>

\* The login form, which waits for one answer at a time.
SignIn(t, c) ==
    /\ status[t] = "anonymous"
    /\ call[t][c].at = "idle"
    /\ \A d \in Slot : call[t][d].kind # "signIn"
    /\ Room(2)
    /\ \E e \in Exchange : Send("login", e) /\ entry' = [entry EXCEPT ![t] = e]
    /\ calm' = (calm /\ Quiet /\ ~SigningOut)
    /\ call' = [call EXCEPT ![t][c] = [at |-> "entering", kind |-> "signIn", bears |-> 0]]
    /\ UNCHANGED <<current, expired, browser, access, status, flight, faults>>

\* A wrong password, which the server refuses before it issues anything.
Refuse(t, c) ==
    /\ call[t][c].at = "entering"
    /\ exch[entry[t]].at = "sent"
    /\ exch' = [exch EXCEPT ![entry[t]] = Over]
    /\ entry' = [entry EXCEPT ![t] = 0]
    /\ call' = [call EXCEPT ![t][c] = Idle]
    /\ UNCHANGED <<current, expired, browser, access, status, flight, meter>>

\* A page asks for something, or the user signs out.
Ask(t, c, kind) ==
    /\ kind \in {"api", "logout"}
    /\ status[t] = "authenticated"
    /\ call[t][c].at = "idle"
    /\ Room(1)
    /\ call' = [call EXCEPT ![t][c] = [at |-> "sent", kind |-> kind, bears |-> access[t]]]
    /\ calm' = (calm /\ ~SigningOut /\ (kind = "logout" => Busy = {}))
    /\ UNCHANGED <<server, browser, access, status, flight, entry, faults>>

Served(t, c) ==
    LET it == call[t][c] IN
    /\ it.at \in {"sent", "again"}
    /\ it.kind # "logout"
    /\ Sound(it.bears)
    /\ status' = IF it.kind = "signIn" \/ (it.kind = "restore" /\ status[t] = "restoring")
                 THEN [status EXCEPT ![t] = "authenticated"]
                 ELSE status
    /\ call' = [call EXCEPT ![t][c] = Idle]
    /\ UNCHANGED <<server, browser, access, flight, entry, meter>>

\* auth_service.logout: the row is read with the caller, and written if it changes.
LogoutReads(t, c) ==
    LET it == call[t][c] IN
    /\ it.at \in {"sent", "again"}
    /\ it.kind = "logout"
    /\ Sound(it.bears)
    /\ call' = [call EXCEPT ![t][c].at = IF current = 0 THEN "left" ELSE "leaving"]
    /\ UNCHANGED <<server, browser, access, status, flight, entry, meter>>

LogoutCommits(t, c) ==
    /\ call[t][c].at = "leaving"
    /\ current' = 0
    /\ call' = [call EXCEPT ![t][c].at = "left"]
    /\ UNCHANGED <<exch, expired, browser, access, status, flight, entry, meter>>

SignedOut(t, c) ==
    /\ call[t][c].at = "left"
    /\ cookie' = 0
    /\ ClearSession(t)
    /\ call' = [call EXCEPT ![t][c] = Idle]
    /\ UNCHANGED <<server, flight, entry, meter>>

\* 401: requestRaw waits for a refresh, and starts one if there is none.
Shared(t) == flight[t] # 0

Refused(t, c) ==
    LET it == call[t][c] IN
    /\ it.at = "sent"
    /\ ~Sound(it.bears)
    /\ \/ /\ Shared(t)
          /\ call' = [call EXCEPT ![t][c].at = "waiting"]
          /\ KeepSession
          /\ UNCHANGED <<exch, flight, calm>>
       \/ /\ ~Shared(t)
          /\ csrf # 0
          /\ \E e \in Exchange : Send("refresh", e) /\ flight' = [flight EXCEPT ![t] = e]
          /\ calm' = (calm /\ Alone(t))
          /\ call' = [call EXCEPT ![t][c].at = "waiting"]
          /\ KeepSession
       \/ /\ ~Shared(t)
          /\ csrf = 0
          /\ call' = [call EXCEPT ![t][c] = Idle]
          /\ ClearSession(t)
          /\ UNCHANGED <<exch, flight, calm>>
    /\ UNCHANGED <<current, expired, cookie, entry, faults>>

\* 401 after a refresh, to a token that is fresh: once, and only once.
RefusedAgain(t, c) ==
    /\ call[t][c].at = "again"
    /\ ~Sound(call[t][c].bears)
    /\ Throws(t, call[t][c].kind)
    /\ call' = [call EXCEPT ![t][c] = Idle]
    /\ calm' = FALSE
    /\ UNCHANGED <<server, cookie, flight, entry, faults>>

\* setSession: the refresh is over, and what waited for it goes on with the new token.
Resumed(it, e) ==
    CASE it.at = "waiting" -> [it EXCEPT !.at = "again", !.bears = e]
      [] it.at = "opening" -> [it EXCEPT !.at = "sent", !.bears = e]
      [] OTHER -> it

Refreshed(t) ==
    LET e == flight[t] IN
    /\ e # 0
    /\ exch[e].at = "arrived"
    /\ access' = [access EXCEPT ![t] = e]
    /\ csrf' = e
    /\ flight' = [flight EXCEPT ![t] = 0]
    /\ exch' = [exch EXCEPT ![e] = Over]
    /\ call' = [call EXCEPT ![t] = [c \in Slot |-> Resumed(call[t][c], e)]]
    /\ UNCHANGED <<current, expired, cookie, status, entry, meter>>

\* The session is lost: everything that waited for the refresh throws.
Denied(t) ==
    LET e == flight[t] IN
    /\ e # 0
    /\ exch[e].at = "denied"
    /\ ClearSession(t)
    /\ flight' = [flight EXCEPT ![t] = 0]
    /\ exch' = [exch EXCEPT ![e] = Over]
    /\ call' = [call EXCEPT ![t] = [c \in Slot |->
                   IF call[t][c].at \in {"waiting", "opening"} THEN Idle ELSE call[t][c]]]
    /\ UNCHANGED <<current, expired, cookie, entry, meter>>

\* fetch throws, and performRefresh with it; a restore does not catch that.
Unreachable(t) ==
    LET waiting == {c \in Slot : call[t][c].at = "waiting"} IN
    /\ flight[t] # 0
    /\ Fault
    /\ flight' = [flight EXCEPT ![t] = 0]
    /\ call' = [call EXCEPT ![t] = [c \in Slot |->
                   IF call[t][c].at \in {"waiting", "opening"} THEN Idle ELSE call[t][c]]]
    /\ IF \E c \in waiting : call[t][c].kind \in {"logout", "restore"}
       THEN ClearSession(t) ELSE KeepSession
    /\ UNCHANGED <<server, cookie, entry>>

\* The form's answer: the session is set, and the page asks who the user is.
Entered(t, c) ==
    LET e == entry[t] IN
    /\ call[t][c].at = "entering"
    /\ exch[e].at = "arrived"
    /\ access' = [access EXCEPT ![t] = e]
    /\ csrf' = e
    /\ entry' = [entry EXCEPT ![t] = 0]
    /\ exch' = [exch EXCEPT ![e] = Over]
    /\ call' = [call EXCEPT ![t][c].at = "sent", ![t][c].bears = e]
    /\ UNCHANGED <<current, expired, cookie, status, flight, meter>>

\* Any other request fails.
Fails(t, c) ==
    /\ call[t][c].at \in {"entering", "sent", "again", "left"}
    /\ Fault
    /\ Throws(t, call[t][c].kind)
    /\ entry' = IF call[t][c].at = "entering" THEN [entry EXCEPT ![t] = 0] ELSE entry
    /\ call' = [call EXCEPT ![t][c] = Idle]
    /\ UNCHANGED <<server, cookie, flight>>

-------------------------------------------------------------------------------
Init ==
    /\ current = 0
    /\ exch = [e \in Exchange |->
                 [at |-> "unused", kind |-> "login", cookie |-> 0, csrf |-> 0]]
    /\ expired = {}
    /\ cookie = 0
    /\ csrf = 0
    /\ access = [t \in Tab |-> 0]
    /\ status = [t \in Tab |-> "closed"]
    /\ flight = [t \in Tab |-> 0]
    /\ entry = [t \in Tab |-> 0]
    /\ call = [t \in Tab |-> [c \in Slot |-> Idle]]
    /\ faults = 0
    /\ calm = TRUE

Travel(e) == Check(e) \/ Issue(e) \/ Arrive(e)

Handle(t, c) ==
    \/ Served(t, c)
    \/ LogoutReads(t, c)
    \/ LogoutCommits(t, c)
    \/ SignedOut(t, c)
    \/ Refused(t, c)
    \/ RefusedAgain(t, c)
    \/ Entered(t, c)

Settle(t) == Refreshed(t) \/ Denied(t)

Next ==
    \/ \E e \in Exchange : Travel(e) \/ ServerError(e) \/ Expire(e) \/ Drop(e)
    \/ \E t \in Tab : Open(t) \/ Close(t) \/ Settle(t) \/ Unreachable(t)
    \/ \E t \in Tab, c \in Slot :
          \/ SignIn(t, c)
          \/ Refuse(t, c)
          \/ Fails(t, c)
          \/ Handle(t, c)
          \/ \E kind \in {"api", "logout"} : Ask(t, c, kind)
    \/ Elsewhere
    \/ CookieExpires

Spec == Init /\ [][Next]_vars

-------------------------------------------------------------------------------
(* What should hold of it *)

\* Nobody waits for a refresh or a login that is over.
NobodyForgotten ==
    \A t \in Tab, c \in Slot :
        /\ call[t][c].at \in {"waiting", "opening"} =>
              flight[t] # 0 /\ Active(flight[t])
        /\ call[t][c].at = "entering" =>
              entry[t] # 0 /\ Active(entry[t])

\* Left to itself, a session never destroys itself: however many requests find the
\* access token expired, early or late, no refresh is ever denied (client.ts:21-24).
NeverDenied == calm => \A e \in Exchange : exch[e].at # "denied"

\* And in between, as long as the browser thinks it may have a session, both halves
\* of the token are the ones the server expects: it survives a reload at any such
\* moment (client.ts:90-97).
SessionSurvives ==
    calm /\ Quiet /\ ~SigningOut /\ csrf # 0
    => cookie = current /\ csrf = current

\* A tab that shows a workspace has a token to ask for it with (AuthContext.tsx:62-64).
ShowsWithToken == calm => \A t \in Tab : status[t] = "authenticated" => access[t] # 0

-------------------------------------------------------------------------------
(* Why it holds: the invariants the proofs in SessionProofs rest on            *)

\* Always: what a tab waits for is under way, and is its own.
Held(t) ==
    /\ flight[t] # 0 => Active(flight[t]) /\ exch[flight[t]].kind = "refresh"
    /\ entry[t] # 0 => Active(entry[t]) /\ exch[entry[t]].kind = "login"
    /\ status[t] = "closed" =>
          flight[t] = 0 /\ entry[t] = 0 /\ \A c \in Slot : call[t][c] = Idle
    /\ \A c \in Slot :
          /\ call[t][c].at \in {"waiting", "opening"} => flight[t] # 0
          /\ call[t][c].at = "entering" => entry[t] # 0 /\ call[t][c].kind = "signIn"
          /\ call[t][c].at \in {"leaving", "left"} => call[t][c].kind = "logout"
          /\ call[t][c].at = "idle" => call[t][c].kind = "api"
    /\ \A c, d \in Slot :
          call[t][c].kind = "signIn" /\ call[t][d].kind = "signIn" => c = d

HeldInv ==
    /\ \A t \in Tab : Held(t)
    /\ \A t, u \in Tab :
          /\ flight[t] = flight[u] /\ flight[t] # 0 => t = u
          /\ entry[t] = entry[u] /\ entry[t] # 0 => t = u
    /\ \A e \in Exchange : exch[e].at = "checked" => exch[e].kind = "refresh"

\* While calm: there is one exchange at most, somebody waits for it, and both halves
\* of the token are as far as it is; a logout has the browser to itself.
Halves == csrf # 0 => csrf = cookie /\ csrf = current

Course(e) ==
    /\ exch[e].at # "denied"
    /\ exch[e].at \in {"sent", "checked"} => Halves
    /\ exch[e].at \in {"sent", "checked"} /\ exch[e].kind = "refresh" =>
          csrf # 0 /\ exch[e].csrf = csrf /\ exch[e].cookie = cookie
    /\ exch[e].at \in {"issued", "arrived"} => current = e
    /\ exch[e].at = "arrived" => cookie = e

Underway    == \A e \in Exchange : Active(e) => Awaited(e) /\ Course(e)
OneExchange == \A d, e \in Exchange : Active(d) /\ Active(e) => d = e

Waiters ==
    \A t \in Tab :
        /\ flight[t] # 0 => \E c \in Slot : call[t][c].at \in {"waiting", "opening"}
        /\ entry[t] # 0 => \E c \in Slot : call[t][c].at = "entering"

LogoutAlone ==
    \A t, u \in Tab, c, d \in Slot :
        call[t][c].kind = "logout" /\ call[u][d].at # "idle" => t = u /\ c = d

Between ==
    \/ ~Quiet
    \/ \E t \in Tab, c \in Slot : call[t][c].at = "left"
    \/ Halves

HasToken ==
    \A t \in Tab :
        /\ status[t] = "authenticated" => access[t] # 0
        /\ \A c \in Slot :
              /\ call[t][c].kind \in {"signIn", "restore"}
              /\ call[t][c].at \in {"sent", "waiting", "again"}
              => access[t] # 0 /\ csrf # 0

Undisturbed ==
    Underway /\ OneExchange /\ Waiters /\ LogoutAlone /\ Between /\ HasToken

CalmInv == calm => Undisturbed

===============================================================================
