----------------------------- MODULE SessionProofs -----------------------------
(***************************************************************************)
(* Theorems about Session, for any number of tabs, requests and exchanges. *)
(***************************************************************************)
EXTENDS Session, TLAPS

\* What a tab keeps of a request that is done, and the browser of an exchange.
LEMMA RestType ==
    /\ Idle \in Call /\ Idle.at = "idle" /\ Idle.kind = "api" /\ Idle.bears = 0
    /\ Over \in Letter /\ Over.at = "over" /\ Over.kind = "login"
  BY SessionAssumption DEF Idle, Over, Call, Letter, Token

\* Exchanges are tokens, and none of them is the token that stands for none.
LEMMA TokenFacts ==
    /\ Exchange \subseteq Token
    /\ 0 \in Token
    /\ \A e \in Exchange : e # 0
    /\ \A e \in Token : e # 0 => e \in Exchange
  BY SessionAssumption DEF Exchange, Token

\* Whoever clears the session leaves values of the types.
LEMMA ClearType ==
    ASSUME TypeOK, NEW t \in Tab, ClearSession(t) \/ KeepSession
    PROVE  /\ access' \in [Tab -> Token]
           /\ csrf' \in Token
           /\ status' \in [Tab -> {"closed", "restoring", "authenticated", "anonymous"}]
  BY TokenFacts DEF TypeOK, ClearSession, KeepSession

\* So does a fault.
LEMMA FaultType ==
    ASSUME TypeOK, Fault
    PROVE  faults' \in 0..MaxFaults /\ calm' \in BOOLEAN
<1>1. faults' \in 0..MaxFaults
  <2>1. faults \in 0..MaxFaults
    BY DEF TypeOK
  <2>. QED
    BY <2>1, SessionAssumption DEF Fault
<1>2. calm' \in BOOLEAN
  BY DEF Fault
<1>. QED
  BY <1>1, <1>2

\* A request that waited goes on with the new token; any other is left alone.
LEMMA ResumedFacts ==
    ASSUME NEW it \in Call, NEW e \in Token
    PROVE  /\ Resumed(it, e) \in Call
           /\ Resumed(it, e).kind = it.kind
           /\ it.at = "waiting" => Resumed(it, e).at = "again" /\ Resumed(it, e).bears = e
           /\ it.at = "opening" => Resumed(it, e).at = "sent" /\ Resumed(it, e).bears = e
           /\ it.at \notin {"waiting", "opening"} => Resumed(it, e) = it
<1>1. CASE it.at = "waiting"
  BY <1>1 DEF Resumed, Call
<1>2. CASE it.at = "opening"
  BY <1>2 DEF Resumed, Call
<1>3. CASE it.at \notin {"waiting", "opening"}
  BY <1>3 DEF Resumed, Call
<1>. QED
  BY <1>1, <1>2, <1>3

\* The server's steps, and those of exchanges nobody waits for, keep the types.
LEMMA ServerType ==
    ASSUME TypeOK, NEW e \in Exchange,
           Travel(e) \/ ServerError(e) \/ Expire(e) \/ Drop(e)
    PROVE  TypeOK'
<1>. USE DEF TypeOK, tabs, browser, meter
<1>0. exch[e] \in Letter
  OBVIOUS
<1>1. CASE Check(e)
  BY <1>0, <1>1 DEF Check, Letter
<1>2. CASE Issue(e)
  BY <1>0, <1>2, TokenFacts DEF Issue, Letter
<1>3. CASE Arrive(e)
  BY <1>0, <1>3, TokenFacts, RestType DEF Arrive, Letter
<1>4. CASE ServerError(e)
  BY <1>0, <1>4, FaultType DEF ServerError, Letter
<1>5. CASE Expire(e)
  BY <1>5 DEF Expire
<1>6. CASE Drop(e)
  BY <1>6, RestType DEF Drop
<1>. QED
  BY <1>1, <1>2, <1>3, <1>4, <1>5, <1>6 DEF Travel

\* Sending an exchange keeps the types.
LEMMA SendType ==
    ASSUME TypeOK, NEW e \in Exchange, NEW kind \in {"login", "refresh"}, Send(kind, e)
    PROVE  exch' \in [Exchange -> Letter]
  BY DEF TypeOK, Send, Letter

\* The steps of a tab as a whole keep the types.
LEMMA TabType ==
    ASSUME TypeOK, NEW t \in Tab, Open(t) \/ Close(t) \/ Settle(t) \/ Unreachable(t)
    PROVE  TypeOK'
<1>. USE DEF TypeOK, server, browser, meter
<1>1. CASE Open(t)
  <2>1. CASE csrf = 0 /\ UNCHANGED <<exch, flight, call, calm>>
    BY <1>1, <2>1 DEF Open
  <2>2. CASE csrf # 0
    <3>1. PICK e \in Exchange, c \in Slot :
              /\ Send("refresh", e)
              /\ calm' = (calm /\ Alone(t) /\ ~SigningOut)
              /\ flight' = [flight EXCEPT ![t] = e]
              /\ call' = [call EXCEPT ![t][c] =
                            [at |-> "opening", kind |-> "restore", bears |-> 0]]
      BY <1>1, <2>2 DEF Open
    <3>2. calm' \in BOOLEAN
      BY <3>1
    <3>3. call' \in [Tab -> [Slot -> Call]]
      BY <3>1, TokenFacts DEF Call
    <3>4. exch' \in [Exchange -> Letter]
      BY <3>1, SendType
    <3>5. /\ flight' \in [Tab -> Token]
          /\ status' \in [Tab -> {"closed", "restoring", "authenticated", "anonymous"}]
      BY <1>1, <2>2, <3>1, TokenFacts DEF Open
    <3>. QED
      BY <1>1, <3>2, <3>3, <3>4, <3>5 DEF Open
  <2>. QED
    BY <1>1, <2>1, <2>2 DEF Open
<1>2. CASE Close(t)
  <2>1. calm' \in BOOLEAN
    BY <1>2 DEF Close
  <2>2. call' \in [Tab -> [Slot -> Call]]
    BY <1>2, RestType DEF Close
  <2>. QED
    BY <1>2, <2>1, <2>2, TokenFacts DEF Close
<1>3. CASE Refreshed(t)
  <2>. DEFINE e == flight[t]
  <2>1. e \in Exchange
    BY <1>3, TokenFacts DEF Refreshed
  <2>2. call' \in [Tab -> [Slot -> Call]]
    <3>1. \A c \in Slot : Resumed(call[t][c], e) \in Call
      BY <2>1, TokenFacts, ResumedFacts
    <3>2. call' = [call EXCEPT ![t] = [c \in Slot |-> Resumed(call[t][c], e)]]
      BY <1>3 DEF Refreshed
    <3>. HIDE DEF e
    <3>. QED
      BY <3>1, <3>2
  <2>. QED
    BY <1>3, <2>1, <2>2, RestType, TokenFacts DEF Refreshed
<1>4. CASE Denied(t)
  <2>1. call' \in [Tab -> [Slot -> Call]]
    BY <1>4, RestType DEF Denied
  <2>. QED
    BY <1>4, <2>1, ClearType, RestType, TokenFacts DEF Denied
<1>5. CASE Unreachable(t)
  <2>1. call' \in [Tab -> [Slot -> Call]]
    BY <1>5, RestType DEF Unreachable
  <2>2. ClearSession(t) \/ KeepSession
    BY <1>5 DEF Unreachable
  <2>. QED
    BY <1>5, <2>1, <2>2, ClearType, FaultType, RestType, TokenFacts DEF Unreachable
<1>. QED
  BY <1>1, <1>2, <1>3, <1>4, <1>5 DEF Settle

\* So do the steps of one request.
LEMMA HandleType ==
    ASSUME TypeOK, NEW t \in Tab, NEW c \in Slot,
           SignIn(t, c) \/ Refuse(t, c) \/ Fails(t, c) \/ Handle(t, c)
             \/ (\E kind \in {"api", "logout"} : Ask(t, c, kind))
    PROVE  TypeOK'
<1>. USE DEF TypeOK, server, browser, meter
<1>0. call[t][c] \in Call
  OBVIOUS
<1>1. CASE SignIn(t, c)
  <2>1. PICK e \in Exchange : Send("login", e) /\ entry' = [entry EXCEPT ![t] = e]
    BY <1>1 DEF SignIn
  <2>2. exch' \in [Exchange -> Letter]
    BY <2>1, SendType
  <2>3. call' \in [Tab -> [Slot -> Call]]
    BY <1>1, TokenFacts DEF SignIn, Call
  <2>4. calm' \in BOOLEAN
    BY <1>1 DEF SignIn
  <2>. QED
    BY <1>1, <2>1, <2>2, <2>3, <2>4, TokenFacts DEF SignIn
<1>2. CASE Refuse(t, c)
  BY <1>2, RestType, TokenFacts DEF Refuse
<1>3. CASE Fails(t, c)
  <2>1. ClearSession(t) \/ KeepSession
    BY <1>3 DEF Fails, Throws
  <2>2. entry' \in [Tab -> Token]
    BY <1>3, TokenFacts DEF Fails
  <2>. QED
    BY <1>3, <2>1, <2>2, ClearType, FaultType, RestType DEF Fails
<1>4. ASSUME NEW kind \in {"api", "logout"}, Ask(t, c, kind) PROVE TypeOK'
  <2>1. call' \in [Tab -> [Slot -> Call]]
    BY <1>4 DEF Ask, Call
  <2>2. calm' \in BOOLEAN
    BY <1>4 DEF Ask
  <2>. QED
    BY <1>4, <2>1, <2>2 DEF Ask
<1>5. CASE Served(t, c)
  BY <1>5, RestType DEF Served
<1>6. CASE LogoutReads(t, c) \/ LogoutCommits(t, c)
  <2>1. call' \in [Tab -> [Slot -> Call]]
    <3>. DEFINE next(at) == [call[t][c] EXCEPT !.at = at]
    <3>1. next("left") \in Call /\ next("leaving") \in Call
      BY <1>0 DEF Call
    <3>2. \E it \in {next("left"), next("leaving")} : call' = [call EXCEPT ![t][c] = it]
      BY <1>6 DEF LogoutReads, LogoutCommits
    <3>. HIDE DEF next
    <3>. QED
      BY <3>1, <3>2
  <2>. QED
    BY <1>6, <2>1, TokenFacts DEF LogoutReads, LogoutCommits
<1>7. CASE SignedOut(t, c)
  BY <1>7, ClearType, RestType, TokenFacts DEF SignedOut
<1>8. CASE Refused(t, c)
  <2>1. call' \in [Tab -> [Slot -> Call]]
    <3>. DEFINE next == [call[t][c] EXCEPT !.at = "waiting"]
    <3>1. next \in Call
      BY <1>0 DEF Call
    <3>2. \E it \in {next, Idle} : call' = [call EXCEPT ![t][c] = it]
      BY <1>8 DEF Refused
    <3>. HIDE DEF next
    <3>. QED
      BY <3>1, <3>2, RestType
  <2>2. ClearSession(t) \/ KeepSession
    BY <1>8 DEF Refused
  <2>3. /\ exch' \in [Exchange -> Letter]
        /\ flight' \in [Tab -> Token]
    BY <1>8, SendType, TokenFacts DEF Refused
  <2>4. calm' \in BOOLEAN
    BY <1>8 DEF Refused
  <2>. QED
    BY <1>8, <2>1, <2>2, <2>3, <2>4, ClearType DEF Refused
<1>9. CASE RefusedAgain(t, c)
  <2>1. ClearSession(t) \/ KeepSession
    BY <1>9 DEF RefusedAgain, Throws
  <2>2. calm' \in BOOLEAN
    BY <1>9 DEF RefusedAgain
  <2>. QED
    BY <1>9, <2>1, <2>2, ClearType, RestType DEF RefusedAgain
<1>10. CASE Entered(t, c)
  <2>1. call' \in [Tab -> [Slot -> Call]]
    BY <1>0, <1>10 DEF Entered, Call
  <2>. QED
    BY <1>10, <2>1, RestType, TokenFacts DEF Entered
<1>. QED
  BY <1>1, <1>2, <1>3, <1>4, <1>5, <1>6, <1>7, <1>8, <1>9, <1>10 DEF Handle

\* Any step keeps the types.
LEMMA NextType == TypeOK /\ [Next]_vars => TypeOK'
<1>. SUFFICES ASSUME TypeOK, [Next]_vars PROVE TypeOK'
  OBVIOUS
<1>1. CASE Elsewhere
  <2>1. exch' \in [Exchange -> Letter] /\ current' \in Token
    BY <1>1, RestType, TokenFacts DEF Elsewhere, TypeOK
  <2>. QED
    BY <1>1, <2>1, FaultType DEF Elsewhere, TypeOK, browser, tabs
<1>2. CASE CookieExpires
  BY <1>2, FaultType, TokenFacts DEF CookieExpires, TypeOK, server, tabs
<1>3. CASE UNCHANGED vars
  BY <1>3 DEF vars, server, browser, tabs, meter, TypeOK
<1>. QED
  BY <1>1, <1>2, <1>3, ServerType, TabType, HandleType DEF Next

\* Before anything is opened the types are right.
LEMMA InitType == Init => TypeOK
<1>. SUFFICES ASSUME Init PROVE TypeOK
  OBVIOUS
<1>1. exch \in [Exchange -> Letter]
  BY SessionAssumption DEF Init, Letter, Token
<1>2. call \in [Tab -> [Slot -> Call]]
  BY RestType DEF Init
<1>3. faults \in 0..MaxFaults
  BY SessionAssumption DEF Init
<1>4. calm \in BOOLEAN
  BY DEF Init
<1>. QED
  BY <1>1, <1>2, <1>3, <1>4, TokenFacts DEF Init, TypeOK

\* Server, browser and tabs hold values of their types.
THEOREM TypeCorrect == Spec => []TypeOK
  BY InitType, NextType, PTL DEF Spec

-------------------------------------------------------------------------------
(* What a tab waits for is under way, and is its own                           *)

\* An exchange that goes on, or that nobody waits for, leaves the tabs as they are.
LEMMA HeldOn ==
    ASSUME TypeOK, HeldInv, NEW e \in Exchange, NEW letter \in Letter,
           exch' = [exch EXCEPT ![e] = letter],
           UNCHANGED tabs,
           \/ letter.at = "over" /\ ~Awaited(e)
           \/ /\ letter.at \notin {"unused", "over"}
              /\ letter.kind = exch[e].kind
              /\ letter.at = "checked" => letter.kind = "refresh"
    PROVE  HeldInv'
<1>1. ASSUME NEW t \in Tab PROVE Held(t)'
  <2>0. \A d \in Exchange : exch'[d] = IF d = e THEN letter ELSE exch[d]
    BY DEF TypeOK
  <2>1. ASSUME NEW d \in Exchange, flight[t] = d \/ entry[t] = d, Active(d)
        PROVE  exch'[d].at \notin {"unused", "over"} /\ exch'[d].kind = exch[d].kind
    BY <2>0, <2>1 DEF Active, Awaited
  <2>2. /\ flight[t] # 0 => flight[t] \in Exchange
        /\ entry[t] # 0 => entry[t] \in Exchange
    BY TokenFacts DEF TypeOK
  <2>. QED
    BY <2>1, <2>2 DEF HeldInv, Held, tabs, Active
<1>2. \A d \in Exchange : exch'[d].at = "checked" => exch'[d].kind = "refresh"
  BY DEF TypeOK, HeldInv
<1>. QED
  BY <1>1, <1>2 DEF HeldInv, tabs

\* A tab that gives up what it waited for, or sends something new, leaves the
\* other tabs what they wait for.
LEMMA HeldApart ==
    ASSUME TypeOK, TypeOK', HeldInv, NEW t \in Tab, Held(t)',
           \A u \in Tab \ {t} : /\ flight'[u] = flight[u] /\ entry'[u] = entry[u]
                                /\ call'[u] = call[u] /\ status'[u] = status[u],
           flight'[t] \in {0, flight[t]} \/ ~Active(flight'[t]),
           entry'[t] \in {0, entry[t]} \/ ~Active(entry'[t]),
           \A e \in Exchange : \/ exch'[e] = exch[e]
                               \/ /\ ~Active(e) \/ flight[t] = e \/ entry[t] = e
                                  /\ exch'[e].at # "checked"
    PROVE  HeldInv'
<1>1. ASSUME NEW u \in Tab \ {t} PROVE Held(u)'
  <2>1. ASSUME flight[u] # 0
        PROVE  exch'[flight[u]] = exch[flight[u]]
    <3>1. /\ flight[u] \in Exchange /\ Active(flight[u])
          /\ exch[flight[u]].kind = "refresh"
      BY <2>1, TokenFacts DEF TypeOK, HeldInv, Held
    <3>2. flight[t] # flight[u]
      BY <2>1 DEF HeldInv
    <3>3. entry[t] # flight[u]
      BY <2>1, <3>1 DEF HeldInv, Held
    <3>. QED
      BY <3>1, <3>2, <3>3
  <2>2. ASSUME entry[u] # 0
        PROVE  exch'[entry[u]] = exch[entry[u]]
    <3>1. /\ entry[u] \in Exchange /\ Active(entry[u])
          /\ exch[entry[u]].kind = "login"
      BY <2>2, TokenFacts DEF TypeOK, HeldInv, Held
    <3>2. entry[t] # entry[u]
      BY <2>2 DEF HeldInv
    <3>3. flight[t] # entry[u]
      BY <2>2, <3>1 DEF HeldInv, Held
    <3>. QED
      BY <3>1, <3>2, <3>3
  <2>. QED
    BY <2>1, <2>2 DEF HeldInv, Held, Active
<1>2. ASSUME NEW u \in Tab \ {t}
      PROVE  /\ flight'[t] = flight'[u] /\ flight'[t] # 0 => FALSE
             /\ entry'[t] = entry'[u] /\ entry'[t] # 0 => FALSE
  BY DEF HeldInv, Held
<1>3. \A e \in Exchange : exch'[e].at = "checked" => exch'[e].kind = "refresh"
  BY DEF HeldInv
<1>4. \A u, v \in Tab :
        /\ flight'[u] = flight'[v] /\ flight'[u] # 0 => u = v
        /\ entry'[u] = entry'[v] /\ entry'[u] # 0 => u = v
  BY <1>2 DEF HeldInv
<1>5. \A u \in Tab : Held(u)'
  BY <1>1
<1>. QED
  BY <1>3, <1>4, <1>5 DEF HeldInv

\* The server's steps, and those of exchanges nobody waits for.
LEMMA HeldServer ==
    ASSUME TypeOK, HeldInv, NEW e \in Exchange,
           Travel(e) \/ ServerError(e) \/ Expire(e) \/ Drop(e)
    PROVE  HeldInv'
<1>0. exch[e] \in Letter
  BY DEF TypeOK
<1>1. ASSUME NEW at \in {"checked", "issued", "denied", "arrived"},
             exch' = [exch EXCEPT ![e].at = at], UNCHANGED tabs,
             at = "checked" => exch[e].kind = "refresh"
      PROVE  HeldInv'
  <2>. DEFINE letter == [exch[e] EXCEPT !.at = at]
  <2>1. letter \in Letter /\ letter.at = at /\ letter.kind = exch[e].kind
    BY <1>0 DEF Letter
  <2>2. exch' = [exch EXCEPT ![e] = letter]
    BY <1>1
  <2>. HIDE DEF letter
  <2>. QED
    BY <1>1, <2>1, <2>2, HeldOn
<1>2. ASSUME exch' = [exch EXCEPT ![e] = Over], UNCHANGED tabs, ~Awaited(e)
      PROVE  HeldInv'
  BY <1>2, RestType, HeldOn
<1>3. CASE Check(e)
  BY <1>1, <1>3 DEF Check
<1>4. CASE Issue(e)
  BY <1>1, <1>4 DEF Issue
<1>5. CASE Arrive(e)
  <2>1. CASE Awaited(e)
    <3>1. exch' = [exch EXCEPT ![e].at = "arrived"]
      BY <1>5, <2>1 DEF Arrive
    <3>. QED
      BY <1>1, <1>5, <3>1 DEF Arrive
  <2>2. CASE ~Awaited(e)
    BY <1>2, <1>5, <2>2 DEF Arrive
  <2>. QED
    BY <2>1, <2>2
<1>6. CASE ServerError(e)
  BY <1>1, <1>6 DEF ServerError
<1>7. CASE Expire(e)
  BY <1>7 DEF Expire, tabs, HeldInv, Held, Active
<1>8. CASE Drop(e)
  BY <1>2, <1>8 DEF Drop
<1>. QED
  BY <1>3, <1>4, <1>5, <1>6, <1>7, <1>8 DEF Travel

\* What is sent was not under way.
LEMMA SendFacts ==
    ASSUME TypeOK, NEW e \in Exchange, NEW kind \in {"login", "refresh"}, Send(kind, e)
    PROVE  /\ ~Active(e) /\ exch'[e].at = "sent" /\ exch'[e].kind = kind
           /\ exch'[e].cookie = cookie /\ exch'[e].csrf = csrf
           /\ \A d \in Exchange : d # e => exch'[d] = exch[d]
           /\ Active(e)'
           /\ \A d \in Exchange : d # e => (Active(d)' <=> Active(d))
  BY DEF TypeOK, Send, Active

\* A tab that is opened or closed, or whose refresh is settled.
LEMMA HeldTab ==
    ASSUME TypeOK, TypeOK', HeldInv, NEW t \in Tab,
           Open(t) \/ Close(t) \/ Settle(t) \/ Unreachable(t)
    PROVE  HeldInv'
<1>0. Held(t)
  BY DEF HeldInv
<1>1. CASE Open(t)
  <2>1. flight[t] = 0 /\ entry[t] = 0 /\ \A c \in Slot : call[t][c] = Idle
    BY <1>0, <1>1 DEF Open, Held
  <2>2. CASE csrf = 0 /\ UNCHANGED <<exch, flight, call, calm>>
    <3>1. status'[t] # "closed"
      BY <1>1, <2>2 DEF Open, TypeOK
    <3>2. Held(t)'
      BY <1>0, <1>1, <2>1, <2>2, <3>1, RestType DEF Open, Held, Active
    <3>. QED
      BY <1>1, <2>2, <3>2, HeldApart DEF Open, TypeOK
  <2>3. CASE csrf # 0
    <3>1. PICK e \in Exchange, c \in Slot :
              /\ Send("refresh", e)
              /\ flight' = [flight EXCEPT ![t] = e]
              /\ call' = [call EXCEPT ![t][c] =
                            [at |-> "opening", kind |-> "restore", bears |-> 0]]
      BY <1>1, <2>3 DEF Open
    <3>2. status'[t] # "closed" /\ flight'[t] = e /\ e # 0 /\ entry' = entry
      BY <1>1, <2>3, <3>1, TokenFacts DEF Open, TypeOK
    <3>3. \A d \in Slot : call'[t][d] = Idle
                       \/ call'[t][d] = [at |-> "opening", kind |-> "restore", bears |-> 0]
      BY <2>1, <3>1 DEF TypeOK
    <3>4. Held(t)'
      BY <2>1, <3>1, <3>2, <3>3, SendFacts, RestType DEF Held
    <3>5. \A u \in Tab \ {t} : /\ flight'[u] = flight[u] /\ entry'[u] = entry[u]
                               /\ call'[u] = call[u] /\ status'[u] = status[u]
      BY <1>1, <2>3, <3>1 DEF Open, TypeOK
    <3>. QED
      BY <3>1, <3>2, <3>4, <3>5, SendFacts, HeldApart
  <2>. QED
    BY <1>1, <2>2, <2>3 DEF Open
<1>2. CASE Close(t)
  <2>1. flight'[t] = 0 /\ entry'[t] = 0 /\ \A c \in Slot : call'[t][c] = Idle
    BY <1>2 DEF Close, TypeOK
  <2>2. Held(t)'
    BY <2>1, RestType DEF Held
  <2>. QED
    BY <1>2, <2>1, <2>2, HeldApart DEF Close, TypeOK, server
<1>3. CASE Refreshed(t)
  <2>. DEFINE e == flight[t]
  <2>1. e \in Exchange /\ exch[e].kind = "refresh" /\ e # 0
    BY <1>0, <1>3, TokenFacts DEF Refreshed, TypeOK, Held
  <2>2. \A c \in Slot : call[t][c] \in Call /\ call'[t][c] = Resumed(call[t][c], e)
    BY <1>3 DEF Refreshed, TypeOK
  <2>3. \A d \in Exchange : exch'[d] = IF d = e THEN Over ELSE exch[d]
    BY <1>3 DEF Refreshed, TypeOK
  <2>4. flight'[t] = 0 /\ entry'[t] = entry[t] /\ status'[t] = status[t]
    BY <1>3 DEF Refreshed, TypeOK
  <2>5. entry[t] # 0 => entry[t] \in Exchange /\ entry[t] # e
    BY <1>0, <2>1, TokenFacts DEF Held, TypeOK
  <2>6. \A c \in Slot : /\ call'[t][c].at \notin {"waiting", "opening"}
                        /\ call'[t][c].kind = call[t][c].kind
                        /\ \/ call'[t][c] = call[t][c]
                           \/ call'[t][c].at \in {"again", "sent"}
    BY <2>1, <2>2, ResumedFacts, TokenFacts
  <2>7. Held(t)'
    BY <1>0, <2>1, <2>3, <2>4, <2>5, <2>6 DEF Held, Active
  <2>. QED
    BY <1>3, <2>1, <2>3, <2>4, <2>7, HeldApart, RestType DEF Refreshed, TypeOK
<1>4. CASE Denied(t) \/ Unreachable(t)
  <2>. DEFINE e == flight[t]
  <2>1. e \in Exchange /\ exch[e].kind = "refresh" /\ e # 0
    BY <1>0, <1>4, TokenFacts DEF Denied, Unreachable, TypeOK, Held
  <2>2. \A c \in Slot : call'[t][c] = IF call[t][c].at \in {"waiting", "opening"}
                                      THEN Idle ELSE call[t][c]
    BY <1>4 DEF Denied, Unreachable, TypeOK
  <2>3. \A d \in Exchange : exch'[d] = exch[d] \/ (d = e /\ exch'[d] = Over)
    <3>1. CASE Denied(t)
      BY <3>1 DEF Denied, TypeOK
    <3>2. CASE Unreachable(t)
      BY <3>2 DEF Unreachable, server
    <3>. QED
      BY <1>4, <3>1, <3>2
  <2>4. flight'[t] = 0 /\ entry' = entry
    BY <1>4 DEF Denied, Unreachable, TypeOK
  <2>5. entry[t] # 0 => entry[t] \in Exchange /\ entry[t] # e
    BY <1>0, <2>1, TokenFacts DEF Held, TypeOK
  <2>6. status'[t] = "closed" => FALSE
    BY <1>0, <1>4, <2>1 DEF Denied, Unreachable, ClearSession, KeepSession, TypeOK, Held
  <2>7. Held(t)'
    BY <1>0, <2>1, <2>2, <2>3, <2>4, <2>5, <2>6, RestType DEF Held, Active
  <2>8. \A u \in Tab \ {t} : /\ flight'[u] = flight[u] /\ call'[u] = call[u]
                             /\ status'[u] = status[u]
    BY <1>4 DEF Denied, Unreachable, ClearSession, KeepSession, TypeOK
  <2>. QED
    BY <2>1, <2>3, <2>4, <2>7, <2>8, HeldApart, RestType
<1>. QED
  BY <1>1, <1>2, <1>3, <1>4 DEF Settle

\* The steps of one request.
LEMMA HeldHandle ==
    ASSUME TypeOK, TypeOK', HeldInv, NEW t \in Tab, NEW c \in Slot,
           SignIn(t, c) \/ Refuse(t, c) \/ Fails(t, c) \/ Handle(t, c)
             \/ (\E kind \in {"api", "logout"} : Ask(t, c, kind))
    PROVE  HeldInv'
<1>0. Held(t) /\ call[t][c] \in Call /\ call[t] \in [Slot -> Call]
  BY DEF HeldInv, TypeOK
<1>. DEFINE it == call'[t][c]
\* A request that asks for nothing new from the exchanges.
<1>1. ASSUME call' = [call EXCEPT ![t][c] = it],
             UNCHANGED <<exch, flight, entry>>,
             status'[t] = "closed" => FALSE,
             \A u \in Tab \ {t} : status'[u] = status[u],
             it.at \notin {"waiting", "opening", "entering"} \/ (it.at = "waiting" /\ flight[t] # 0),
             it.at \in {"leaving", "left"} => it.kind = "logout",
             it.at = "idle" => it.kind = "api",
             it.kind = "signIn" => call[t][c].kind = "signIn"
      PROVE  HeldInv'
  <2>1. \A d \in Slot \ {c} : call'[t][d] = call[t][d]
    BY <1>0, <1>1 DEF TypeOK
  <2>. HIDE DEF it
  <2>2. call'[t][c] = it
    BY DEF it
  <2>3. Held(t)'
    BY <1>0, <1>1, <2>1, <2>2 DEF Held, Active
  <2>4. \A u \in Tab \ {t} : call'[u] = call[u]
    BY <1>1 DEF TypeOK
  <2>. QED
    BY <1>1, <2>3, <2>4, HeldApart
<1>. HIDE DEF it
<1>2. CASE SignIn(t, c)
  <2>1. PICK e \in Exchange : Send("login", e) /\ entry' = [entry EXCEPT ![t] = e]
    BY <1>2 DEF SignIn
  <2>2. entry'[t] = e /\ e # 0 /\ UNCHANGED <<flight, status>>
    BY <1>2, <2>1, TokenFacts DEF SignIn, TypeOK
  <2>3. \A d \in Slot : call'[t][d] =
          IF d = c THEN [at |-> "entering", kind |-> "signIn", bears |-> 0] ELSE call[t][d]
    BY <1>2 DEF SignIn, TypeOK
  <2>4. flight[t] # 0 => flight[t] \in Exchange /\ flight[t] # e
    BY <1>0, <2>1, SendFacts, TokenFacts DEF Held, TypeOK
  <2>5. status[t] # "closed" /\ \A d \in Slot : call[t][d].kind # "signIn"
    BY <1>2 DEF SignIn
  <2>6. Held(t)'
    BY <1>0, <2>1, <2>2, <2>3, <2>4, <2>5, SendFacts DEF Held, Active
  <2>7. \A u \in Tab \ {t} : call'[u] = call[u] /\ entry'[u] = entry[u]
    BY <1>2, <2>1 DEF SignIn, TypeOK
  <2>. QED
    BY <2>1, <2>2, <2>6, <2>7, SendFacts, HeldApart
<1>3. CASE call[t][c].at = "entering" /\ (Refuse(t, c) \/ Fails(t, c) \/ Entered(t, c))
  <2>. DEFINE e == entry[t]
  <2>1. /\ e \in Exchange /\ e # 0 /\ exch[e].kind = "login"
        /\ call[t][c].kind = "signIn" /\ status[t] # "closed"
    BY <1>0, <1>3, TokenFacts, RestType DEF Held, TypeOK
  <2>2. \A d \in Slot \ {c} : call'[t][d] = call[t][d] /\ call[t][d].at # "entering"
    BY <1>0, <1>3, <2>1 DEF Refuse, Fails, Entered, Held, TypeOK
  <2>3. call'[t][c].at \in {"idle", "sent"} /\ call'[t][c].kind \in {"api", "signIn"}
    <3>1. CASE Refuse(t, c) \/ Fails(t, c)
      BY <1>0, <3>1, RestType DEF Refuse, Fails, TypeOK
    <3>2. CASE Entered(t, c)
      BY <1>0, <2>1, <3>2 DEF Entered, TypeOK, Call
    <3>. QED
      BY <1>3, <3>1, <3>2
  <2>4. call'[t][c].at = "idle" => call'[t][c].kind = "api"
    <3>1. CASE Refuse(t, c) \/ Fails(t, c)
      BY <1>0, <3>1, RestType DEF Refuse, Fails, TypeOK
    <3>2. CASE Entered(t, c)
      BY <1>0, <2>1, <3>2 DEF Entered, TypeOK, Call
    <3>. QED
      BY <1>3, <3>1, <3>2
  <2>5. \A d \in Exchange : exch'[d] = exch[d] \/ (d = e /\ exch'[d] = Over)
    <3>1. CASE Refuse(t, c) \/ Entered(t, c)
      BY <3>1 DEF Refuse, Entered, TypeOK
    <3>2. CASE Fails(t, c)
      BY <3>2 DEF Fails, server
    <3>. QED
      BY <1>3, <3>1, <3>2
  <2>6. entry' = [entry EXCEPT ![t] = 0] /\ UNCHANGED <<flight, status>>
    <3>1. CASE Refuse(t, c) \/ Entered(t, c)
      BY <3>1 DEF Refuse, Entered
    <3>2. CASE Fails(t, c)
      BY <1>3, <2>1, <3>2 DEF Fails, Throws, KeepSession
    <3>. QED
      BY <1>3, <3>1, <3>2
  <2>7. flight[t] # 0 => flight[t] \in Exchange /\ flight[t] # e
    BY <1>0, <2>1, TokenFacts DEF Held, TypeOK
  <2>8. entry'[t] = 0
    BY <2>6 DEF TypeOK
  <2>9. Held(t)'
    BY <1>0, <2>1, <2>2, <2>3, <2>4, <2>5, <2>6, <2>7, <2>8 DEF Held, Active
  <2>10. \A u \in Tab \ {t} : call'[u] = call[u] /\ entry'[u] = entry[u]
    BY <1>3, <2>6 DEF Refuse, Fails, Entered, TypeOK
  <2>. QED
    BY <2>1, <2>5, <2>6, <2>8, <2>9, <2>10, HeldApart, RestType
<1>4. CASE Fails(t, c) /\ call[t][c].at # "entering"
  <2>1. call' = [call EXCEPT ![t][c] = it] /\ it = Idle
    BY <1>0, <1>4 DEF Fails, it, TypeOK
  <2>2. status[t] # "closed"
    BY <1>0, <1>4, RestType DEF Fails, Held
  <2>3. status'[t] # "closed" /\ \A u \in Tab \ {t} : status'[u] = status[u]
    BY <1>4, <2>2 DEF Fails, Throws, ClearSession, KeepSession, TypeOK
  <2>. QED
    BY <1>1, <1>4, <2>1, <2>3, RestType DEF Fails, server
<1>5. ASSUME NEW kind \in {"api", "logout"}, Ask(t, c, kind) PROVE HeldInv'
  <2>1. call' = [call EXCEPT ![t][c] = it] /\ it.at = "sent" /\ it.kind = kind
    BY <1>0, <1>5 DEF Ask, it, TypeOK
  <2>. QED
    BY <1>1, <1>5, <2>1 DEF Ask, server
<1>6. CASE Served(t, c)
  <2>1. call' = [call EXCEPT ![t][c] = it] /\ it = Idle
    BY <1>0, <1>6 DEF Served, it, TypeOK
  <2>2. status[t] # "closed"
    BY <1>0, <1>6, RestType DEF Served, Held
  <2>3. status'[t] # "closed" /\ \A u \in Tab \ {t} : status'[u] = status[u]
    BY <1>6, <2>2 DEF Served, TypeOK
  <2>. QED
    BY <1>1, <1>6, <2>1, <2>3, RestType DEF Served, server
<1>7. CASE LogoutReads(t, c) \/ LogoutCommits(t, c)
  <2>1. call[t][c].kind = "logout" /\ status[t] # "closed" /\ UNCHANGED status
    BY <1>0, <1>7, RestType DEF LogoutReads, LogoutCommits, Held
  <2>2. /\ call' = [call EXCEPT ![t][c] = it] /\ it.kind = "logout"
        /\ it.at \in {"leaving", "left"}
    BY <1>0, <1>7, <2>1 DEF LogoutReads, LogoutCommits, it, TypeOK, Call
  <2>. QED
    BY <1>1, <1>7, <2>1, <2>2 DEF LogoutReads, LogoutCommits, server
<1>8. CASE SignedOut(t, c) \/ RefusedAgain(t, c)
  <2>1. call' = [call EXCEPT ![t][c] = it] /\ it = Idle
    BY <1>0, <1>8 DEF SignedOut, RefusedAgain, it, TypeOK
  <2>2. status[t] # "closed"
    BY <1>0, <1>8, RestType DEF SignedOut, RefusedAgain, Held
  <2>3. status'[t] # "closed" /\ \A u \in Tab \ {t} : status'[u] = status[u]
    BY <1>8, <2>2 DEF SignedOut, RefusedAgain, Throws, ClearSession, KeepSession, TypeOK
  <2>. QED
    BY <1>1, <1>8, <2>1, <2>3, RestType DEF SignedOut, RefusedAgain, server
<1>9. CASE Refused(t, c)
  <2>0. status[t] # "closed" /\ entry' = entry
    BY <1>0, <1>9, RestType DEF Refused, Held
  <2>1. CASE flight[t] # 0
    <3>1. call' = [call EXCEPT ![t][c] = it] /\ it.at = "waiting" /\ it.kind = call[t][c].kind
      BY <1>0, <1>9, <2>1 DEF Refused, Shared, it, TypeOK, Call
    <3>. QED
      BY <1>1, <1>9, <2>0, <2>1, <3>1 DEF Refused, Shared, KeepSession
  <2>2. CASE flight[t] = 0 /\ csrf = 0
    <3>1. call' = [call EXCEPT ![t][c] = it] /\ it = Idle
      BY <1>0, <1>9, <2>2 DEF Refused, Shared, it, TypeOK
    <3>2. status'[t] # "closed" /\ \A u \in Tab \ {t} : status'[u] = status[u]
      BY <1>9, <2>2 DEF Refused, Shared, ClearSession, TypeOK
    <3>. QED
      BY <1>1, <1>9, <2>2, <3>1, <3>2, RestType DEF Refused, Shared
  <2>3. CASE flight[t] = 0 /\ csrf # 0
    <3>1. PICK e \in Exchange : Send("refresh", e) /\ flight' = [flight EXCEPT ![t] = e]
      BY <1>9, <2>3 DEF Refused, Shared
    <3>2. call' = [call EXCEPT ![t][c] = it] /\ it.at = "waiting" /\ it.kind = call[t][c].kind
      BY <1>0, <1>9, <2>3 DEF Refused, Shared, it, TypeOK, Call
    <3>3. \A d \in Slot : call'[t][d] = IF d = c THEN it ELSE call[t][d]
      BY <1>0, <3>2 DEF TypeOK
    <3>4. flight'[t] = e /\ e # 0 /\ UNCHANGED status
      BY <1>9, <2>3, <3>1, TokenFacts DEF Refused, Shared, KeepSession, TypeOK
    <3>5. entry[t] # 0 => entry[t] \in Exchange /\ entry[t] # e
      BY <1>0, <3>1, SendFacts, TokenFacts DEF Held, TypeOK
    <3>6. Held(t)'
      BY <1>0, <2>0, <3>1, <3>2, <3>3, <3>4, <3>5, SendFacts DEF Held, Active
    <3>7. \A u \in Tab \ {t} : call'[u] = call[u] /\ flight'[u] = flight[u]
      BY <3>1, <3>2 DEF TypeOK
    <3>. QED
      BY <2>0, <3>1, <3>4, <3>6, <3>7, SendFacts, HeldApart
  <2>. QED
    BY <2>1, <2>2, <2>3
<1>. QED
  BY <1>2, <1>3, <1>4, <1>5, <1>6, <1>7, <1>8, <1>9 DEF Handle, Refuse, Entered

\* Any step at all.
LEMMA HeldNext == TypeOK /\ HeldInv /\ [Next]_vars => HeldInv'
<1>. SUFFICES ASSUME TypeOK, HeldInv, [Next]_vars PROVE HeldInv'
  OBVIOUS
<1>0. TypeOK'
  BY NextType
<1>1. CASE Elsewhere
  <2>1. \A e \in Exchange : exch'[e] = exch[e] \/ (~Active(e) /\ exch'[e] = Over)
    BY <1>1 DEF Elsewhere, Used, Active, TypeOK
  <2>2. \A t \in Tab : /\ flight[t] # 0 => flight[t] \in Exchange
                       /\ entry[t] # 0 => entry[t] \in Exchange
    BY TokenFacts DEF TypeOK
  <2>3. UNCHANGED tabs
    BY <1>1 DEF Elsewhere
  <2>4. \A e \in Exchange : /\ Active(e) => exch'[e] = exch[e]
                            /\ exch'[e].at = "checked" => exch'[e] = exch[e]
    BY <2>1, RestType
  <2>5. ASSUME NEW t \in Tab PROVE Held(t)'
    BY <2>2, <2>3, <2>4 DEF HeldInv, Held, Active, tabs
  <2>. QED
    BY <2>3, <2>4, <2>5 DEF HeldInv, tabs
<1>2. CASE CookieExpires
  BY <1>2 DEF CookieExpires, server, tabs, HeldInv, Held, Active
<1>3. CASE UNCHANGED vars
  BY <1>3 DEF vars, server, tabs, HeldInv, Held, Active
<1>. QED
  BY <1>0, <1>1, <1>2, <1>3, HeldServer, HeldTab, HeldHandle DEF Next

\* From the start.
LEMMA HeldAlways == Spec => []HeldInv
<1>1. Init => HeldInv
  BY RestType DEF Init, HeldInv, Held, Active
<1>. QED
  BY <1>1, HeldNext, TypeCorrect, PTL DEF Spec

\* No request waits for a refresh or a login that is over, whatever fails: it goes on,
\* or throws, with every other request that waited (client.ts:174-179).
THEOREM NobodyIsForgotten == Spec => []NobodyForgotten
<1>1. TypeOK /\ HeldInv => NobodyForgotten
  BY DEF HeldInv, Held, NobodyForgotten
<1>. QED
  BY <1>1, HeldAlways, TypeCorrect, PTL

-------------------------------------------------------------------------------
(* A session that nothing disturbs                                             *)

\* Without a logout nothing is left to be cleared, and idle requests are no logouts.
LEMMA Staying ==
    ASSUME TypeOK, HeldInv, ~SigningOut, NEW t \in Tab, NEW c \in Slot
    PROVE  call[t][c].kind # "logout" /\ call[t][c].at # "left"
<1>1. ASSUME call[t][c].kind = "logout" PROVE FALSE
  <2>1. call[t][c].at # "idle"
    BY <1>1 DEF HeldInv, Held
  <2>. DEFINE p == <<t, c>>
  <2>2. p \in Tab \X Slot /\ p[1] = t /\ p[2] = c
    OBVIOUS
  <2>. HIDE DEF p
  <2>3. p \in Busy
    BY <2>1, <2>2 DEF Busy
  <2>. QED
    BY <1>1, <2>2, <2>3 DEF SigningOut
<1>. QED
  BY <1>1 DEF HeldInv, Held

\* Where no request is under way, all are idle.
LEMMA AllIdle ==
    ASSUME TypeOK, Busy = {}, NEW t \in Tab, NEW c \in Slot
    PROVE  call[t][c].at = "idle"
<1>. DEFINE p == <<t, c>>
<1>1. p \in Tab \X Slot /\ p[1] = t /\ p[2] = c
  OBVIOUS
<1>. HIDE DEF p
<1>. QED
  BY <1>1 DEF Busy

\* The one exchange under way is all that any tab waits for.
LEMMA OneAwaited ==
    ASSUME TypeOK, HeldInv, Undisturbed, NEW e \in Exchange, Active(e), NEW t \in Tab
    PROVE  /\ flight[t] \in {0, e} /\ entry[t] \in {0, e}
           /\ flight[t] = e => /\ exch[e].kind = "refresh"
                               /\ \A u \in Tab : entry[u] = 0 /\ (u # t => flight[u] = 0)
           /\ entry[t] = e => /\ exch[e].kind = "login"
                              /\ \A u \in Tab : flight[u] = 0 /\ (u # t => entry[u] = 0)
<1>1. \A u \in Tab : /\ flight[u] \in {0, e} /\ entry[u] \in {0, e}
                     /\ flight[u] = e => exch[e].kind = "refresh"
                     /\ entry[u] = e => exch[e].kind = "login"
  BY TokenFacts DEF TypeOK, HeldInv, Held, Undisturbed, OneExchange
<1>2. e # 0
  BY TokenFacts
<1>. QED
  BY <1>1, <1>2 DEF HeldInv

\* Where no exchange is under way no tab waits for one.
LEMMA QuietTabs ==
    ASSUME TypeOK, HeldInv, Quiet, NEW t \in Tab
    PROVE  flight[t] = 0 /\ entry[t] = 0
  BY TokenFacts DEF TypeOK, HeldInv, Held, Quiet

\* A logout that waits for no refresh has the exchanges to itself.
LEMMA LogoutIsQuiet ==
    ASSUME TypeOK, HeldInv, Undisturbed, NEW t \in Tab, NEW c \in Slot,
           call[t][c].kind = "logout",
           call[t][c].at \notin {"waiting", "opening", "entering"}
    PROVE  Quiet
<1>. SUFFICES ASSUME NEW e \in Exchange, Active(e) PROVE FALSE
  BY DEF Quiet
<1>1. e # 0
  BY TokenFacts
<1>2. PICK u \in Tab : flight[u] = e \/ entry[u] = e
  BY DEF Undisturbed, Underway, Awaited
<1>3. PICK d \in Slot : call[u][d].at \in {"waiting", "opening", "entering"}
  BY <1>1, <1>2 DEF Undisturbed, Waiters
<1>4. t = u /\ c = d
  BY <1>3 DEF Undisturbed, LogoutAlone
<1>. QED
  BY <1>3, <1>4

\* The server's steps, and what becomes of an exchange nobody waits for.
LEMMA CalmServer ==
    ASSUME TypeOK, HeldInv, Undisturbed, calm', NEW e \in Exchange,
           Travel(e) \/ ServerError(e) \/ Expire(e) \/ Drop(e)
    PROVE  Undisturbed'
\* An exchange on its way goes one step further.
<1>1. ASSUME NEW at \in {"checked", "issued", "arrived"},
             Active(e), exch' = [exch EXCEPT ![e].at = at], UNCHANGED <<tabs, csrf>>,
             Course(e)'
      PROVE  Undisturbed'
  <2>1. \A d \in Exchange : exch'[d] = IF d = e THEN [exch[e] EXCEPT !.at = at] ELSE exch[d]
    BY <1>1 DEF TypeOK
  <2>2. exch'[e].at = at
    BY <2>1 DEF TypeOK, Letter
  <2>3. \A d \in Exchange : Active(d)' <=> Active(d)
    BY <1>1, <2>1, <2>2 DEF Active
  <2>4. OneExchange'
    BY <2>3 DEF Undisturbed, OneExchange
  <2>5. Underway'
    <3>. SUFFICES ASSUME NEW d \in Exchange, Active(d)' PROVE Awaited(d)' /\ Course(d)'
      BY DEF Underway
    <3>1. d = e
      BY <1>1, <2>3 DEF Undisturbed, OneExchange
    <3>2. Awaited(d)'
      BY <1>1, <2>3 DEF Undisturbed, Underway, Awaited, tabs
    <3>. QED
      BY <1>1, <3>1, <3>2
  <2>6. Between'
    BY <1>1, <2>3 DEF Between, Quiet
  <2>7. Waiters' /\ LogoutAlone' /\ HasToken'
    BY <1>1 DEF Undisturbed, Waiters, LogoutAlone, HasToken, tabs
  <2>. QED
    BY <2>4, <2>5, <2>6, <2>7 DEF Undisturbed
<1>0. exch[e] \in Letter
  BY DEF TypeOK
<1>2. CASE Check(e)
  <2>1. Active(e) /\ exch[e].at = "sent" /\ exch[e].kind = "refresh"
    BY <1>2 DEF Check, Active
  <2>2. Course(e)
    BY <2>1 DEF Undisturbed, Underway
  <2>3. Granted(exch[e])
    BY <2>1, <2>2 DEF Course, Halves, Granted
  <2>4. exch' = [exch EXCEPT ![e].at = "checked"]
    BY <1>2, <2>3 DEF Check
  <2>5. Course(e)'
    BY <1>0, <1>2, <2>1, <2>2, <2>4 DEF Check, Course, Halves, TypeOK, Letter, browser
  <2>. QED
    BY <1>1, <1>2, <2>1, <2>4, <2>5 DEF Check, browser
<1>3. CASE Issue(e)
  <2>1. Active(e) /\ exch' = [exch EXCEPT ![e].at = "issued"] /\ current' = e
    BY <1>3 DEF Issue, Active
  <2>2. Course(e)'
    BY <1>0, <2>1 DEF Course, TypeOK, Letter
  <2>. QED
    BY <1>1, <1>3, <2>1, <2>2 DEF Issue, browser
<1>4. CASE Arrive(e)
  <2>1. Active(e) /\ exch[e].at = "issued" /\ cookie' = e /\ current' = current
    BY <1>4 DEF Arrive, Active
  <2>2. Course(e) /\ Awaited(e)
    BY <2>1 DEF Undisturbed, Underway
  <2>3. exch' = [exch EXCEPT ![e].at = "arrived"]
    BY <1>4, <2>2 DEF Arrive
  <2>4. Course(e)'
    BY <1>0, <2>1, <2>2, <2>3 DEF Course, TypeOK, Letter
  <2>. QED
    BY <1>1, <1>4, <2>1, <2>3, <2>4 DEF Arrive
<1>5. CASE ServerError(e)
  BY <1>5 DEF ServerError, Fault
<1>6. CASE Expire(e)
  BY <1>6 DEF Expire, browser, tabs, Undisturbed, Underway, OneExchange, Waiters, LogoutAlone,
              Between, HasToken, Active, Awaited, Course, Halves, Quiet
<1>7. CASE Drop(e)
  BY <1>7 DEF Drop, Undisturbed, Underway
<1>. QED
  BY <1>2, <1>3, <1>4, <1>5, <1>6, <1>7 DEF Travel

\* What is sent while nothing else is under way, and nobody signs out, takes both
\* halves of the newest token along.
LEMMA CalmSend ==
    ASSUME TypeOK, HeldInv, Undisturbed, NEW e \in Exchange, NEW kind \in {"login", "refresh"},
           Send(kind, e), Quiet, UNCHANGED <<current, browser>>,
           \A t \in Tab, c \in Slot : call[t][c].at # "left",
           kind = "refresh" => csrf # 0,
           Awaited(e)'
    PROVE  Underway' /\ OneExchange' /\ Between'
<1>1. \A d \in Exchange : Active(d)' <=> d = e
  BY SendFacts DEF Quiet
<1>2. Halves
  BY DEF Undisturbed, Between
<1>3. Course(e)'
  BY <1>2, SendFacts DEF Course, Halves, browser
<1>4. Underway'
  BY <1>1, <1>3 DEF Underway
<1>5. OneExchange'
  BY <1>1 DEF OneExchange
<1>6. Between'
  BY <1>1 DEF Between, Quiet
<1>. QED
  BY <1>4, <1>5, <1>6

\* The end of the only exchange, when the halves have met.
LEMMA CalmOver ==
    ASSUME TypeOK, HeldInv, Undisturbed, NEW e \in Exchange, Active(e),
           exch' = [exch EXCEPT ![e] = Over],
           Halves'
    PROVE  Underway' /\ OneExchange' /\ Between'
<1>1. \A d \in Exchange : exch'[d] = IF d = e THEN Over ELSE exch[d]
  BY DEF TypeOK
<1>2. \A d \in Exchange : ~Active(d)'
  BY <1>1, RestType DEF Active, Undisturbed, OneExchange
<1>. QED
  BY <1>2 DEF Underway, OneExchange, Between

\* A tab that is opened or closed, or whose refresh is settled.
LEMMA CalmTab ==
    ASSUME TypeOK, HeldInv, Undisturbed, calm, calm', NEW t \in Tab,
           Open(t) \/ Close(t) \/ Settle(t) \/ Unreachable(t)
    PROVE  Undisturbed'
<1>0. Held(t)
  BY DEF HeldInv
<1>1. CASE Open(t) /\ csrf = 0
  BY <1>1 DEF Open, browser, TypeOK, Undisturbed, Underway, OneExchange, Waiters, LogoutAlone,
              Between, HasToken, Active, Awaited, Course, Halves, Quiet
<1>2. CASE Open(t) /\ csrf # 0
  <2>1. PICK e \in Exchange, c \in Slot :
            /\ Send("refresh", e)
            /\ calm' = (calm /\ Alone(t) /\ ~SigningOut)
            /\ flight' = [flight EXCEPT ![t] = e]
            /\ call' = [call EXCEPT ![t][c] =
                          [at |-> "opening", kind |-> "restore", bears |-> 0]]
    BY <1>2 DEF Open
  <2>2. Quiet /\ ~SigningOut
    <3>1. Alone(t) /\ ~SigningOut
      BY <2>1
    <3>2. flight[t] = 0
      BY <1>0, <1>2 DEF Open, Held
    <3>. QED
      BY <3>1, <3>2, TokenFacts DEF Alone, Quiet
  <2>3. \A u \in Tab, d \in Slot : call'[u][d] =
            IF u = t /\ d = c THEN [at |-> "opening", kind |-> "restore", bears |-> 0]
                              ELSE call[u][d]
    BY <2>1 DEF TypeOK
  <2>4. Underway' /\ OneExchange' /\ Between'
    <3>1. Awaited(e)'
      BY <2>1 DEF Awaited, TypeOK
    <3>. QED
      BY <1>2, <2>1, <2>2, <3>1, Staying, CalmSend DEF Open
  <2>5. Waiters'
    <3>1. \A u \in Tab : u # t => flight'[u] = 0
      BY <2>1, <2>2, QuietTabs DEF TypeOK
    <3>2. \A u \in Tab : entry'[u] = 0
      BY <1>2, <2>2, QuietTabs DEF Open
    <3>. QED
      BY <2>3, <3>1, <3>2 DEF Waiters
  <2>6. LogoutAlone'
    BY <2>2, <2>3, Staying DEF LogoutAlone
  <2>7. HasToken'
    <3>1. UNCHANGED <<access, csrf>> /\ status' = [status EXCEPT ![t] = "restoring"]
      BY <1>2 DEF Open, browser
    <3>2. \A u \in Tab : status'[u] = "authenticated" => status[u] = "authenticated"
      BY <3>1 DEF TypeOK
    <3>. QED
      BY <2>3, <3>1, <3>2 DEF Undisturbed, HasToken
  <2>. QED
    BY <2>4, <2>5, <2>6, <2>7 DEF Undisturbed
<1>3. CASE Close(t)
  <2>1. /\ flight[t] = 0 /\ entry[t] = 0
        /\ flight' = flight /\ entry' = entry
    BY <1>3 DEF Close, TypeOK
  <2>2. \A u \in Tab, c \in Slot : call'[u][c] = IF u = t THEN Idle ELSE call[u][c]
    BY <1>3 DEF Close, TypeOK
  <2>3. /\ UNCHANGED <<exch, current, cookie, csrf>>
        /\ \A u \in Tab : u # t => access'[u] = access[u] /\ status'[u] = status[u]
        /\ status'[t] = "closed"
    BY <1>3 DEF Close, TypeOK, server, browser
  <2>4. Underway' /\ OneExchange'
    BY <2>1, <2>3 DEF Undisturbed, Underway, OneExchange, Active, Awaited, Course, Halves
  <2>5. Waiters'
    BY <2>1, <2>2 DEF Undisturbed, Waiters
  <2>6. LogoutAlone'
    BY <2>2, RestType DEF Undisturbed, LogoutAlone
  <2>7. Between'
    <3>1. \A c \in Slot : call[t][c].at # "left"
      BY <1>0, <1>3 DEF Close, Held
    <3>. QED
      BY <2>2, <2>3, <3>1 DEF Undisturbed, Between, Quiet, Active, Halves
  <2>8. HasToken'
    BY <2>2, <2>3, RestType DEF Undisturbed, HasToken
  <2>. QED
    BY <2>4, <2>5, <2>6, <2>7, <2>8 DEF Undisturbed
<1>4. CASE Refreshed(t)
  <2>. DEFINE e == flight[t]
  <2>1. e \in Exchange /\ e # 0 /\ Active(e) /\ exch[e].at = "arrived"
    BY <1>4, TokenFacts DEF Refreshed, TypeOK, Active
  <2>2. current = e /\ cookie = e
    BY <2>1 DEF Undisturbed, Underway, Course
  <2>3. \A u \in Tab : flight'[u] = 0 /\ entry'[u] = 0
    BY <1>4, <2>1, OneAwaited DEF Refreshed, TypeOK
  <2>4. /\ csrf' = e /\ UNCHANGED <<current, cookie, status>>
        /\ \A u \in Tab : access'[u] = IF u = t THEN e ELSE access[u]
    BY <1>4 DEF Refreshed, TypeOK
  <2>5. \A u \in Tab, c \in Slot :
           /\ call[u][c] \in Call
           /\ call'[u][c] = IF u = t THEN Resumed(call[u][c], e) ELSE call[u][c]
    BY <1>4 DEF Refreshed, TypeOK
  <2>6. \A u \in Tab, c \in Slot :
           /\ call'[u][c].kind = call[u][c].kind
           /\ call'[u][c].at # "idle" => call[u][c].at # "idle"
           /\ u # t => call'[u][c] = call[u][c]
    BY <2>1, <2>5, ResumedFacts, TokenFacts
  <2>7. exch' = [exch EXCEPT ![e] = Over]
    BY <1>4 DEF Refreshed
  <2>. HIDE DEF e
  <2>8. Underway' /\ OneExchange' /\ Between'
    BY <2>1, <2>2, <2>4, <2>7, CalmOver DEF Halves
  <2>9. Waiters'
    BY <2>3 DEF Waiters
  <2>10. LogoutAlone'
    BY <2>6 DEF Undisturbed, LogoutAlone
  <2>11. HasToken'
    BY <2>1, <2>4, <2>6 DEF Undisturbed, HasToken
  <2>. QED
    BY <2>8, <2>9, <2>10, <2>11 DEF Undisturbed
<1>5. CASE Denied(t)
  <2>1. flight[t] \in Exchange /\ Active(flight[t]) /\ exch[flight[t]].at = "denied"
    BY <1>5, TokenFacts DEF Denied, TypeOK, Active
  <2>. QED
    BY <2>1 DEF Undisturbed, Underway, Course
<1>6. CASE Unreachable(t)
  BY <1>6 DEF Unreachable, Fault
<1>. QED
  BY <1>1, <1>2, <1>3, <1>4, <1>5, <1>6 DEF Settle, Open

\* The steps of one request.
LEMMA CalmHandle ==
    ASSUME TypeOK, HeldInv, Undisturbed, calm, calm', NEW t \in Tab, NEW c \in Slot,
           SignIn(t, c) \/ Refuse(t, c) \/ Fails(t, c) \/ Handle(t, c)
             \/ (\E kind \in {"api", "logout"} : Ask(t, c, kind))
    PROVE  Undisturbed'
<1>0. Held(t) /\ call[t][c] \in Call /\ call[t] \in [Slot -> Call]
  BY DEF HeldInv, TypeOK
<1>. DEFINE it == call'[t][c]
\* A request goes on or ends by itself: no exchange, and nobody who waits for one,
\* notices.
<1>1. ASSUME call' = [call EXCEPT ![t][c] = it],
             UNCHANGED <<exch, current, cookie, csrf, access, flight, entry>>,
             call[t][c].at \notin {"waiting", "opening", "entering", "left"},
             it.kind = "logout" => call[t][c].kind = "logout",
             it.at # "idle" => call[t][c].at # "idle",
             /\ it.kind \in {"signIn", "restore"}
             /\ it.at \in {"sent", "waiting", "again"}
             => /\ call[t][c].kind \in {"signIn", "restore"}
                /\ call[t][c].at \in {"sent", "waiting", "again"},
             \A u \in Tab : status'[u] = "authenticated" =>
                               status[u] = "authenticated" \/ access[u] # 0
      PROVE  Undisturbed'
  <2>. HIDE DEF it
  <2>1. \A u \in Tab, d \in Slot :
          call'[u][d] = IF u = t /\ d = c THEN it ELSE call[u][d]
    BY <1>1 DEF TypeOK
  <2>2. Underway' /\ OneExchange'
    BY <1>1 DEF Undisturbed, Underway, OneExchange, Active, Awaited, Course, Halves
  <2>3. Waiters'
    BY <1>1, <2>1 DEF Undisturbed, Waiters
  <2>4. LogoutAlone'
    BY <1>1, <2>1 DEF Undisturbed, LogoutAlone
  <2>5. Between'
    BY <1>1, <2>1 DEF Undisturbed, Between, Quiet, Active, Halves
  <2>6. HasToken'
    BY <1>1, <2>1 DEF Undisturbed, HasToken
  <2>. QED
    BY <2>2, <2>3, <2>4, <2>5, <2>6 DEF Undisturbed
<1>. HIDE DEF it
<1>2. CASE SignIn(t, c)
  <2>1. PICK e \in Exchange : Send("login", e) /\ entry' = [entry EXCEPT ![t] = e]
    BY <1>2 DEF SignIn
  <2>2. Quiet /\ ~SigningOut
    BY <1>2 DEF SignIn
  <2>3. \A u \in Tab, d \in Slot : call'[u][d] =
            IF u = t /\ d = c THEN [at |-> "entering", kind |-> "signIn", bears |-> 0]
                              ELSE call[u][d]
    BY <1>2 DEF SignIn, TypeOK
  <2>4. Underway' /\ OneExchange' /\ Between'
    <3>1. Awaited(e)'
      BY <2>1 DEF Awaited, TypeOK
    <3>. QED
      BY <1>2, <2>1, <2>2, <3>1, Staying, CalmSend DEF SignIn
  <2>5. Waiters'
    <3>1. \A u \in Tab : flight'[u] = 0 /\ (u # t => entry'[u] = 0)
      BY <1>2, <2>1, <2>2, QuietTabs DEF SignIn, TypeOK
    <3>. QED
      BY <2>3, <3>1 DEF Waiters
  <2>6. LogoutAlone'
    BY <2>2, <2>3, Staying DEF LogoutAlone
  <2>7. HasToken'
    <3>1. UNCHANGED <<access, csrf, status>>
      BY <1>2 DEF SignIn, browser
    <3>. QED
      BY <2>3, <3>1 DEF Undisturbed, HasToken
  <2>. QED
    BY <2>4, <2>5, <2>6, <2>7 DEF Undisturbed
<1>3. CASE Refuse(t, c) \/ Entered(t, c)
  <2>. DEFINE e == entry[t]
  <2>1. e \in Exchange /\ e # 0 /\ Active(e) /\ call[t][c].at = "entering"
    BY <1>0, <1>3, TokenFacts DEF Refuse, Entered, Held, TypeOK, Active
  <2>2. Course(e)
    BY <2>1 DEF Undisturbed, Underway
  <2>3. \A u \in Tab : flight'[u] = 0 /\ entry'[u] = 0
    BY <1>3, <2>1, OneAwaited DEF Refuse, Entered, TypeOK
  <2>4. exch' = [exch EXCEPT ![e] = Over] /\ UNCHANGED <<current, cookie, status>>
    BY <1>3 DEF Refuse, Entered, browser
  <2>5. /\ call' = [call EXCEPT ![t][c] = it]
        /\ it.kind = "logout" => call[t][c].kind = "logout"
    BY <1>0, <1>3, RestType DEF Refuse, Entered, it, TypeOK, Call
  <2>6. \A u \in Tab, d \in Slot :
          call'[u][d] = IF u = t /\ d = c THEN it ELSE call[u][d]
    BY <2>5 DEF TypeOK
  <2>7. Halves' /\ HasToken'
    <3>1. CASE Refuse(t, c)
      <4>1. UNCHANGED <<access, csrf>> /\ it = Idle
        BY <1>0, <3>1 DEF Refuse, browser, it, TypeOK
      <4>2. Halves'
        BY <2>2, <2>4, <3>1, <4>1 DEF Refuse, Course, Halves
      <4>3. HasToken'
        BY <2>4, <2>6, <4>1, RestType DEF Undisturbed, HasToken
      <4>. QED
        BY <4>2, <4>3
    <3>2. CASE Entered(t, c)
      <4>1. csrf' = e /\ \A u \in Tab : access'[u] = IF u = t THEN e ELSE access[u]
        BY <3>2 DEF Entered, TypeOK
      <4>2. Halves'
        BY <2>2, <2>4, <3>2, <4>1 DEF Entered, Course, Halves
      <4>. HIDE DEF e
      <4>3. HasToken'
        BY <2>1, <2>4, <2>6, <4>1 DEF Undisturbed, HasToken
      <4>. QED
        BY <4>2, <4>3
    <3>. QED
      BY <1>3, <3>1, <3>2
  <2>. HIDE DEF e
  <2>8. Underway' /\ OneExchange' /\ Between'
    BY <2>1, <2>4, <2>7, CalmOver
  <2>9. Waiters'
    BY <2>3 DEF Waiters
  <2>10. LogoutAlone'
    BY <2>1, <2>5, <2>6 DEF Undisturbed, LogoutAlone
  <2>. QED
    BY <2>7, <2>8, <2>9, <2>10 DEF Undisturbed
<1>4. CASE Fails(t, c) \/ RefusedAgain(t, c)
  BY <1>4 DEF Fails, Fault, RefusedAgain
<1>5. ASSUME NEW kind \in {"api", "logout"}, Ask(t, c, kind) PROVE Undisturbed'
  <2>1. ~SigningOut /\ (kind = "logout" => Busy = {}) /\ call[t][c].at = "idle"
    BY <1>5 DEF Ask
  <2>2. \A u \in Tab, d \in Slot : call'[u][d] =
            IF u = t /\ d = c THEN [at |-> "sent", kind |-> kind, bears |-> access[t]]
                              ELSE call[u][d]
    BY <1>5 DEF Ask, TypeOK
  <2>3. UNCHANGED <<exch, current, cookie, csrf, access, status, flight, entry>>
    BY <1>5 DEF Ask, server, browser
  <2>4. Underway' /\ OneExchange'
    BY <2>3 DEF Undisturbed, Underway, OneExchange, Active, Awaited, Course, Halves
  <2>5. Waiters'
    BY <2>1, <2>2, <2>3 DEF Undisturbed, Waiters
  <2>6. LogoutAlone'
    BY <2>1, <2>2, Staying, AllIdle DEF LogoutAlone
  <2>7. Between'
    BY <2>1, <2>3, Staying DEF Undisturbed, Between, Quiet, Active, Halves
  <2>8. HasToken'
    BY <2>2, <2>3 DEF Undisturbed, HasToken
  <2>. QED
    BY <2>4, <2>5, <2>6, <2>7, <2>8 DEF Undisturbed
<1>6. CASE Served(t, c)
  <2>1. call' = [call EXCEPT ![t][c] = it] /\ it = Idle
    BY <1>0, <1>6 DEF Served, it, TypeOK
  <2>2. UNCHANGED <<exch, current, cookie, csrf, access, flight, entry>>
    BY <1>6 DEF Served, server, browser
  <2>3. \A u \in Tab : status'[u] = "authenticated" =>
                          status[u] = "authenticated" \/ access[u] # 0
    BY <1>6 DEF Served, Undisturbed, HasToken, TypeOK
  <2>4. call[t][c].at \in {"sent", "again"}
    BY <1>6 DEF Served
  <2>. QED
    BY <1>1, <2>1, <2>2, <2>3, <2>4, RestType
<1>7. CASE LogoutReads(t, c)
  <2>1. call[t][c].kind = "logout" /\ call[t][c].at \in {"sent", "again"}
    BY <1>7 DEF LogoutReads
  <2>2. /\ call' = [call EXCEPT ![t][c] = it] /\ it.kind = "logout"
    BY <1>0, <1>7, <2>1 DEF LogoutReads, it, TypeOK, Call
  <2>. QED
    BY <1>1, <1>7, <2>1, <2>2 DEF LogoutReads, server, browser
<1>8. CASE LogoutCommits(t, c) \/ SignedOut(t, c)
  <2>1. call[t][c].kind = "logout" /\ call[t][c].at \in {"leaving", "left"}
    BY <1>0, <1>8 DEF LogoutCommits, SignedOut, Held
  <2>2. Quiet
    BY <2>1, LogoutIsQuiet
  <2>3. UNCHANGED <<exch, flight, entry>>
    BY <1>8 DEF LogoutCommits, SignedOut, server
  <2>4. \A u \in Tab : flight'[u] = 0 /\ entry'[u] = 0
    BY <2>2, <2>3, QuietTabs
  <2>5. call' = [call EXCEPT ![t][c] = it]
        /\ ((it.kind = "logout" /\ it.at = "left") \/ it = Idle)
    BY <1>0, <1>8, <2>1 DEF LogoutCommits, SignedOut, it, TypeOK, Call
  <2>6. \A u \in Tab, d \in Slot :
          call'[u][d] = IF u = t /\ d = c THEN it ELSE call[u][d]
    BY <2>5 DEF TypeOK
  <2>7. Underway' /\ OneExchange' /\ Waiters'
    BY <2>2, <2>3, <2>4 DEF Underway, OneExchange, Waiters, Quiet, Active
  <2>8. \A u \in Tab, d \in Slot : u # t \/ d # c => call'[u][d].at = "idle"
    BY <2>1, <2>6 DEF Undisturbed, LogoutAlone
  <2>9. LogoutAlone'
    <3>1. \A u \in Tab, d \in Slot : call'[u][d].kind = "logout" => u = t /\ d = c
      BY <2>1, <2>6 DEF Undisturbed, LogoutAlone
    <3>. QED
      BY <2>8, <3>1 DEF LogoutAlone
  <2>10. Between'
    <3>1. CASE LogoutCommits(t, c)
      BY <1>0, <2>5, <2>6, <3>1 DEF LogoutCommits, Between, it, TypeOK, Call
    <3>2. CASE SignedOut(t, c)
      BY <3>2 DEF SignedOut, ClearSession, Between, Halves
    <3>. QED
      BY <1>8, <3>1, <3>2
  <2>11. HasToken'
    <3>1. \A u \in Tab : status'[u] = "authenticated" => access'[u] # 0
      BY <1>8 DEF LogoutCommits, SignedOut, ClearSession, Undisturbed, HasToken, TypeOK, browser
    <3>2. \A u \in Tab, d \in Slot :
             ~(/\ call'[u][d].kind \in {"signIn", "restore"}
               /\ call'[u][d].at \in {"sent", "waiting", "again"})
      BY <2>5, <2>6, <2>8, RestType
    <3>. QED
      BY <3>1, <3>2 DEF HasToken
  <2>. QED
    BY <2>7, <2>9, <2>10, <2>11 DEF Undisturbed
<1>9. CASE Refused(t, c)
  <2>1. call[t][c].at = "sent" /\ UNCHANGED <<current, cookie, entry>>
    BY <1>9 DEF Refused
  <2>2. CASE Shared(t)
    <3>1. /\ call' = [call EXCEPT ![t][c] = it]
          /\ it.at = "waiting" /\ it.kind = call[t][c].kind
      BY <1>0, <1>9, <2>2 DEF Refused, it, TypeOK, Call
    <3>2. UNCHANGED <<exch, csrf, access, status, flight>>
      BY <1>9, <2>2 DEF Refused, KeepSession
    <3>. QED
      BY <1>1, <2>1, <3>1, <3>2
  <2>3. CASE ~Shared(t) /\ csrf # 0
    <3>1. PICK e \in Exchange : Send("refresh", e) /\ flight' = [flight EXCEPT ![t] = e]
      BY <1>9, <2>3 DEF Refused
    <3>2. Quiet /\ UNCHANGED <<access, csrf, status>>
      <4>1. Quiet
        <5>1. Alone(t)
          BY <1>9, <2>3 DEF Refused
        <5>. QED
          BY <2>3, <5>1, TokenFacts DEF Shared, Alone, Quiet
      <4>2. KeepSession
        BY <1>9, <2>3 DEF Refused
      <4>3. UNCHANGED <<access, csrf, status>>
        BY <4>2 DEF KeepSession
      <4>. QED
        BY <4>1, <4>3
    <3>3. /\ call' = [call EXCEPT ![t][c] = it]
          /\ it.at = "waiting" /\ it.kind = call[t][c].kind
      <4>1. call' = [call EXCEPT ![t][c].at = "waiting"]
        BY <1>9, <2>3 DEF Refused
      <4>. QED
        BY <1>0, <4>1 DEF it, TypeOK, Call
    <3>4. \A u \in Tab, d \in Slot :
            call'[u][d] = IF u = t /\ d = c THEN it ELSE call[u][d]
      BY <3>3 DEF TypeOK
    <3>5. \A u \in Tab, d \in Slot : call[u][d].at # "left"
      BY <2>1 DEF HeldInv, Held, Undisturbed, LogoutAlone
    <3>6. Underway' /\ OneExchange' /\ Between'
      <4>1. Awaited(e)'
        BY <3>1 DEF Awaited, TypeOK
      <4>. QED
        BY <2>1, <2>3, <3>1, <3>2, <3>5, <4>1, CalmSend DEF browser
    <3>7. Waiters'
      <4>1. \A u \in Tab : entry'[u] = 0 /\ (u # t => flight'[u] = 0)
        BY <2>1, <3>1, <3>2, QuietTabs DEF TypeOK
      <4>. QED
        BY <3>3, <3>4, <4>1 DEF Waiters
    <3>8. LogoutAlone'
      BY <2>1, <3>3, <3>4 DEF Undisturbed, LogoutAlone
    <3>9. HasToken'
      BY <2>1, <3>2, <3>3, <3>4 DEF Undisturbed, HasToken
    <3>. QED
      BY <3>6, <3>7, <3>8, <3>9 DEF Undisturbed
  <2>4. CASE ~Shared(t) /\ csrf = 0
    <3>1. call' = [call EXCEPT ![t][c] = it] /\ it = Idle
      BY <1>0, <1>9, <2>4 DEF Refused, it, TypeOK
    <3>2. \A u \in Tab, d \in Slot :
            call'[u][d] = IF u = t /\ d = c THEN it ELSE call[u][d]
      BY <3>1 DEF TypeOK
    <3>3. /\ UNCHANGED <<exch, flight>> /\ csrf' = csrf
          /\ \A u \in Tab : IF u = t THEN status'[u] = "anonymous"
                            ELSE status'[u] = status[u] /\ access'[u] = access[u]
      BY <1>9, <2>4 DEF Refused, ClearSession, TypeOK
    <3>4. Underway' /\ OneExchange'
      BY <2>1, <3>3 DEF Undisturbed, Underway, OneExchange, Active, Awaited, Course, Halves
    <3>5. Waiters'
      BY <2>1, <3>2, <3>3 DEF Undisturbed, Waiters
    <3>6. LogoutAlone'
      BY <3>1, <3>2, RestType DEF Undisturbed, LogoutAlone
    <3>7. Between'
      BY <2>1, <3>2, <3>3 DEF Undisturbed, Between, Quiet, Active, Halves
    <3>8. HasToken'
      BY <2>4, <3>1, <3>2, <3>3, RestType DEF Undisturbed, HasToken
    <3>. QED
      BY <3>4, <3>5, <3>6, <3>7, <3>8 DEF Undisturbed
  <2>. QED
    BY <2>2, <2>3, <2>4
<1>. QED
  BY <1>2, <1>3, <1>4, <1>5, <1>6, <1>7, <1>8, <1>9 DEF Handle

\* Any step at all.
LEMMA CalmNext == TypeOK /\ HeldInv /\ CalmInv /\ [Next]_vars => CalmInv'
<1>. SUFFICES ASSUME TypeOK, HeldInv, CalmInv, [Next]_vars, calm' PROVE Undisturbed'
  BY DEF CalmInv
<1>1. CASE Elsewhere
  BY <1>1 DEF Elsewhere, Fault
<1>2. CASE CookieExpires
  BY <1>2 DEF CookieExpires, Fault
<1>3. CASE UNCHANGED vars
  <2>1. calm
    BY <1>3 DEF vars, meter
  <2>2. Undisturbed
    BY <2>1 DEF CalmInv
  <2>. QED
    BY <1>3, <2>2 DEF vars, server, browser, tabs, Undisturbed, Underway, OneExchange, Waiters,
              LogoutAlone, Between, HasToken, Active, Awaited, Course, Halves, Quiet
<1>4. ASSUME NEW e \in Exchange, Travel(e) \/ ServerError(e) \/ Expire(e) \/ Drop(e)
      PROVE  Undisturbed'
  <2>1. calm
    BY <1>4 DEF Travel, Check, Issue, Arrive, ServerError, Expire, Drop, Fault, meter
  <2>. QED
    BY <1>4, <2>1, CalmServer DEF CalmInv
<1>5. ASSUME NEW t \in Tab, Open(t) \/ Close(t) \/ Settle(t) \/ Unreachable(t)
      PROVE  Undisturbed'
  <2>1. calm
    BY <1>5 DEF Open, Close, Settle, Refreshed, Denied, Unreachable, Fault, meter
  <2>. QED
    BY <1>5, <2>1, CalmTab DEF CalmInv
<1>6. ASSUME NEW t \in Tab, NEW c \in Slot,
             SignIn(t, c) \/ Refuse(t, c) \/ Fails(t, c) \/ Handle(t, c)
               \/ (\E kind \in {"api", "logout"} : Ask(t, c, kind))
      PROVE  Undisturbed'
  <2>1. calm
    BY <1>6 DEF SignIn, Refuse, Fails, Handle, Ask, Served, LogoutReads, LogoutCommits,
                SignedOut, Refused, RefusedAgain, Entered, Fault, meter
  <2>. QED
    BY <1>6, <2>1, CalmHandle DEF CalmInv
<1>. QED
  BY <1>1, <1>2, <1>3, <1>4, <1>5, <1>6 DEF Next

\* From the start.
LEMMA CalmAlways == Spec => []CalmInv
<1>1. Init => CalmInv
  BY RestType DEF Init, CalmInv, Undisturbed, Underway, OneExchange, Waiters, LogoutAlone,
                  Between, HasToken, Active, Awaited, Halves, Quiet
<1>. QED
  BY <1>1, CalmNext, HeldAlways, TypeCorrect, PTL DEF Spec

\* Five requests that find the token expired, one that finds out late, a reload, another
\* tab that takes its turn: no refresh is denied (client.ts:21-24).
THEOREM NoRefreshIsDenied == Spec => []NeverDenied
<1>1. CalmInv => NeverDenied
  BY DEF CalmInv, NeverDenied, Undisturbed, Underway, Active, Course
<1>. QED
  BY <1>1, CalmAlways, PTL

\* At any quiet moment the cookie, localStorage and the server agree on the token, so
\* that a reload restores the session (client.ts:90-97).
THEOREM SessionOutlivesReload == Spec => []SessionSurvives
<1>1. TypeOK /\ HeldInv /\ CalmInv => SessionSurvives
  BY Staying DEF CalmInv, SessionSurvives, Undisturbed, Between, Halves
<1>. QED
  BY <1>1, CalmAlways, HeldAlways, TypeCorrect, PTL

\* A tab that shows a workspace can ask for it (AuthContext.tsx:62-64).
THEOREM WhoShowsMayAsk == Spec => []ShowsWithToken
<1>1. CalmInv => ShowsWithToken
  BY DEF CalmInv, ShowsWithToken, Undisturbed, HasToken
<1>. QED
  BY <1>1, CalmAlways, PTL

===============================================================================
