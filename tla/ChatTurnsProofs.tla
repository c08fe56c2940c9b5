---------------------------- MODULE ChatTurnsProofs ----------------------------
(***************************************************************************)
(* Theorems about ChatTurns, for any number of requests, callers and       *)
(* tokens.                                                                 *)
(***************************************************************************)
EXTENDS ChatTurns, Integers, FiniteSetTheorems, TLAPS

\* One more in a table of counters.
LEMMA HitType ==
    ASSUME NEW I, NEW table \in [I -> [Tick -> Nat]], NEW i \in I, NEW w
    PROVE  Hit(table, i, w) \in [I -> [Tick -> Nat]]
<1>1. CASE WindowStart(now, w) \in Tick
  <2>1. Count(table, i, w) \in Nat
    BY <1>1 DEF Count
  <2>. QED
    BY <2>1 DEF Hit
<1>2. CASE WindowStart(now, w) \notin Tick
  BY <1>2 DEF Hit
<1>. QED
  BY <1>1, <1>2

\* The sweep leaves counters.
LEMMA SweepType ==
    ASSUME NEW I, NEW table \in [I -> [Tick -> Nat]], NEW sweep \in BOOLEAN
    PROVE  SweepOf(sweep, table) \in [I -> [Tick -> Nat]]
<1>1. \A i \in I : Swept(table[i]) \in [Tick -> Nat]
  BY DEF Swept
<1>. QED
  BY <1>1 DEF SweepOf

LEMMA CountsType ==
    ASSUME LimitTypeOK, NEW c \in Caller, CountsRequest(c) \/ CountsSignup(c)
    PROVE  hits' \in [Caller -> [Tick -> Nat]] /\ signups' \in [Address -> [Tick -> Nat]]
<1>1. AddressOf[c] \in Address
  BY LimiterAssumption
<1>2. /\ Hit(hits, c, Window) \in [Caller -> [Tick -> Nat]]
      /\ Hit(signups, AddressOf[c], SignupWindow) \in [Address -> [Tick -> Nat]]
      /\ signups \in [Address -> [Tick -> Nat]]
  BY <1>1, HitType DEF LimitTypeOK
<1>3. CASE CountsRequest(c)
  <2>1. PICK sweep \in BOOLEAN : /\ hits' = SweepOf(sweep, Hit(hits, c, Window))
                                /\ signups' = SweepOf(sweep, signups)
    BY <1>3 DEF CountsRequest
  <2>. QED
    BY <1>2, <2>1, SweepType
<1>4. CASE CountsSignup(c)
  <2>1. PICK sweep \in BOOLEAN :
            /\ hits' = SweepOf(sweep, Hit(hits, c, Window))
            /\ signups' = SweepOf(sweep, Hit(signups, AddressOf[c], SignupWindow))
    BY <1>4 DEF CountsSignup
  <2>. QED
    BY <1>2, <2>1, SweepType
<1>. QED
  BY <1>3, <1>4

LEMMA PassingType ==
    ASSUME LimitTypeOK, NEW c \in Caller, Passing(c)
    PROVE  passed' \in [Caller -> [Tick -> Nat]]
  BY DEF LimitTypeOK, Passing

LEMMA AccountsType ==
    ASSUME LimitTypeOK, NEW c \in Caller,
           accounts' = [accounts EXCEPT ![AddressOf[c]][now] = @ + 1]
    PROVE  accounts' \in [Address -> [Tick -> Nat]]
  BY LimiterAssumption DEF LimitTypeOK

\* Every verdict of the limiter keeps its types.
LEMMA LimitTypeNext ==
    ASSUME LimitTypeOK, NEW c \in Caller,
           \/ LetThrough(c) \/ TooMany(c) \/ Register(c)
           \/ FailsOpen(c) \/ FailsOpenForSignup(c),
           UNCHANGED now
    PROVE  LimitTypeOK'
<1>1. CASE LetThrough(c)
  BY <1>1, CountsType, PassingType DEF LetThrough, LimitTypeOK, Tick
<1>2. CASE TooMany(c)
  BY <1>2, CountsType DEF TooMany, LimitTypeOK, Tick
<1>3. CASE Register(c)
  <2>1. passed' \in [Caller -> [Tick -> Nat]] /\ accounts' \in [Address -> [Tick -> Nat]]
    BY <1>3, PassingType, AccountsType DEF Register, LimitTypeOK
  <2>. QED
    BY <1>3, <2>1, CountsType DEF Register, LimitTypeOK, Tick
<1>4. CASE FailsOpen(c)
  <2>1. errors' \in 0..MaxErrors /\ Passing(c) /\ UNCHANGED <<hits, signups, accounts>>
    BY <1>4, LimiterAssumption DEF FailsOpen, LimitTypeOK
  <2>. QED
    BY <2>1, PassingType DEF LimitTypeOK, Tick
<1>5. CASE FailsOpenForSignup(c)
  <2>1. errors' \in 0..MaxErrors /\ Passing(c) /\ UNCHANGED <<hits, signups>>
    BY <1>5, LimiterAssumption DEF FailsOpenForSignup, LimitTypeOK
  <2>2. accounts' \in [Address -> [Tick -> Nat]]
    BY <1>5, AccountsType DEF FailsOpenForSignup
  <2>. QED
    BY <2>1, <2>2, PassingType DEF LimitTypeOK, Tick
<1>. QED
  BY <1>1, <1>2, <1>3, <1>4, <1>5

\* A turn that ends or goes on keeps the types of the turns.
LEMMA NoTurnType == NoTurn \in Turn
  BY LimiterAssumption DEF NoTurn, Turn, Progress, Kind, Tick

LEMMA EndsType ==
    ASSUME TypeOK, NEW r \in Request, Ends(r)
    PROVE  turn' \in [Request -> Turn]
  BY NoTurnType DEF TypeOK, Ends

LEMMA GoesType ==
    ASSUME TypeOK, NEW r \in Request, NEW where \in Progress, Goes(r, where)
    PROVE  turn' \in [Request -> Turn]
  BY DEF TypeOK, Goes, Turn

LEMMA StartsType ==
    ASSUME TypeOK, NEW r \in Request, NEW changed \in Turn, Starts(r, changed)
    PROVE  turn' \in [Request -> Turn] /\ serial' \in 0..MaxTurns /\ serial + 1 \in Serial
<1>1. serial + 1 \in Serial /\ serial' \in 0..MaxTurns /\ now \in Tick
  BY TurnsAssumption DEF TypeOK, LimitTypeOK, Starts, Serial
<1>. QED
  BY <1>1 DEF TypeOK, Starts, Turn

LEMMA SpendsType ==
    ASSUME TypeOK, NEW r \in Request, NEW tokens \in Nat, Spends(r, tokens)
    PROVE  spent' \in [Serial -> Nat]
<1>1. CASE turn[r].at \in Serial
  <2>1. spent[turn[r].at] + tokens \in Nat
    BY <1>1 DEF TypeOK
  <2>. QED
    BY <2>1 DEF Spends, TypeOK
<1>2. CASE turn[r].at \notin Serial
  BY <1>2 DEF Spends, TypeOK
<1>. QED
  BY <1>1, <1>2

\* A turn that gets its price.
LEMMA PricedType ==
    ASSUME TypeOK, NEW r \in Request, NEW n \in Nat,
           Prices(r, n)
    PROVE  /\ turn' \in [Request -> Turn]
           /\ turn'[r] = [turn[r] EXCEPT !.pc = "priced", !.tokens = n]
           /\ \A q \in Request : q # r => turn'[q] = turn[q]
<1>. DEFINE new == [turn[r] EXCEPT !.pc = "priced", !.tokens = n]
<1>1. new \in Turn
  BY DEF TypeOK, Turn, Progress
<1>2. turn' = [turn EXCEPT ![r] = new]
  BY DEF Prices
<1>. QED
  BY <1>1, <1>2 DEF TypeOK

LEMMA TypeInit == Init => TypeOK
  BY NoTurnType, LimiterAssumption, TurnsAssumption
     DEF Init, LimitInit, TypeOK, LimitTypeOK, Tick, Serial

\* Every action keeps the types, given what a turn has.
LEMMA TypeNext == TypeOK /\ TurnInv /\ [Next]_vars => TypeOK'
<1>. SUFFICES ASSUME TypeOK, TurnInv, [Next]_vars PROVE TypeOK'
  OBVIOUS
<1>1. ASSUME NEW r \in Request, NEW kind \in Kind, NEW t \in 0..serial, NEW c \in Caller,
             Ask(r, kind, t), LetThrough(c) \/ FailsOpen(c), UNCHANGED now
      PROVE  TypeOK'
  <2>1. [NoTurn EXCEPT !.pc = "asked", !.kind = kind, !.thread = t] \in Turn
    <3>1. t \in Serial \cup {0}
      BY TurnsAssumption DEF Serial, TypeOK
    <3>. QED
      BY <3>1, NoTurnType DEF NoTurn, Turn, Progress
  <2>2. LimitTypeOK'
    BY <1>1, LimitTypeNext DEF TypeOK
  <2>. QED
    BY <1>1, <2>1, <2>2 DEF TypeOK, Ask
<1>2. ASSUME NEW c \in Caller, TooMany(c) \/ Register(c) \/ FailsOpenForSignup(c),
             UNCHANGED <<now, chatVars>>
      PROVE  TypeOK'
  BY <1>2, LimitTypeNext DEF TypeOK, chatVars
<1>3. CASE Advance /\ UNCHANGED <<limitVars, chatVars>>
  <2>1. now' \in Tick
    BY <1>3, LimiterAssumption DEF Advance, TypeOK, LimitTypeOK, Tick
  <2>2. LimitTypeOK'
    BY <1>3, <2>1 DEF TypeOK, LimitTypeOK, limitVars
  <2>. QED
    BY <1>3, <2>2 DEF TypeOK, chatVars
<1>4. CASE UNCHANGED vars
  BY <1>4 DEF TypeOK, LimitTypeOK, vars, limitVars, chatVars, Tick
<1>5. ASSUME NEW r \in Request, Work(r), UNCHANGED <<now, limitVars>> PROVE TypeOK'
  <2>0. LimitTypeOK' /\ turn[r] \in Turn
    BY <1>5 DEF TypeOK, LimitTypeOK, limitVars, Tick
  <2>1. CASE Authorise(r)
    <3>1. [turn[r] EXCEPT !.pc = "opened"] \in Turn
      BY <2>0 DEF Turn, Progress
    <3>. QED
      BY <2>0, <2>1, <3>1, StartsType DEF Authorise, TypeOK
  <2>2. CASE RouteCheck(r)
    <3>1. turn' \in [Request -> Turn]
      BY <2>2, EndsType, GoesType DEF RouteCheck, Progress
    <3>. QED
      BY <2>0, <2>2, <3>1 DEF RouteCheck, TypeOK
  <2>3. CASE Begin(r)
    <3>1. turn' \in [Request -> Turn] /\ serial' \in 0..MaxTurns
      <4>1. CASE Ends(r) /\ UNCHANGED serial
        BY <4>1, EndsType DEF TypeOK
      <4>2. CASE Starts(r, [turn[r] EXCEPT !.pc = "begun", !.thread = Resolved(@, serial + 1)])
        <5>1. serial + 1 \in Serial
          BY <4>2, TurnsAssumption DEF Starts, Serial, TypeOK
        <5>2. [turn[r] EXCEPT !.pc = "begun", !.thread = Resolved(@, serial + 1)] \in Turn
          BY <2>0, <5>1 DEF Turn, Progress, Resolved
        <5>. QED
          BY <4>2, <5>2, StartsType
      <4>3. CASE /\ turn' = [turn EXCEPT ![r].pc = "begun",
                                         ![r].thread = Resolved(@, turn[r].at)]
                 /\ UNCHANGED serial
        BY <2>0, <4>3 DEF TypeOK, Turn, Progress, Resolved
      <4>. QED
        BY <2>3, <4>1, <4>2, <4>3 DEF Begin
    <3>. QED
      BY <2>0, <2>3, <3>1 DEF Begin, TypeOK
  <2>4. CASE Retrieve(r)
    <3>1. turn' \in [Request -> Turn] /\ spent' \in [Serial -> Nat]
      BY <2>4, GoesType, SpendsType, TurnsAssumption DEF Retrieve, Progress
    <3>. QED
      BY <2>0, <2>4, <3>1 DEF Retrieve, TypeOK
  <2>5. CASE Complete(r)
    <3>1. PICK c \in Costs :
              /\ Spends(r, c)
              /\ Prices(r, Priced(turn[r].kind, c))
      BY <2>5 DEF Complete
    <3>2. c \in Nat /\ Priced(turn[r].kind, c) \in Nat
      BY TurnsAssumption DEF Priced
    <3>3. turn' \in [Request -> Turn] /\ spent' \in [Serial -> Nat]
      <4>1. spent' \in [Serial -> Nat]
        BY <3>1, <3>2, SpendsType
      <4>2. turn' \in [Request -> Turn]
        <5>1. PICK n \in Nat : Prices(r, n)
          BY <3>1, <3>2, Zenon
        <5>. QED
          BY <5>1, PricedType
      <4>. QED
        BY <4>1, <4>2
    <3>. QED
      BY <2>0, <2>5, <3>3 DEF Complete, TypeOK
  <2>6. CASE StartGraph(r)
    <3>1. turn[r].thread \in Serial
      BY <2>0, <2>6 DEF StartGraph, TurnInv, Sound, Working, Turn
    <3>2. checkpoint[turn[r].thread] \in Nat
      BY <3>1 DEF TypeOK
    <3>3. turn' \in [Request -> Turn]
      BY <2>0, <2>6, <3>2 DEF StartGraph, TypeOK, Turn, Progress
    <3>. QED
      BY <2>0, <2>6, <3>3 DEF StartGraph, TypeOK
  <2>7. CASE EndGraph(r)
    <3>1. PICK c \in Costs, reported \in BOOLEAN :
            /\ Spends(r, c)
            /\ checkpoint' = [checkpoint EXCEPT ![turn[r].thread] =
                                  turn[r].base + (IF reported THEN c ELSE 0)]
            /\ Prices(r, turn[r].base + (IF reported THEN c ELSE 0))
      BY <2>7 DEF EndGraph
    <3>2. c \in Nat /\ turn[r].base + (IF reported THEN c ELSE 0) \in Nat
      BY <2>0, TurnsAssumption DEF Turn
    <3>3. /\ turn' \in [Request -> Turn] /\ spent' \in [Serial -> Nat]
          /\ checkpoint' \in [Serial -> Nat]
      <4>1. spent' \in [Serial -> Nat] /\ checkpoint' \in [Serial -> Nat]
        BY <3>1, <3>2, SpendsType DEF TypeOK
      <4>2. turn' \in [Request -> Turn]
        <5>1. PICK n \in Nat : Prices(r, n)
          BY <3>1, <3>2, Zenon
        <5>. QED
          BY <5>1, PricedType
      <4>. QED
        BY <4>1, <4>2
    <3>. QED
      BY <2>0, <2>7, <3>3 DEF EndGraph, TypeOK
  <2>8. CASE Commit(r)
    <3>1. turn[r].thread \in Serial /\ turn[r].at \in Serial
      BY <2>0, <2>8 DEF Commit, TurnInv, Sound, Working, Turn
    <3>2. Question(turn[r]) \in Message /\ Answer(turn[r]) \in Message
      BY <2>0, <3>1 DEF Question, Answer, Message, CreatedAt, Serial
    <3>3. Bills(turn[r]) \subseteq Event
      BY <2>0, <3>1, TurnsAssumption DEF Bills, Bill, Event, Turn
    <3>4. turn' \in [Request -> Turn]
      BY <2>8, EndsType DEF Commit
    <3>5. threads' \subseteq Serial /\ messages' \subseteq Message /\ ledger' \subseteq Event
      BY <2>8, <3>1, <3>2, <3>3 DEF Commit, TypeOK
    <3>. QED
      BY <2>0, <2>8, <3>4, <3>5 DEF Commit, TypeOK, Tick, Event
  <2>9. CASE Fails(r)
    BY <2>0, <2>9, EndsType DEF Fails, TypeOK
  <2>. QED
    BY <1>5, <2>1, <2>2, <2>3, <2>4, <2>5, <2>6, <2>7, <2>8, <2>9 DEF Work
<1>. QED
  BY <1>1, <1>2, <1>3, <1>4, <1>5 DEF Next

LEMMA TurnsInit == Init => TurnsInv
  BY TurnsAssumption DEF Init, TurnsInv, TurnInv, Sound, Working, NoTurn, TurnsApart, UnspentYet,
                         Closed, Stamped, AnswersArePaid

\* A step of one request that commits nothing: it keeps its number, lets it go
\* or draws the next one, and spends on no other.
LEMMA TurnStep ==
    ASSUME TypeOK, TurnsInv, NEW r \in Request,
           UNCHANGED <<messages, ledger>>,
           \A q \in Request : q # r => turn'[q] = turn[q],
           \/ serial' = serial /\ turn'[r].at \in {0, turn[r].at}
           \/ serial' = serial + 1 /\ turn'[r].at = serial + 1,
           \A s \in Serial : s # turn[r].at => spent'[s] = spent[s],
           Sound(turn[r])'
    PROVE  TurnsInv'
<1>0. /\ serial \in Nat /\ serial' \in Nat /\ serial <= serial'
      /\ \A q \in Request : turn[q].at \in Serial \cup {0}
  BY TurnsAssumption DEF TypeOK, Turn
<1>1. TurnInv'
  <2>. SUFFICES ASSUME NEW q \in Request, q # r PROVE Sound(turn[q])'
    BY DEF TurnInv
  <2>1. turn'[q] = turn[q] /\ Sound(turn[q])
    BY DEF TurnsInv, TurnInv
  <2>2. turn[q].at # 0 => turn[q].at \in Serial /\ turn[q].at # turn[r].at
    BY <1>0 DEF TurnsInv, TurnsApart
  <2>3. turn[q].at # 0 => spent'[turn[q].at] = spent[turn[q].at]
    BY <2>2
  <2>4. turn[q].at <= serial'
    BY <1>0, <2>1 DEF Sound, Serial
  <2>. QED
    BY <2>1, <2>3, <2>4 DEF Sound, Working
<1>2. TurnsApart'
  <2>1. \A q \in Request : turn[q].at <= serial
    BY DEF TurnsInv, TurnInv, Sound
  <2>. SUFFICES ASSUME NEW p \in Request, NEW q \in Request, turn'[p].at # 0,
                       turn'[p].at = turn'[q].at
       PROVE  p = q
    BY DEF TurnsApart
  <2>2. CASE p # r /\ q # r
    BY <2>2 DEF TurnsInv, TurnsApart
  <2>3. CASE p # r /\ q = r
    BY <1>0, <2>1, <2>3 DEF TurnsInv, TurnsApart
  <2>4. CASE p = r /\ q # r
    BY <1>0, <2>1, <2>4 DEF TurnsInv, TurnsApart
  <2>. QED
    BY <2>2, <2>3, <2>4
<1>3. UnspentYet'
  <2>. SUFFICES ASSUME NEW s \in Serial, s > serial' PROVE spent'[s] = 0
    BY DEF UnspentYet
  <2>1. s > serial /\ s # turn[r].at
    BY <1>0 DEF TurnsInv, TurnInv, Sound, Serial
  <2>. QED
    BY <2>1 DEF TurnsInv, UnspentYet
<1>4. Closed'
  <2>1. ASSUME NEW s \in Nat, s <= serial, \A q \in Request : turn[q].at # s, s # 0
        PROVE  s <= serial' /\ \A q \in Request : turn'[q].at # s
    BY <1>0, <2>1
  <2>2. (\A m \in messages : m.of \in Nat /\ m.of # 0)
        /\ (\A e \in ledger : e.of \in Nat /\ e.of # 0)
    BY DEF TypeOK, Message, Event, Serial
  <2>. QED
    BY <2>1, <2>2 DEF TurnsInv, Closed
<1>5. Stamped'
  BY DEF TurnsInv, Stamped
<1>6. AnswersArePaid'
  <2>1. \A m \in messages : m.of \in Serial /\ spent'[m.of] = spent[m.of]
    BY DEF TurnsInv, Closed, TypeOK, Message
  <2>. QED
    BY <2>1 DEF TurnsInv, AnswersArePaid
<1>. QED
  BY <1>1, <1>2, <1>3, <1>4, <1>5, <1>6 DEF TurnsInv

LEMMA NoTurnSound ==
    ASSUME TypeOK PROVE Sound(NoTurn)
  BY TurnsAssumption DEF TypeOK, Sound, NoTurn, Working

\* A request that ends without a commit.
LEMMA EndsStep ==
    ASSUME TypeOK, TurnsInv, NEW r \in Request, Ends(r),
           UNCHANGED <<messages, ledger, serial, spent>>
    PROVE  TurnsInv'
<1>1. turn'[r] = NoTurn /\ NoTurn.at = 0 /\ \A q \in Request : q # r => turn'[q] = turn[q]
  BY DEF Ends, TypeOK, NoTurn
<1>2. Sound(turn[r])'
  BY <1>1, NoTurnSound DEF Sound
<1>. QED
  BY <1>1, <1>2, TurnStep

\* The one that commits.
LEMMA CommitStep ==
    ASSUME TypeOK, TurnsInv, NEW r \in Request, Commit(r)
    PROVE  TurnsInv'
<1>. DEFINE t == turn[r]
<1>0. /\ t.at \in Serial /\ t.at # 0 /\ t.at <= serial /\ t.pc = "priced" /\ Sound(t)
      /\ t.kind \in Kind /\ t.tokens \in Nat
  BY DEF Commit, TurnsInv, TurnInv, Sound, Working, TypeOK, Turn
<1>1. /\ turn'[r] = NoTurn /\ NoTurn.at = 0
      /\ \A q \in Request : q # r => turn'[q] = turn[q]
      /\ UNCHANGED <<serial, spent>>
  BY DEF Commit, Ends, TypeOK, NoTurn
<1>2. /\ messages \subseteq messages' /\ Question(t) \in messages'
      /\ messages' \subseteq messages \cup {Question(t), Answer(t)}
      /\ ledger' = ledger \cup Bills(t)
  BY DEF Commit
<1>3. /\ Question(t).of = t.at /\ Question(t).at = t.at /\ Question(t).id = 1
      /\ Question(t).role = "user"
      /\ Answer(t).of = t.at /\ Answer(t).at = t.at /\ Answer(t).id = 2
      /\ Answer(t).role = "assistant"
  BY DEF Question, Answer, CreatedAt
<1>4. \A e \in Bills(t) : e.of = t.at
  BY DEF Bills, Bill
<1>5. TurnInv'
  <2>1. Sound(NoTurn)'
    BY <1>1, NoTurnSound DEF Sound
  <2>2. \A q \in Request : q # r => Sound(turn[q])'
    BY <1>1 DEF TurnsInv, TurnInv, Sound
  <2>. QED
    BY <1>1, <2>1, <2>2 DEF TurnInv, Sound
<1>6. TurnsApart' /\ UnspentYet'
  BY <1>1 DEF TurnsInv, TurnsApart, UnspentYet
<1>7. Closed'
  <2>1. \A q \in Request : turn'[q].at # t.at
    BY <1>0, <1>1 DEF TurnsInv, TurnsApart
  <2>2. \A s \in Serial, q \in Request : turn[q].at # s => turn'[q].at # s
    BY <1>1 DEF Serial
  <2>3. (\A m \in messages : m.of \in Serial) /\ (\A e \in ledger : e.of \in Serial)
    BY DEF TypeOK, Message, Event
  <2>. QED
    BY <1>0, <1>1, <1>2, <1>3, <1>4, <2>1, <2>2, <2>3 DEF TurnsInv, Closed
<1>8. Stamped'
  BY <1>2, <1>3 DEF TurnsInv, Stamped
<1>9. AnswersArePaid'
  <2>1. \A m \in messages' : m.role = "assistant" =>
            \/ \E e, f \in ledger' : /\ e.of = m.of /\ e.kind = "EMBEDDING"
                                     /\ f.of = m.of /\ f.kind = "CHAT"
                                     /\ e.tokens + f.tokens = spent'[m.of]
            \/ \E e \in ledger' : e.of = m.of /\ e.kind = "AGENT"
    <3>. SUFFICES ASSUME NEW m \in messages', m.role = "assistant"
         PROVE  \/ \E e, f \in ledger' : /\ e.of = m.of /\ e.kind = "EMBEDDING"
                                         /\ f.of = m.of /\ f.kind = "CHAT"
                                         /\ e.tokens + f.tokens = spent'[m.of]
                \/ \E e \in ledger' : e.of = m.of /\ e.kind = "AGENT"
      OBVIOUS
    <3>1. CASE m \in messages
      BY <1>1, <1>2, <3>1 DEF TurnsInv, AnswersArePaid
    <3>2. CASE m = Answer(t) /\ t.kind = "agent"
      <4>1. Bill(t, "AGENT", t.tokens) \in ledger'
        BY <1>2, <3>2 DEF Bills
      <4>. QED
        BY <1>3, <3>2, <4>1 DEF Bill
    <3>3. CASE m = Answer(t) /\ t.kind # "agent"
      <4>1. /\ Bill(t, "EMBEDDING", EmbedCost) \in ledger'
            /\ Bill(t, "CHAT", t.tokens) \in ledger'
        BY <1>2, <3>3 DEF Bills
      <4>2. spent'[t.at] = EmbedCost + t.tokens
        BY <1>0, <1>1, <3>3 DEF Sound
      <4>. QED
        BY <1>3, <3>3, <4>1, <4>2 DEF Bill
    <3>. QED
      BY <1>2, <1>3, <3>1, <3>2, <3>3
  <2>2. \A e \in ledger' : \E q \in messages' : q.of = e.of /\ q.role = "user"
    BY <1>2, <1>3, <1>4 DEF TurnsInv, AnswersArePaid
  <2>. QED
    BY <2>1, <2>2 DEF AnswersArePaid
<1>. QED
  BY <1>5, <1>6, <1>7, <1>8, <1>9 DEF TurnsInv

\* Every action keeps the invariant.
LEMMA TurnsNext == TypeOK /\ TurnsInv /\ [Next]_vars => TurnsInv'
<1>. SUFFICES ASSUME TypeOK, TurnsInv, [Next]_vars PROVE TurnsInv'
  OBVIOUS
<1>1. ASSUME UNCHANGED chatVars PROVE TurnsInv'
  BY <1>1 DEF chatVars, TurnsInv, TurnInv, Sound, TurnsApart, UnspentYet, Closed, Stamped,
              AnswersArePaid
<1>2. ASSUME NEW r \in Request, NEW kind \in Kind, NEW t \in 0..serial, Ask(r, kind, t)
      PROVE  TurnsInv'
  <2>1. /\ turn'[r].at = 0 /\ turn'[r].pc = "asked"
        /\ \A q \in Request : q # r => turn'[q] = turn[q]
        /\ UNCHANGED <<messages, ledger, serial, spent>>
    BY <1>2 DEF Ask, TypeOK, NoTurn
  <2>2. Sound(turn[r])'
    BY <2>1, TurnsAssumption DEF Sound, Working, TypeOK
  <2>. QED
    BY <2>1, <2>2, TurnStep
<1>3. ASSUME NEW r \in Request, Authorise(r) PROVE TurnsInv'
  <2>1. /\ turn'[r].at = serial + 1 /\ turn'[r].pc = "opened" /\ serial' = serial + 1
        /\ \A q \in Request : q # r => turn'[q] = turn[q]
        /\ UNCHANGED <<messages, ledger, spent>>
    BY <1>3 DEF Authorise, Starts, TypeOK, Turn
  <2>2. serial + 1 \in Serial /\ spent[serial + 1] = 0
    BY <1>3, TurnsAssumption DEF Authorise, Starts, TypeOK, Serial, TurnsInv, UnspentYet
  <2>3. Sound(turn[r])'
    BY <2>1, <2>2 DEF Sound, Working, Serial
  <2>. QED
    BY <2>1, <2>3, TurnStep
<1>4. ASSUME NEW r \in Request, RouteCheck(r) PROVE TurnsInv'
  <2>1. CASE Ends(r)
    BY <1>4, <2>1, EndsStep DEF RouteCheck
  <2>2. CASE Goes(r, "opened")
    <3>1. /\ turn'[r].at = turn[r].at /\ turn'[r].pc = "opened" /\ turn'[r].kind = "stream"
          /\ \A q \in Request : q # r => turn'[q] = turn[q]
          /\ UNCHANGED <<messages, ledger, serial, spent>>
      BY <1>4, <2>2 DEF RouteCheck, Goes, TypeOK, Turn
    <3>2. Sound(turn[r])'
      BY <3>1 DEF TurnsInv, TurnInv, Sound, Working
    <3>. QED
      BY <3>1, <3>2, TurnStep
  <2>. QED
    BY <1>4, <2>1, <2>2 DEF RouteCheck
<1>5. ASSUME NEW r \in Request, Begin(r) PROVE TurnsInv'
  <2>0. /\ turn[r].pc = "opened" /\ Sound(turn[r]) /\ turn[r] \in Turn
        /\ UNCHANGED <<messages, ledger, spent>>
    BY <1>5 DEF Begin, TurnsInv, TurnInv, TypeOK
  <2>1. CASE Ends(r) /\ UNCHANGED serial
    BY <2>0, <2>1, EndsStep
  <2>2. CASE Starts(r, [turn[r] EXCEPT !.pc = "begun", !.thread = Resolved(@, serial + 1)])
    <3>1. /\ turn'[r].at = serial + 1 /\ turn'[r].pc = "begun" /\ serial' = serial + 1
          /\ turn'[r].thread = Resolved(turn[r].thread, serial + 1)
          /\ \A q \in Request : q # r => turn'[q] = turn[q]
      BY <2>0, <2>2 DEF Starts, TypeOK, Turn
    <3>2. serial + 1 \in Serial /\ spent[serial + 1] = 0 /\ serial + 1 # 0
      BY <2>2, TurnsAssumption DEF Starts, TypeOK, Serial, TurnsInv, UnspentYet
    <3>3. turn'[r].thread # 0
      BY <3>1, <3>2 DEF Resolved
    <3>4. Sound(turn[r])'
      BY <2>0, <3>1, <3>2, <3>3 DEF Sound, Working, Serial
    <3>. QED
      BY <2>0, <3>1, <3>4, TurnStep
  <2>3. CASE /\ turn' = [turn EXCEPT ![r].pc = "begun",
                                     ![r].thread = Resolved(@, turn[r].at)]
             /\ UNCHANGED serial /\ turn[r].kind # "stream"
    <3>1. /\ turn'[r].at = turn[r].at /\ turn'[r].pc = "begun"
          /\ turn'[r].thread = Resolved(turn[r].thread, turn[r].at)
          /\ \A q \in Request : q # r => turn'[q] = turn[q]
      BY <2>0, <2>3 DEF TypeOK, Turn
    <3>2. Sound(turn[r])'
      BY <2>0, <2>3, <3>1 DEF Sound, Working, Resolved
    <3>. QED
      BY <2>0, <2>3, <3>1, <3>2, TurnStep
  <2>. QED
    BY <1>5, <2>1, <2>2, <2>3 DEF Begin
<1>6. ASSUME NEW r \in Request, NEW n \in Nat, Spends(r, n)
      PROVE  /\ \A s \in Serial : s # turn[r].at => spent'[s] = spent[s]
             /\ turn[r].at \in Serial => spent'[turn[r].at] = spent[turn[r].at] + n
  BY <1>6 DEF Spends, TypeOK
<1>7. ASSUME NEW r \in Request, Retrieve(r) PROVE TurnsInv'
  <2>1. /\ turn[r].pc = "begun" /\ turn[r].kind # "agent" /\ Spends(r, EmbedCost)
        /\ Sound(turn[r]) /\ turn[r].at \in Serial
        /\ UNCHANGED <<messages, ledger, serial>>
    BY <1>7 DEF Retrieve, TurnsInv, TurnInv, Sound, Working, TypeOK, Turn
  <2>2. /\ turn'[r].at = turn[r].at /\ turn'[r].pc = "retrieved"
        /\ turn'[r].kind = turn[r].kind /\ turn'[r].thread = turn[r].thread
        /\ \A q \in Request : q # r => turn'[q] = turn[q]
    BY <1>7 DEF Retrieve, Goes, TypeOK, Turn
  <2>3. spent'[turn[r].at] = EmbedCost
    BY <1>6, <2>1, TurnsAssumption DEF Sound
  <2>4. Sound(turn[r])'
    BY <2>1, <2>2, <2>3 DEF Sound, Working
  <2>. QED
    BY <1>6, <2>1, <2>2, <2>4, TurnsAssumption, TurnStep
<1>8. ASSUME NEW r \in Request, NEW c \in Nat, NEW n \in Nat, Spends(r, c), Prices(r, n),
             turn[r].pc \in Working, turn[r].kind # "agent" => turn[r].pc = "retrieved" /\ n = c,
             UNCHANGED <<messages, ledger, serial>>
      PROVE  TurnsInv'
  <2>1. Sound(turn[r]) /\ turn[r].at \in Serial /\ turn[r].thread # 0
    BY <1>8 DEF TurnsInv, TurnInv, Sound, Working, TypeOK, Turn
  <2>2. /\ turn'[r].at = turn[r].at /\ turn'[r].pc = "priced" /\ turn'[r].tokens = n
        /\ turn'[r].kind = turn[r].kind /\ turn'[r].thread = turn[r].thread
        /\ \A q \in Request : q # r => turn'[q] = turn[q]
    BY <1>8 DEF Prices, TypeOK, Turn
  <2>3. turn[r].kind # "agent" => spent'[turn[r].at] = EmbedCost + n
    BY <1>6, <1>8, <2>1 DEF Sound
  <2>4. Sound(turn[r])'
    BY <1>8, <2>1, <2>2, <2>3 DEF Sound, Working, Serial
  <2>. QED
    BY <1>6, <1>8, <2>2, <2>4, TurnStep
<1>9. ASSUME NEW r \in Request, Complete(r) PROVE TurnsInv'
  <2>1. PICK c \in Costs : Spends(r, c) /\ Prices(r, Priced(turn[r].kind, c))
    BY <1>9 DEF Complete
  <2>2. c \in Nat /\ Prices(r, c)
    BY <2>1, TurnsAssumption DEF Priced
  <2>. QED
    BY <1>8, <1>9, <2>1, <2>2 DEF Complete, Working
<1>10. ASSUME NEW r \in Request, StartGraph(r) PROVE TurnsInv'
  <2>1. /\ turn'[r].at = turn[r].at /\ turn'[r].pc = "running"
        /\ turn'[r].kind = "agent" /\ turn'[r].thread = turn[r].thread
        /\ \A q \in Request : q # r => turn'[q] = turn[q]
        /\ UNCHANGED <<messages, ledger, serial, spent>>
    BY <1>10 DEF StartGraph, TypeOK, Turn
  <2>2. Sound(turn[r])'
    BY <1>10, <2>1 DEF StartGraph, TurnsInv, TurnInv, Sound, Working
  <2>. QED
    BY <2>1, <2>2, TurnStep
<1>11. ASSUME NEW r \in Request, EndGraph(r) PROVE TurnsInv'
  <2>1. PICK c \in Costs, reported \in BOOLEAN :
            /\ Spends(r, c)
            /\ Prices(r, turn[r].base + (IF reported THEN c ELSE 0))
    BY <1>11 DEF EndGraph
  <2>2. c \in Nat /\ turn[r].base + (IF reported THEN c ELSE 0) \in Nat
    BY TurnsAssumption DEF TypeOK, Turn
  <2>3. turn[r].pc = "running" /\ turn[r].kind = "agent"
        /\ UNCHANGED <<messages, ledger, serial>>
    BY <1>11 DEF EndGraph, TurnsInv, TurnInv, Sound
  <2>4. PICK n \in Nat : Prices(r, n)
    BY <2>1, <2>2, Zenon
  <2>. QED
    BY <1>8, <2>1, <2>2, <2>3, <2>4 DEF Working
<1>12. ASSUME NEW r \in Request, Fails(r) PROVE TurnsInv'
  BY <1>12, EndsStep DEF Fails
<1>13. CASE UNCHANGED vars
  BY <1>1, <1>13 DEF vars
<1>. QED
  BY <1>1, <1>2, <1>3, <1>4, <1>5, <1>7, <1>9, <1>10, <1>11, <1>12, <1>13, CommitStep
     DEF Next, Work

\* The invariant that the theorems below rest on.
LEMMA TurnsInvariant == Spec => [](TypeOK /\ TurnsInv)
<1>1. Init => TypeOK /\ TurnsInv
  BY TypeInit, TurnsInit
<1>2. TypeOK /\ TurnsInv /\ [Next]_vars => (TypeOK /\ TurnsInv)'
  BY TypeNext, TurnsNext DEF TurnsInv
<1>. QED
  BY <1>1, <1>2, PTL DEF Spec

\* Limiter, turns, conversation and ledger keep their types.
THEOREM TypeCorrect == Spec => []TypeOK
  BY TurnsInvariant, PTL

\* Every answer that is kept is in the ledger for what it cost, and every row
\* of the ledger belongs to a question that is kept: for any number of turns at
\* once, wherever providers, clients and processes fail.
THEOREM AnswersPaid == Spec => []AnswersArePaid
<1>1. TurnsInv => AnswersArePaid
  BY DEF TurnsInv
<1>. QED
  BY <1>1, TurnsInvariant, PTL

\* The history of a thread never puts anything between a question and its answer.
THEOREM HistoryInOrder == Spec => []AnswerFollowsQuestion
<1>1. TypeOK /\ TurnsInv => AnswerFollowsQuestion
  <2>. SUFFICES ASSUME TypeOK, TurnsInv, NEW q \in messages, NEW a \in messages,
                       q.of = a.of, q.role = "user", a.role = "assistant"
       PROVE  /\ Before(q, a)
              /\ \A m \in messages : m.thread = q.thread => ~(Before(q, m) /\ Before(m, a))
    BY DEF AnswerFollowsQuestion
  <2>1. q.id = 1 /\ a.id = 2 /\ q.at = a.at
    BY DEF TurnsInv, Stamped
  <2>2. \A m \in messages : m.at \in Nat /\ m.id \in {1, 2}
    BY DEF TypeOK, Message
  <2>. QED
    BY <2>1, <2>2 DEF Before
<1>. QED
  BY <1>1, TurnsInvariant, PTL

-------------------------------------------------------------------------------
(* RateLimit: sums over ticks, ticks in windows, windows within their limits *)

LEMMA RemOf ==
    ASSUME NEW t \in Nat, NEW w \in Nat \ {0}
    PROVE  t % w \in 0..(w - 1) /\ t = w * (t \div w) + (t % w) /\ t \div w \in Nat
  OBVIOUS

LEMMA StartIs ==
    ASSUME NEW t \in Nat, NEW w \in Nat \ {0}
    PROVE  \E k \in Nat : WindowStart(t, w) = k * w /\ k * w <= t /\ t < (k + 1) * w
<1>. DEFINE k == t \div w
           r == t % w
<1>1. r \in Int /\ 0 <= r /\ r < w /\ t = w * k + r /\ k \in Nat
  BY RemOf
<1>. HIDE DEF k, r
<1>2. WindowStart(t, w) = t - r
  BY DEF WindowStart, r
<1>3. k * w = w * k /\ (k + 1) * w = w * k + w /\ w * k \in Int
  BY <1>1
<1>. QED
  BY <1>1, <1>2, <1>3

LEMMA ByOrder ==
    ASSUME NEW j \in Nat, NEW k \in Nat, NEW w \in Nat \ {0}, j * w < (k + 1) * w
    PROVE  j <= k
<1>1. SUFFICES ASSUME j > k PROVE FALSE
  OBVIOUS
<1>2. j - (k + 1) \in Nat
  BY <1>1
<1>3. (j - (k + 1)) * w \in Nat
  BY <1>2
<1>4. (j - (k + 1)) * w = j * w - (k + 1) * w
  OBVIOUS
<1>5. j * w \in Int /\ (k + 1) * w \in Int
  OBVIOUS
<1>. QED
  BY <1>3, <1>4, <1>5

\* Windows do not go back.
LEMMA StartGrows ==
    ASSUME NEW t \in Nat, NEW u \in Nat, NEW w \in Nat \ {0}, t <= u
    PROVE  /\ WindowStart(t, w) \in Nat /\ WindowStart(t, w) <= WindowStart(u, w)
           /\ WindowStart(t, w) <= t /\ t < WindowStart(t, w) + w
<1>1. PICK j \in Nat : WindowStart(t, w) = j * w /\ j * w <= t /\ t < (j + 1) * w
  BY StartIs
<1>2. PICK k \in Nat : WindowStart(u, w) = k * w /\ k * w <= u /\ u < (k + 1) * w
  BY StartIs
<1>3. /\ j * w \in Nat /\ k * w \in Nat /\ (j + 1) * w \in Nat /\ (k + 1) * w \in Nat
      /\ (j + 1) * w = j * w + w
  OBVIOUS
<1>4. j <= k
  BY <1>1, <1>2, <1>3, ByOrder
<1>5. (k - j) \in Nat /\ (k - j) * w \in Nat /\ (k - j) * w = k * w - j * w
  BY <1>4
<1>. QED
  BY <1>1, <1>2, <1>3, <1>5

\* A stretch of one window's length touches two windows at most.
LEMMA TwoWindows ==
    ASSUME NEW t \in Nat, NEW u \in Nat, NEW w \in Nat \ {0}, t <= u, u <= t + w - 1
    PROVE  WindowStart(u, w) \in {WindowStart(t, w), WindowStart(t, w) + w}
<1>1. PICK j \in Nat : WindowStart(t, w) = j * w /\ j * w <= t /\ t < (j + 1) * w
  BY StartIs
<1>2. PICK k \in Nat : WindowStart(u, w) = k * w /\ k * w <= u /\ u < (k + 1) * w
  BY StartIs
<1>3. /\ j * w \in Nat /\ k * w \in Nat /\ (j + 1) * w \in Nat /\ (k + 1) * w \in Nat
      /\ (j + 1) * w = j * w + w /\ (j + 1 + 1) * w = j * w + w + w
  OBVIOUS
<1>4. j <= k
  BY <1>1, <1>2, <1>3, ByOrder
<1>5. k * w < (j + 1 + 1) * w
  BY <1>1, <1>2, <1>3
<1>6. k <= j + 1
  BY <1>5, ByOrder
<1>7. k = j \/ k = j + 1
  BY <1>4, <1>6
<1>. QED
  BY <1>1, <1>2, <1>3, <1>7
LEMMA UnitsIn ==
    ASSUME NEW f, NEW S, NEW x, NEW i
    PROVE  <<x, i>> \in Units(f, S) <=> x \in S /\ i \in 1..f[x]
  BY DEF Units

LEMMA UnitsFinite ==
    ASSUME NEW S, IsFiniteSet(S), NEW f, \A x \in S : f[x] \in Nat
    PROVE  IsFiniteSet(Units(f, S)) /\ SumOver(f, S) \in Nat
<1>. DEFINE g == [x \in S |-> {x} \X (1..f[x])]
            T == {{x} \X (1..f[x]) : x \in S}
<1>1. g \in Surjection(S, T)
  BY DEF Surjection
<1>2. IsFiniteSet(T)
  BY <1>1, FS_Surjection
<1>3. ASSUME NEW x \in S
      PROVE  IsFiniteSet({x} \X (1..f[x]))
  <2>1. IsFiniteSet({x})
    BY FS_Singleton
  <2>2. IsFiniteSet(1..f[x])
    <3>1. 1 \in Int /\ f[x] \in Int
      BY <1>3
    <3>. QED
      BY <3>1, FS_Interval
  <2>. QED
    BY <2>1, <2>2, FS_Product
<1>4. IsFiniteSet(UNION T)
  <2>1. \A X \in T : IsFiniteSet(X)
    BY <1>3
  <2>. HIDE DEF T
  <2>. QED
    BY <1>2, <2>1, FS_UNION
<1>. QED
  BY <1>4, FS_CardinalityType DEF Units, SumOver

LEMMA SumOfNone ==
    ASSUME NEW S, NEW f, \A x \in S : f[x] = 0
    PROVE  SumOver(f, S) = 0
<1>1. \A x \in S : {x} \X (1..f[x]) = {}
  OBVIOUS
<1>2. Units(f, S) = {}
  BY <1>1 DEF Units
<1>. QED
  BY <1>2, FS_EmptySet DEF SumOver

LEMMA SumOfSame ==
    ASSUME NEW S, NEW f, NEW g, \A x \in S : f[x] = g[x]
    PROVE  SumOver(f, S) = SumOver(g, S)
<1>1. Units(f, S) = Units(g, S)
  BY DEF Units
<1>. QED
  BY <1>1 DEF SumOver

LEMMA SumOfPart ==
    ASSUME NEW S, IsFiniteSet(S), NEW T \in SUBSET S, NEW f, \A x \in S : f[x] \in Nat
    PROVE  SumOver(f, T) <= SumOver(f, S)
<1>1. Units(f, T) \subseteq Units(f, S)
  BY DEF Units
<1>. QED
  BY <1>1, UnitsFinite, FS_Subset DEF SumOver

LEMMA SumOfUnion ==
    ASSUME NEW S, IsFiniteSet(S), NEW T, IsFiniteSet(T), NEW f, \A x \in S \cup T : f[x] \in Nat
    PROVE  SumOver(f, S \cup T) <= SumOver(f, S) + SumOver(f, T)
<1>1. Units(f, S \cup T) = Units(f, S) \cup Units(f, T)
  BY DEF Units
<1>2. /\ IsFiniteSet(Units(f, S)) /\ IsFiniteSet(Units(f, T))
      /\ SumOver(f, S) \in Nat /\ SumOver(f, T) \in Nat
  BY UnitsFinite
<1>3. Cardinality(Units(f, S) \cap Units(f, T)) \in Nat
  BY <1>2, FS_Intersection, FS_CardinalityType
<1>. QED
  <2>1. Cardinality(Units(f, S) \cup Units(f, T))
            = Cardinality(Units(f, S)) + Cardinality(Units(f, T))
                - Cardinality(Units(f, S) \cap Units(f, T))
    BY <1>2, FS_Union
  <2>2. SumOver(f, S \cup T) = Cardinality(Units(f, S) \cup Units(f, T))
    BY <1>1 DEF SumOver
  <2>3. SumOver(f, S \cup T)
            = SumOver(f, S) + SumOver(f, T) - Cardinality(Units(f, S) \cap Units(f, T))
    BY <2>1, <2>2 DEF SumOver
  <2>. QED
    BY <1>2, <1>3, <2>3

LEMMA SumOfMore ==
    ASSUME NEW S, IsFiniteSet(S), NEW f, NEW g, NEW y \in S,
           \A x \in S : f[x] \in Nat, 
           \A x \in S : g[x] = IF x = y THEN f[x] + 1 ELSE f[x]
    PROVE  SumOver(g, S) = SumOver(f, S) + 1
<1>1. Units(g, S) = Units(f, S) \cup {<<y, g[y]>>}
  <2>1. ASSUME NEW u \in Units(g, S)
        PROVE  u \in Units(f, S) \cup {<<y, g[y]>>}
    <3>1. PICK x \in S : u \in {x} \X (1..g[x])
      BY DEF Units
    <3>2. PICK i \in 1..g[x] : u = <<x, i>>
      BY <3>1
    <3>3. i \in 1..f[x] \/ (x = y /\ i = g[y])
      BY <3>2
    <3>. QED
      BY <3>2, <3>3, UnitsIn
  <2>2. ASSUME NEW u \in Units(f, S)
        PROVE  u \in Units(g, S)
    <3>1. PICK x \in S : u \in {x} \X (1..f[x])
      BY DEF Units
    <3>2. PICK i \in 1..f[x] : u = <<x, i>>
      BY <3>1
    <3>3. i \in 1..g[x]
      BY <3>2
    <3>. QED
      BY <3>2, <3>3, UnitsIn
  <2>3. g[y] \in 1..g[y]
    OBVIOUS
  <2>4. <<y, g[y]>> \in Units(g, S)
    BY <2>3, UnitsIn
  <2>. QED
    BY <2>1, <2>2, <2>4
<1>2. g[y] \notin 1..f[y]
  OBVIOUS
<1>3. <<y, g[y]>> \notin Units(f, S)
  BY <1>2, UnitsIn
<1>. QED
  BY <1>1, <1>3, UnitsFinite, FS_AddElement DEF SumOver

\* Rows are finite, and the current one is a row of the table.
LEMMA RowsFinite ==
    ASSUME NEW s, NEW w
    PROVE  IsFiniteSet(RowOf(s, w)) /\ RowOf(s, w) \subseteq Tick /\ IsFiniteSet(Tick)
<1>1. IsFiniteSet(Tick)
  <2>1. 0 \in Int /\ MaxNow \in Int
    BY LimiterAssumption
  <2>. QED
    BY <2>1, FS_Interval DEF Tick
<1>2. RowOf(s, w) \in SUBSET Tick
  BY DEF RowOf
<1>. QED
  BY <1>1, <1>2, FS_Subset

LEMMA CurrentRow ==
    ASSUME NEW t \in Tick, NEW w \in Nat \ {0}
    PROVE  WindowStart(t, w) \in Tick /\ t \in RowOf(WindowStart(t, w), w)
<1>1. t \in Nat
  BY LimiterAssumption DEF Tick
<1>2. WindowStart(t, w) \in Nat /\ WindowStart(t, w) <= t
  BY <1>1, StartGrows
<1>. QED
  BY <1>1, <1>2, LimiterAssumption DEF Tick, RowOf

LEMMA IntoType ==
    ASSUME NEW p \in [Tick -> Nat], NEW s, NEW w
    PROVE  SumOver(p, RowOf(s, w)) \in Nat
<1>1. \A t \in RowOf(s, w) : p[t] \in Nat
  BY RowsFinite
<1>. QED
  BY <1>1, RowsFinite, UnitsFinite

\* A request that passes goes into the current row and no other.
LEMMA IntoMore ==
    ASSUME NEW p \in [Tick -> Nat], NEW n \in Tick, NEW w \in Nat \ {0}, NEW s
    PROVE  SumOver([p EXCEPT ![n] = @ + 1], RowOf(s, w))
             = SumOver(p, RowOf(s, w)) + (IF s = WindowStart(n, w) THEN 1 ELSE 0)
<1>. DEFINE q == [p EXCEPT ![n] = @ + 1]
<1>0. \A t \in Tick : p[t] \in Nat /\ q[t] = IF t = n THEN p[t] + 1 ELSE p[t]
  OBVIOUS
<1>. HIDE DEF q
<1>1. CASE s = WindowStart(n, w)
  <2>1. n \in RowOf(s, w)
    BY <1>1, CurrentRow
  <2>2. /\ \A t \in RowOf(s, w) : p[t] \in Nat
        /\ \A t \in RowOf(s, w) : q[t] = IF t = n THEN p[t] + 1 ELSE p[t]
    BY <1>0, RowsFinite
  <2>3. SumOver(q, RowOf(s, w)) = SumOver(p, RowOf(s, w)) + 1
    BY <2>1, <2>2, RowsFinite, SumOfMore
  <2>. QED
    BY <1>1, <2>3 DEF q
<1>2. CASE s # WindowStart(n, w)
  <2>1. n \notin RowOf(s, w)
    BY <1>2 DEF RowOf
  <2>2. \A t \in RowOf(s, w) : q[t] = p[t]
    BY <1>0, <2>1, RowsFinite
  <2>3. SumOver(q, RowOf(s, w)) = SumOver(p, RowOf(s, w))
    BY <2>2, SumOfSame
  <2>4. SumOver(p, RowOf(s, w)) \in Nat
    BY IntoType
  <2>. QED
    BY <1>2, <2>3, <2>4 DEF q
<1>. QED
  BY <1>1, <1>2

\* Nothing passes: the counter may go up all the same, and so may the failures.
LEMMA FitsStays ==
    ASSUME NEW p \in [Tick -> Nat], NEW h \in [Tick -> Nat], NEW k \in [Tick -> Nat],
           NEW w \in Nat \ {0}, NEW limit \in Nat, NEW n \in Tick,
           NEW e \in Nat, NEW f \in Nat, Fits(p, h, w, limit, n, e),
           k[WindowStart(n, w)] >= h[WindowStart(n, w)], f >= e
    PROVE  Fits(p, k, w, limit, n, f)
<1>. DEFINE In(s) == SumOver(p, RowOf(s, w))
            current == WindowStart(n, w)
<1>1. \A s : In(s) \in Nat
  BY IntoType
<1>2. current \in Tick
  BY CurrentRow
<1>3. h[current] \in Nat /\ k[current] \in Nat /\ k[current] >= h[current]
  BY <1>2
<1>4. /\ \A t \in Tick : t > n => p[t] = 0
      /\ In(current) <= h[current] + e
      /\ \A s \in Tick : In(s) <= limit + e
      /\ \A s \in Tick \ {current} : In(s) + In(current) <= h[current] + limit + e
      /\ \A s, u \in Tick : s # u => In(s) + In(u) <= 2 * limit + e
  BY DEF Fits
<1>5. Fits(p, k, w, limit, n, f) <=>
      /\ \A t \in Tick : t > n => p[t] = 0
      /\ In(current) <= k[current] + f
      /\ \A s \in Tick : In(s) <= limit + f
      /\ \A s \in Tick \ {current} : In(s) + In(current) <= k[current] + limit + f
      /\ \A s, u \in Tick : s # u => In(s) + In(u) <= 2 * limit + f
  BY DEF Fits
<1>. HIDE DEF In, current
<1>6. In(current) <= k[current] + f
  BY <1>1, <1>3, <1>4
<1>7. \A s \in Tick : In(s) <= limit + f
  BY <1>1, <1>4
<1>8. \A s \in Tick \ {current} : In(s) + In(current) <= k[current] + limit + f
  BY <1>1, <1>3, <1>4
<1>9. \A s, u \in Tick : s # u => In(s) + In(u) <= 2 * limit + f
  BY <1>1, <1>4
<1>. QED
  BY <1>4, <1>5, <1>6, <1>7, <1>8, <1>9

\* One passes, counted within the limit or missed by a failure.
LEMMA FitsPasses ==
    ASSUME NEW p \in [Tick -> Nat], NEW h \in [Tick -> Nat], NEW k \in [Tick -> Nat],
           NEW w \in Nat \ {0}, NEW limit \in Nat, NEW n \in Tick,
           NEW e \in Nat, NEW f \in Nat, Fits(p, h, w, limit, n, e),
           LET current == WindowStart(n, w)
           IN  \/ k[current] = h[current] + 1 /\ k[current] <= limit /\ f = e
               \/ k[current] = h[current] /\ f = e + 1
    PROVE  Fits([p EXCEPT ![n] = @ + 1], k, w, limit, n, f)
<1>. DEFINE q == [p EXCEPT ![n] = @ + 1]
            In(s) == SumOver(p, RowOf(s, w))
            Now(s) == SumOver(q, RowOf(s, w))
            current == WindowStart(n, w)
<1>1. \A s : In(s) \in Nat
  BY IntoType
<1>2. \A s : Now(s) = In(s) + (IF s = current THEN 1 ELSE 0)
  BY IntoMore
<1>3. current \in Tick
  BY CurrentRow
<1>4. h[current] \in Nat /\ k[current] \in Nat
  BY <1>3
<1>5. \/ k[current] = h[current] + 1 /\ k[current] <= limit /\ f = e
      \/ k[current] = h[current] /\ f = e + 1
  OBVIOUS
<1>6. /\ \A t \in Tick : t > n => p[t] = 0
      /\ In(current) <= h[current] + e
      /\ \A s \in Tick : In(s) <= limit + e
      /\ \A s \in Tick \ {current} : In(s) + In(current) <= h[current] + limit + e
      /\ \A s, u \in Tick : s # u => In(s) + In(u) <= 2 * limit + e
  BY DEF Fits
<1>7. Fits(q, k, w, limit, n, f) <=>
      /\ \A t \in Tick : t > n => q[t] = 0
      /\ Now(current) <= k[current] + f
      /\ \A s \in Tick : Now(s) <= limit + f
      /\ \A s \in Tick \ {current} : Now(s) + Now(current) <= k[current] + limit + f
      /\ \A s, u \in Tick : s # u => Now(s) + Now(u) <= 2 * limit + f
  BY DEF Fits
<1>8. \A t \in Tick : t > n => q[t] = 0
  BY <1>6, LimiterAssumption DEF Tick
<1>. HIDE DEF In, Now, current, q
<1>9. Now(current) <= k[current] + f
  BY <1>1, <1>2, <1>4, <1>5, <1>6
<1>10. \A s \in Tick \ {current} : Now(s) + Now(current) <= k[current] + limit + f
  BY <1>1, <1>2, <1>4, <1>5, <1>6
<1>11. \A s \in Tick : Now(s) <= limit + f
  BY <1>1, <1>2, <1>4, <1>5, <1>6
<1>12. \A s, u \in Tick : s # u => Now(s) + Now(u) <= 2 * limit + f
  <2>. SUFFICES ASSUME NEW s \in Tick, NEW u \in Tick, s # u
                PROVE  Now(s) + Now(u) <= 2 * limit + f
    OBVIOUS
  <2>1. CASE s # current /\ u # current
    BY <1>1, <1>2, <1>5, <1>6, <2>1
  <2>2. CASE s = current
    BY <1>1, <1>2, <1>4, <1>5, <1>6, <2>2
  <2>3. CASE u = current
    BY <1>1, <1>2, <1>4, <1>5, <1>6, <2>3
  <2>. QED
    BY <2>1, <2>2, <2>3
<1>13. Fits(q, k, w, limit, n, f)
  BY <1>7, <1>8, <1>9, <1>10, <1>11, <1>12
<1>. QED
  BY <1>13 DEF q

\* The clock moves on, within a window or into a new one.
LEMMA FitsLater ==
    ASSUME NEW p \in [Tick -> Nat], NEW h \in [Tick -> Nat],
           NEW w \in Nat \ {0}, NEW limit \in Nat, NEW n \in Tick, n + 1 \in Tick,
           NEW e \in Nat, Fits(p, h, w, limit, n, e)
    PROVE  Fits(p, h, w, limit, n + 1, e)
<1>. DEFINE In(s) == SumOver(p, RowOf(s, w))
            current == WindowStart(n, w)
            new == WindowStart(n + 1, w)
<1>0. n \in Nat
  BY LimiterAssumption DEF Tick
<1>1. \A s : In(s) \in Nat
  BY IntoType
<1>2. new \in Tick /\ h[new] \in Nat
  BY CurrentRow
<1>3. /\ \A t \in Tick : t > n => p[t] = 0
      /\ In(current) <= h[current] + e
      /\ \A s \in Tick : In(s) <= limit + e
      /\ \A s \in Tick \ {current} : In(s) + In(current) <= h[current] + limit + e
      /\ \A s, u \in Tick : s # u => In(s) + In(u) <= 2 * limit + e
  BY DEF Fits
<1>4. Fits(p, h, w, limit, n + 1, e) <=>
      /\ \A t \in Tick : t > n + 1 => p[t] = 0
      /\ In(new) <= h[new] + e
      /\ \A s \in Tick : In(s) <= limit + e
      /\ \A s \in Tick \ {new} : In(s) + In(new) <= h[new] + limit + e
      /\ \A s, u \in Tick : s # u => In(s) + In(u) <= 2 * limit + e
  BY DEF Fits
<1>5. \A t \in Tick : t > n + 1 => p[t] = 0
  BY <1>0, <1>3, LimiterAssumption DEF Tick
<1>6. CASE new = current
  BY <1>3, <1>4, <1>5, <1>6
<1>7. CASE new # current
  <2>1. ASSUME NEW t \in RowOf(new, w)
        PROVE  p[t] = 0
    <3>1. t \in Tick /\ t \in Nat /\ WindowStart(t, w) = new
      BY LimiterAssumption DEF RowOf, Tick
    <3>2. current <= new /\ new \in Nat /\ current \in Nat
      BY <1>0, StartGrows
    <3>3. t <= n => new <= current
      BY <1>0, <3>1, StartGrows
    <3>4. t > n
      BY <1>0, <1>7, <3>1, <3>2, <3>3
    <3>. QED
      BY <1>3, <3>1, <3>4
  <2>2. In(new) = 0
    BY <2>1, SumOfNone
  <2>. HIDE DEF In, new, current
  <2>3. \A s \in Tick \ {new} : In(s) + In(new) <= h[new] + limit + e
    BY <1>1, <1>2, <1>3, <2>2
  <2>4. In(new) <= h[new] + e
    BY <1>2, <2>2
  <2>. QED
    BY <1>3, <1>4, <1>5, <2>3, <2>4
<1>. QED
  BY <1>6, <1>7

\* A stretch of a window's length holds what two rows hold, at most.
LEMMA FitsLimit ==
    ASSUME NEW p \in [Tick -> Nat], NEW h \in [Tick -> Nat],
           NEW w \in Nat \ {0}, NEW limit \in Nat, NEW n \in Tick,
           NEW e \in Nat, Fits(p, h, w, limit, n, e), NEW t \in Tick
    PROVE  SumOver(p, Tick \cap (t..(t + w - 1))) <= 2 * limit + e
<1>. DEFINE In(s) == SumOver(p, RowOf(s, w))
            first == WindowStart(t, w)
            second == first + w
            stretch == Tick \cap (t..(t + w - 1))
<1>0. t \in Nat
  BY LimiterAssumption DEF Tick
<1>1. \A s : In(s) \in Nat
  BY IntoType
<1>2. first \in Tick /\ first \in Nat
  BY <1>0, CurrentRow, StartGrows
<1>3. ASSUME NEW u \in stretch
      PROVE  \/ u \in RowOf(first, w)
             \/ u \in RowOf(second, w) /\ second \in Tick
  <2>1. u \in Tick /\ u \in Nat /\ t <= u /\ u <= t + w - 1
    BY <1>0, LimiterAssumption DEF Tick
  <2>2. WindowStart(u, w) \in {first, second}
    BY <1>0, <2>1, TwoWindows
  <2>3. WindowStart(u, w) \in Tick
    BY <2>1, CurrentRow
  <2>. QED
    BY <2>1, <2>2, <2>3 DEF RowOf
<1>4. /\ \A s \in Tick : In(s) <= limit + e
      /\ \A s, u \in Tick : s # u => In(s) + In(u) <= 2 * limit + e
  BY DEF Fits
<1>5. \A x \in Tick : p[x] \in Nat
  OBVIOUS
<1>6. CASE second \in Tick
  <2>1. stretch \in SUBSET (RowOf(first, w) \cup RowOf(second, w))
    BY <1>3
  <2>2. /\ IsFiniteSet(RowOf(first, w) \cup RowOf(second, w))
        /\ \A x \in RowOf(first, w) \cup RowOf(second, w) : p[x] \in Nat
    BY <1>5, RowsFinite, FS_Union
  <2>3. SumOver(p, stretch) <= SumOver(p, RowOf(first, w) \cup RowOf(second, w))
    BY <2>1, <2>2, SumOfPart
  <2>4. SumOver(p, RowOf(first, w) \cup RowOf(second, w)) <= In(first) + In(second)
    BY <2>2, RowsFinite, SumOfUnion
  <2>5. In(first) + In(second) <= 2 * limit + e
    <3>1. first # second
      BY <1>2
    <3>. QED
      BY <1>2, <1>4, <1>6, <3>1
  <2>6. /\ SumOver(p, stretch) \in Nat
        /\ SumOver(p, RowOf(first, w) \cup RowOf(second, w)) \in Nat
    <3>1. IsFiniteSet(stretch) /\ \A x \in stretch : p[x] \in Nat
      BY <2>1, <2>2, FS_Subset
    <3>. QED
      BY <2>2, <3>1, UnitsFinite
  <2>. HIDE DEF In, stretch, first, second
  <2>. QED
    BY <1>1, <2>3, <2>4, <2>5, <2>6 DEF stretch
<1>7. CASE second \notin Tick
  <2>1. stretch \in SUBSET RowOf(first, w)
    BY <1>3, <1>7
  <2>2. IsFiniteSet(RowOf(first, w)) /\ \A x \in RowOf(first, w) : p[x] \in Nat
    BY <1>5, RowsFinite
  <2>3. SumOver(p, stretch) <= In(first)
    BY <2>1, <2>2, SumOfPart
  <2>4. SumOver(p, stretch) \in Nat
    <3>1. IsFiniteSet(stretch) /\ \A x \in stretch : p[x] \in Nat
      BY <2>1, <2>2, FS_Subset
    <3>. QED
      BY <3>1, UnitsFinite
  <2>5. In(first) <= limit + e /\ In(first) \in Nat
    BY <1>1, <1>2, <1>4
  <2>. HIDE DEF In, stretch
  <2>6. SumOver(p, stretch) <= 2 * limit + e
    BY <2>3, <2>4, <2>5
  <2>. QED
    BY <2>6 DEF stretch
<1>. QED
  BY <1>6, <1>7

\* The sweep takes rows that are older than any current one.
LEMMA CurrentSurvives ==
    ASSUME NEW I, NEW table \in [I -> [Tick -> Nat]], NEW sweep \in BOOLEAN,
           NEW w \in Nat \ {0}, w <= Retention, LimitTypeOK, NEW i \in I
    PROVE  SweepOf(sweep, table)[i][WindowStart(now, w)] = table[i][WindowStart(now, w)]
<1>1. WindowStart(now, w) \in Tick
  BY CurrentRow DEF LimitTypeOK
<1>2. now \in Nat /\ WindowStart(now, w) \in Nat /\ now < WindowStart(now, w) + w
  BY LimiterAssumption, StartGrows DEF LimitTypeOK, Tick
<1>3. ~(WindowStart(now, w) + Retention < now)
  BY <1>2, LimiterAssumption
<1>. QED
  BY <1>1, <1>3 DEF SweepOf, Swept

\* One more in the row of the one who asked, and in no other current row.
LEMMA HitCounts ==
    ASSUME NEW I, NEW table \in [I -> [Tick -> Nat]], NEW sweep \in BOOLEAN,
           NEW w \in Nat \ {0}, w <= Retention, LimitTypeOK, NEW i \in I, NEW j \in I
    PROVE  SweepOf(sweep, Hit(table, i, w))[j][WindowStart(now, w)]
             = IF i = j THEN Count(table, i, w) ELSE table[j][WindowStart(now, w)]
<1>1. WindowStart(now, w) \in Tick
  BY CurrentRow DEF LimitTypeOK
<1>2. Hit(table, i, w) \in [I -> [Tick -> Nat]]
  BY HitType
<1>3. Hit(table, i, w)[j][WindowStart(now, w)]
        = IF i = j THEN Count(table, i, w) ELSE table[j][WindowStart(now, w)]
  BY <1>1 DEF Hit
<1>. QED
  BY <1>2, <1>3, CurrentSurvives

\* What the two ways to count do to the current rows.
LEMMA CountsGoUp ==
    ASSUME LimitTypeOK, NEW c \in Caller, CountsRequest(c) \/ CountsSignup(c)
    PROVE  LET current == WindowStart(now, Window)
               signup == WindowStart(now, SignupWindow)
           IN  /\ \A d \in Caller : hits'[d][current]
                    = IF c = d THEN Count(hits, c, Window) ELSE hits[d][current]
               /\ CountsRequest(c) => \A a \in Address : signups'[a][signup] = signups[a][signup]
               /\ CountsSignup(c) => \A a \in Address : signups'[a][signup]
                    = IF a = AddressOf[c] THEN Count(signups, a, SignupWindow)
                                          ELSE signups[a][signup]
<1>. USE LimiterAssumption
<1>1. hits \in [Caller -> [Tick -> Nat]] /\ signups \in [Address -> [Tick -> Nat]]
  BY DEF LimitTypeOK
<1>2. \A sweep \in BOOLEAN, d \in Caller :
        SweepOf(sweep, Hit(hits, c, Window))[d][WindowStart(now, Window)]
          = IF c = d THEN Count(hits, c, Window) ELSE hits[d][WindowStart(now, Window)]
  BY <1>1, HitCounts
<1>3. \A sweep \in BOOLEAN, a \in Address :
        SweepOf(sweep, Hit(signups, AddressOf[c], SignupWindow))[a][WindowStart(now, SignupWindow)]
          = IF AddressOf[c] = a THEN Count(signups, AddressOf[c], SignupWindow)
                                ELSE signups[a][WindowStart(now, SignupWindow)]
  <2>1. AddressOf[c] \in Address
    OBVIOUS
  <2>. QED
    BY <1>1, <2>1, HitCounts
<1>4. \A sweep \in BOOLEAN, a \in Address :
        SweepOf(sweep, signups)[a][WindowStart(now, SignupWindow)]
          = signups[a][WindowStart(now, SignupWindow)]
  <2>. SUFFICES ASSUME NEW sweep \in BOOLEAN, NEW a \in Address
                PROVE  SweepOf(sweep, signups)[a][WindowStart(now, SignupWindow)]
                         = signups[a][WindowStart(now, SignupWindow)]
    OBVIOUS
  <2>1. SignupWindow \in Nat \ {0} /\ SignupWindow <= Retention
    OBVIOUS
  <2>. HIDE LimiterAssumption
  <2>. QED
    BY <1>1, <2>1, CurrentSurvives
<1>5. \A d \in Caller : hits'[d][WindowStart(now, Window)]
        = IF c = d THEN Count(hits, c, Window) ELSE hits[d][WindowStart(now, Window)]
  BY <1>2 DEF CountsRequest, CountsSignup
<1>6. CountsRequest(c) => \A a \in Address :
        signups'[a][WindowStart(now, SignupWindow)] = signups[a][WindowStart(now, SignupWindow)]
  BY <1>4 DEF CountsRequest
<1>7. CountsSignup(c) => \A a \in Address : signups'[a][WindowStart(now, SignupWindow)]
        = IF a = AddressOf[c] THEN Count(signups, a, SignupWindow)
                              ELSE signups[a][WindowStart(now, SignupWindow)]
  BY <1>3 DEF CountsSignup
<1>. QED
  BY <1>5, <1>6, <1>7

LEMMA LimitInvInit == LimitInit => LimitInv
<1>. SUFFICES ASSUME LimitInit PROVE LimitInv
  OBVIOUS
<1>. USE LimiterAssumption
<1>1. 0 \in Tick
  BY DEF Tick
<1>2. ASSUME NEW w \in Nat \ {0}, NEW limit \in Nat
      PROVE  Fits([t \in Tick |-> 0], [t \in Tick |-> 0], w, limit, 0, 0)
  <2>. DEFINE p == [t \in Tick |-> 0]
  <2>1. \A s : SumOver(p, RowOf(s, w)) = 0
    BY SumOfNone DEF RowOf
  <2>2. WindowStart(0, w) \in Tick /\ p[WindowStart(0, w)] = 0
    BY <1>1, CurrentRow
  <2>3. \A t \in Tick : p[t] = 0
    OBVIOUS
  <2>. HIDE DEF p
  <2>4. Fits(p, p, w, limit, 0, 0)
    BY <2>1, <2>2, <2>3 DEF Fits
  <2>. QED
    BY <2>4 DEF p
<1>3. \A c \in Caller : Fits(passed[c], hits[c], Window, Limit, now, errors)
  BY <1>2 DEF LimitInit
<1>4. \A a \in Address : Fits(accounts[a], signups[a], SignupWindow, SignupLimit, now, errors)
  BY <1>2 DEF LimitInit
<1>. QED
  BY <1>3, <1>4 DEF LimitInv

\* The verdicts, one by one: for the counters of callers and for those of
\* addresses, each either passes somebody or nobody.
LEMMA LimitStep ==
    ASSUME LimitTypeOK, LimitTypeOK', LimitInv, NEW c \in Caller,
           \/ LetThrough(c) \/ TooMany(c) \/ Register(c)
           \/ FailsOpen(c) \/ FailsOpenForSignup(c),
           UNCHANGED now
    PROVE  LimitInv'
<1>. USE LimiterAssumption
<1>. DEFINE current == WindowStart(now, Window)
            signup == WindowStart(now, SignupWindow)
            home == AddressOf[c]
            Callers == \A d \in Caller : Fits(passed'[d], hits'[d], Window, Limit, now, errors')
            Addresses == \A a \in Address :
                Fits(accounts'[a], signups'[a], SignupWindow, SignupLimit, now, errors')
<1>1. Callers /\ Addresses => LimitInv'
  BY DEF LimitInv
<1>2. /\ now \in Tick /\ errors \in Nat /\ errors' \in Nat /\ home \in Address
      /\ current \in Tick /\ signup \in Tick
      /\ \A d \in Caller : passed[d] \in [Tick -> Nat] /\ hits[d] \in [Tick -> Nat]
                           /\ hits'[d] \in [Tick -> Nat]
      /\ \A a \in Address : accounts[a] \in [Tick -> Nat] /\ signups[a] \in [Tick -> Nat]
                            /\ signups'[a] \in [Tick -> Nat]
      /\ passed \in [Caller -> [Tick -> Nat]] /\ accounts \in [Address -> [Tick -> Nat]]
  BY CurrentRow DEF LimitTypeOK
<1>3. /\ \A d \in Caller : Fits(passed[d], hits[d], Window, Limit, now, errors)
      /\ \A a \in Address : Fits(accounts[a], signups[a], SignupWindow, SignupLimit, now, errors)
  BY DEF LimitInv
<1>4. Passing(c) => \A d \in Caller :
        passed'[d] = IF d = c THEN [passed[c] EXCEPT ![now] = @ + 1] ELSE passed[d]
  BY <1>2 DEF Passing
<1>5. accounts' = [accounts EXCEPT ![AddressOf[c]][now] = @ + 1] => \A a \in Address :
        accounts'[a] = IF a = home THEN [accounts[home] EXCEPT ![now] = @ + 1] ELSE accounts[a]
  BY <1>2
<1>6. ASSUME errors' >= errors, UNCHANGED passed,
             \A d \in Caller : hits'[d][current] >= hits[d][current]
      PROVE  Callers
  BY <1>2, <1>3, <1>6, FitsStays
<1>7. ASSUME errors' >= errors, UNCHANGED accounts,
             \A a \in Address : signups'[a][signup] >= signups[a][signup]
      PROVE  Addresses
  BY <1>2, <1>3, <1>7, FitsStays
<1>8. ASSUME Passing(c),
             \A d \in Caller \ {c} : hits'[d][current] = hits[d][current],
             \/ hits'[c][current] = hits[c][current] + 1 /\ hits'[c][current] <= Limit
                /\ errors' = errors
             \/ hits'[c][current] = hits[c][current] /\ errors' = errors + 1
      PROVE  Callers
  <2>1. Fits(passed'[c], hits'[c], Window, Limit, now, errors')
    <3>1. passed'[c] = [passed[c] EXCEPT ![now] = @ + 1]
      BY <1>4, <1>8
    <3>2. /\ passed[c] \in [Tick -> Nat] /\ hits[c] \in [Tick -> Nat]
          /\ hits'[c] \in [Tick -> Nat] /\ Window \in Nat \ {0} /\ Limit \in Nat
          /\ now \in Tick /\ errors \in Nat /\ errors' \in Nat
          /\ Fits(passed[c], hits[c], Window, Limit, now, errors)
      BY <1>2, <1>3
    <3>3. Fits([passed[c] EXCEPT ![now] = @ + 1], hits'[c], Window, Limit, now, errors')
      BY <1>8, <3>2, FitsPasses
    <3>. QED
      BY <3>1, <3>3
  <2>2. ASSUME NEW d \in Caller \ {c}
        PROVE  Fits(passed'[d], hits'[d], Window, Limit, now, errors')
    <3>1. passed'[d] = passed[d] /\ errors' >= errors
          /\ hits'[d][current] >= hits[d][current]
      BY <1>2, <1>4, <1>8
    <3>. QED
      BY <1>2, <1>3, <3>1, FitsStays
  <2>. QED
    BY <2>1, <2>2
<1>9. ASSUME accounts' = [accounts EXCEPT ![AddressOf[c]][now] = @ + 1],
             \A a \in Address \ {home} : signups'[a][signup] = signups[a][signup],
             \/ signups'[home][signup] = signups[home][signup] + 1
                /\ signups'[home][signup] <= SignupLimit /\ errors' = errors
             \/ signups'[home][signup] = signups[home][signup] /\ errors' = errors + 1
      PROVE  Addresses
  <2>1. Fits(accounts'[home], signups'[home], SignupWindow, SignupLimit, now, errors')
    <3>1. accounts'[home] = [accounts[home] EXCEPT ![now] = @ + 1]
      BY <1>2, <1>5, <1>9
    <3>. QED
      BY <1>2, <1>3, <1>9, <3>1, FitsPasses
  <2>2. ASSUME NEW a \in Address \ {home}
        PROVE  Fits(accounts'[a], signups'[a], SignupWindow, SignupLimit, now, errors')
    <3>1. accounts'[a] = accounts[a] /\ errors' >= errors
          /\ signups'[a][signup] >= signups[a][signup]
      BY <1>2, <1>5, <1>9
    <3>. QED
      BY <1>2, <1>3, <3>1, FitsStays
  <2>. QED
    BY <2>1, <2>2
<1>10. /\ \A d \in Caller : hits[d][current] \in Nat
       /\ \A a \in Address : signups[a][signup] \in Nat
  BY <1>2
<1>11. ASSUME CountsRequest(c) \/ CountsSignup(c)
       PROVE  /\ \A d \in Caller : hits'[d][current]
                    = IF c = d THEN hits[c][current] + 1 ELSE hits[d][current]
              /\ CountsRequest(c) => \A a \in Address : signups'[a][signup] = signups[a][signup]
              /\ CountsSignup(c) => \A a \in Address : signups'[a][signup]
                    = IF a = home THEN signups[a][signup] + 1 ELSE signups[a][signup]
  BY <1>11, CountsGoUp DEF Count
<1>12. /\ ~OverLimit(c) => hits[c][current] + 1 <= Limit
       /\ ~OverSignup(home) => signups[home][signup] + 1 <= SignupLimit
  BY <1>2, <1>10 DEF OverLimit, OverSignup, Count
<1>. HIDE DEF current, signup, home, Callers, Addresses
<1>13. CASE LetThrough(c)
  <2>1. /\ CountsRequest(c) /\ Passing(c) /\ UNCHANGED <<accounts, errors>> /\ ~OverLimit(c)
    BY <1>13 DEF LetThrough
  <2>2. Callers
    BY <1>2, <1>8, <1>11, <1>12, <2>1
  <2>3. Addresses
    BY <1>2, <1>7, <1>10, <1>11, <2>1
  <2>. QED
    BY <1>1, <2>2, <2>3
<1>14. CASE TooMany(c)
  <2>1. CountsRequest(c) /\ UNCHANGED <<passed, accounts, errors>>
    BY <1>14 DEF TooMany
  <2>2. Callers
    BY <1>2, <1>6, <1>10, <1>11, <2>1
  <2>3. Addresses
    BY <1>2, <1>7, <1>10, <1>11, <2>1
  <2>. QED
    BY <1>1, <2>2, <2>3
<1>15. CASE Register(c)
  <2>1. ~OverLimit(c) /\ CountsSignup(c) /\ UNCHANGED errors
    BY <1>15 DEF Register
  <2>2. CASE OverSignup(home)
    <3>1. UNCHANGED <<passed, accounts>>
      BY <1>15, <2>2 DEF Register, home
    <3>2. Callers
      BY <1>2, <1>6, <1>10, <1>11, <2>1, <3>1
    <3>3. Addresses
      BY <1>2, <1>7, <1>10, <1>11, <2>1, <3>1
    <3>. QED
      BY <1>1, <3>2, <3>3
  <2>3. CASE ~OverSignup(home)
    <3>1. Passing(c) /\ accounts' = [accounts EXCEPT ![AddressOf[c]][now] = @ + 1]
      BY <1>15, <2>3 DEF Register, home
    <3>2. Callers
      BY <1>2, <1>8, <1>11, <1>12, <2>1, <3>1
    <3>3. Addresses
      BY <1>2, <1>9, <1>11, <1>12, <2>1, <2>3, <3>1
    <3>. QED
      BY <1>1, <3>2, <3>3
  <2>. QED
    BY <2>2, <2>3
<1>16. CASE FailsOpen(c)
  <2>1. errors' = errors + 1 /\ Passing(c) /\ UNCHANGED <<hits, signups, accounts>>
    BY <1>16 DEF FailsOpen
  <2>2. Callers
    BY <1>2, <1>8, <2>1
  <2>3. Addresses
    BY <1>2, <1>7, <1>10, <2>1
  <2>. QED
    BY <1>1, <2>2, <2>3
<1>17. CASE FailsOpenForSignup(c)
  <2>1. /\ errors' = errors + 1 /\ Passing(c) /\ UNCHANGED <<hits, signups>>
        /\ accounts' = [accounts EXCEPT ![AddressOf[c]][now] = @ + 1]
    BY <1>17 DEF FailsOpenForSignup
  <2>2. Callers
    BY <1>2, <1>8, <2>1
  <2>3. Addresses
    BY <1>2, <1>9, <2>1
  <2>. QED
    BY <1>1, <2>2, <2>3
<1>. QED
  BY <1>13, <1>14, <1>15, <1>16, <1>17

LEMMA LimitInvNext ==
    ASSUME TypeOK, TypeOK', LimitInv, [Next]_vars
    PROVE  LimitInv'
<1>1. CASE UNCHANGED <<now, limitVars>>
  BY <1>1 DEF LimitInv, limitVars
<1>2. CASE Advance /\ UNCHANGED limitVars
  <2>1. /\ now \in Tick /\ now + 1 \in Tick /\ now' = now + 1 /\ errors \in Nat
        /\ UNCHANGED <<hits, signups, passed, accounts, errors>>
    BY <1>2, LimiterAssumption DEF Advance, TypeOK, LimitTypeOK, Tick, limitVars
  <2>2. /\ \A d \in Caller : passed[d] \in [Tick -> Nat] /\ hits[d] \in [Tick -> Nat]
        /\ \A a \in Address : accounts[a] \in [Tick -> Nat] /\ signups[a] \in [Tick -> Nat]
    BY DEF TypeOK, LimitTypeOK
  <2>3. \A d \in Caller : Fits(passed[d], hits[d], Window, Limit, now + 1, errors)
    BY <2>1, <2>2, LimiterAssumption, FitsLater DEF LimitInv
  <2>4. \A a \in Address :
            Fits(accounts[a], signups[a], SignupWindow, SignupLimit, now + 1, errors)
    BY <2>1, <2>2, LimiterAssumption, FitsLater DEF LimitInv
  <2>. QED
    BY <2>1, <2>3, <2>4 DEF LimitInv
<1>3. ASSUME NEW c \in Caller, UNCHANGED now,
             \/ LetThrough(c) \/ TooMany(c) \/ Register(c)
             \/ FailsOpen(c) \/ FailsOpenForSignup(c)
      PROVE  LimitInv'
  BY <1>3, LimitStep DEF TypeOK
<1>. QED
  BY <1>1, <1>2, <1>3 DEF Next, vars

\* However requests, registrations, sweeps and failures of the counter follow
\* each other, nobody gets more than two windows' worth through in the length
\* of one, but for what the counter missed: for all limits, windows and callers.
THEOREM LimitsAreHeld == Spec => []LimitsHold
<1>1. Init => LimitInv
  BY LimitInvInit DEF Init
<1>2. LimitInv /\ TypeOK /\ TypeOK' /\ [Next]_vars => LimitInv'
  BY LimitInvNext
<1>3. LimitInv /\ TypeOK => LimitsHold
  <2>. SUFFICES ASSUME LimitInv, TypeOK, NEW t \in Tick
                PROVE  /\ \A c \in Caller : SumOver(passed[c], Tick \cap (t..(t + Window - 1)))
                                              <= 2 * Limit + errors
                       /\ \A a \in Address :
                            SumOver(accounts[a], Tick \cap (t..(t + SignupWindow - 1)))
                              <= 2 * SignupLimit + errors
    BY DEF LimitsHold
  <2>1. /\ now \in Tick /\ errors \in Nat
        /\ \A d \in Caller : passed[d] \in [Tick -> Nat] /\ hits[d] \in [Tick -> Nat]
        /\ \A a \in Address : accounts[a] \in [Tick -> Nat] /\ signups[a] \in [Tick -> Nat]
    BY LimiterAssumption DEF TypeOK, LimitTypeOK
  <2>. QED
    BY <2>1, LimiterAssumption, FitsLimit DEF LimitInv
<1>. QED
  BY <1>1, <1>2, <1>3, TypeCorrect, PTL DEF Spec

-------------------------------------------------------------------------------
(* The budget.                                                               *)

LEMMA SumOfOne ==
    ASSUME NEW x, NEW f, f[x] \in Nat
    PROVE  SumOver(f, {x}) = f[x]
<1>1. Units(f, {x}) = {x} \X (1..f[x])
  BY DEF Units
<1>2. IsFiniteSet({x}) /\ Cardinality({x}) = 1
  BY FS_Singleton
<1>3. IsFiniteSet(1..f[x]) /\ Cardinality(1..f[x]) = f[x]
  <2>1. 1 \in Int /\ f[x] \in Int /\ (1 > f[x] => f[x] = 0)
    OBVIOUS
  <2>. QED
    BY <2>1, FS_Interval
<1>4. Cardinality({x} \X (1..f[x])) = Cardinality({x}) * Cardinality(1..f[x])
  BY <1>2, <1>3, FS_Product
<1>5. Cardinality({x} \X (1..f[x])) = 1 * f[x]
  BY <1>2, <1>3, <1>4, Zenon
<1>6. SumOver(f, {x}) = Cardinality({x} \X (1..f[x]))
  BY <1>1, Zenon DEF SumOver
<1>7. SumOver(f, {x}) = 1 * f[x]
  BY <1>5, <1>6, Zenon
<1>. QED
  BY <1>7

\* If every group of E is worth what its owner in S is, E is worth what S is.
LEMMA SumByGroup ==
    ASSUME NEW S, IsFiniteSet(S), NEW f, \A s \in S : f[s] \in Nat,
           NEW E, IsFiniteSet(E), NEW g, \A e \in E : g[e] \in Nat, NEW owner,
           \A s \in S : f[s] <= SumOver(g, {e \in E : owner[e] = s})
    PROVE  SumOver(f, S) <= SumOver(g, E)
<1>. DEFINE G(s) == Units(g, {e \in E : owner[e] = s})
            Into(s) == Injection(1..f[s], G(s))
            into == [s \in S |-> CHOOSE b \in Into(s) : TRUE]
            all == [u \in Units(f, S) |-> into[u[1]][u[2]]]
<1>1. ASSUME NEW s \in S
      PROVE  into[s] \in Into(s)
  <2>1. IsFiniteSet(G(s)) /\ f[s] <= Cardinality(G(s)) /\ Cardinality(G(s)) \in Nat
    <3>1. IsFiniteSet({e \in E : owner[e] = s}) /\ \A e \in {x \in E : owner[x] = s} : g[e] \in Nat
      BY FS_Subset
    <3>. QED
      BY <3>1, UnitsFinite DEF SumOver
  <2>. HIDE DEF G
  <2>2. PICK b \in Bijection(1..Cardinality(G(s)), G(s)) : TRUE
    BY <2>1, FS_CardinalityType DEF ExistsBijection
  <2>3. /\ b \in [1..Cardinality(G(s)) -> G(s)]
        /\ \A i, j \in 1..Cardinality(G(s)) : b[i] = b[j] => i = j
    BY <2>2 DEF Bijection, Injection, IsInjective
  <2>4. \A i \in 1..f[s] : i \in 1..Cardinality(G(s))
    BY <2>1
  <2>. DEFINE part == [i \in 1..f[s] |-> b[i]]
  <2>5. part \in [1..f[s] -> G(s)]
    BY <2>3, <2>4
  <2>6. \A i, j \in DOMAIN part : part[i] = part[j] => i = j
    BY <2>3, <2>4
  <2>7. part \in Into(s)
    BY <2>5, <2>6 DEF Injection, IsInjective
  <2>. QED
    BY <2>7
<1>2. ASSUME NEW u \in Units(f, S)
      PROVE  /\ u[1] \in S /\ u[2] \in 1..f[u[1]] /\ u = <<u[1], u[2]>>
             /\ all[u] \in G(u[1])
  <2>1. PICK x \in S : u \in {x} \X (1..f[x])
    BY DEF Units
  <2>2. u[1] = x /\ u[2] \in 1..f[x] /\ u = <<u[1], u[2]>>
    BY <2>1
  <2>3. into[u[1]] \in [1..f[u[1]] -> G(u[1])]
    BY <1>1, <2>2 DEF Injection
  <2>. HIDE DEF into, G
  <2>. QED
    BY <2>2, <2>3
<1>3. ASSUME NEW s, NEW p \in G(s)
      PROVE  p \in Units(g, E) /\ owner[p[1]] = s
  <2>1. PICK e \in {x \in E : owner[x] = s} : p \in {e} \X (1..g[e])
    BY DEF Units
  <2>2. p[1] = e
    BY <2>1
  <2>. QED
    BY <2>1, <2>2 DEF Units
<1>. HIDE DEF G, into
<1>4. all \in [Units(f, S) -> Units(g, E)]
  <2>1. \A u \in Units(f, S) : all[u] \in Units(g, E)
    BY <1>2, <1>3
  <2>. QED
    BY <2>1
<1>5. ASSUME NEW u \in Units(f, S), NEW v \in Units(f, S), all[u] = all[v]
      PROVE  u = v
  <2>1. owner[all[u][1]] = u[1] /\ owner[all[v][1]] = v[1]
    BY <1>2, <1>3
  <2>2. u[1] = v[1]
    BY <1>5, <2>1
  <2>3. into[u[1]][u[2]] = into[u[1]][v[2]]
    BY <1>5, <2>2
  <2>4. /\ into[u[1]] \in [1..f[u[1]] -> G(u[1])]
        /\ \A i, j \in DOMAIN into[u[1]] : into[u[1]][i] = into[u[1]][j] => i = j
    BY <1>1, <1>2 DEF Injection, IsInjective
  <2>5. u[2] \in DOMAIN into[u[1]] /\ v[2] \in DOMAIN into[u[1]]
    BY <1>2, <2>2, <2>4
  <2>6. u[2] = v[2]
    BY <2>3, <2>4, <2>5
  <2>. QED
    BY <1>2, <2>2, <2>6
<1>6. all \in Injection(Units(f, S), Units(g, E))
  <2>. HIDE DEF all
  <2>1. DOMAIN all = Units(f, S)
    BY <1>4
  <2>. QED
    BY <1>4, <1>5, <2>1 DEF Injection, IsInjective
<1>7. IsFiniteSet(Units(g, E))
  BY UnitsFinite
<1>. QED
  BY <1>6, <1>7, FS_Injection DEF SumOver

\* The largest cost is one.
LEMMA MaxCostIs ==
    /\ MaxCost \in Nat /\ EmbedCost <= MaxCost
    /\ \A c \in Costs : c \in Nat /\ EmbedCost + c <= MaxCost
<1>. DEFINE m == CHOOSE c \in Costs : \A d \in Costs : d <= c
<1>1. m \in Costs /\ \A d \in Costs : d <= m
  BY TurnsAssumption
<1>2. MaxCost = EmbedCost + m
  BY DEF MaxCost
<1>. HIDE DEF m
<1>3. m \in Nat /\ EmbedCost \in Nat /\ \A c \in Costs : c \in Nat
  BY <1>1, TurnsAssumption
<1>. QED
  BY <1>1, <1>2, <1>3

\* What the sums range over.
LEMMA BudgetTypes ==
    ASSUME TypeOK, IsFiniteSet(ledger)
    PROVE  /\ IsFiniteSet(Covered) /\ Covered \subseteq Serial
           /\ \A s \in Serial : spent[s] \in Nat
           /\ SumOver(spent, Covered) \in Nat /\ TokensUsed \in Nat
           /\ \A e \in ledger : Tokens[e] \in Nat /\ Tokens[e] = e.tokens /\ e.of \in Serial
           /\ IsFiniteSet(InFlight) /\ Cardinality(InFlight) \in Nat
           /\ IsFiniteSet(Request) /\ Cardinality(Request) \in Nat
           /\ Cardinality(InFlight) <= Cardinality(Request)
<1>1. IsFiniteSet(Serial)
  <2>1. 1 \in Int /\ MaxTurns \in Int
    BY TurnsAssumption
  <2>. QED
    BY <2>1, FS_Interval DEF Serial
<1>2. \A e \in ledger : Tokens[e] \in Nat /\ Tokens[e] = e.tokens /\ e.of \in Serial
  BY DEF TypeOK, Event, Tokens
<1>3. Covered \in SUBSET Serial
  BY <1>2 DEF Covered, Charged
<1>4. IsFiniteSet(Covered)
  BY <1>1, <1>3, FS_Subset
<1>5. \A s \in Serial : spent[s] \in Nat
  BY DEF TypeOK
<1>6. SumOver(spent, Covered) \in Nat
  BY <1>3, <1>4, <1>5, UnitsFinite
<1>7. TokensUsed \in Nat
  <2>1. {e \in ledger : InWindow(e)} \in SUBSET ledger
    OBVIOUS
  <2>2. IsFiniteSet({e \in ledger : InWindow(e)})
    BY <2>1, FS_Subset
  <2>. QED
    BY <1>2, <2>1, <2>2, UnitsFinite DEF TokensUsed
<1>8. InFlight \in SUBSET Request /\ IsFiniteSet(Request)
  BY TurnsAssumption DEF InFlight
<1>9. IsFiniteSet(InFlight) /\ Cardinality(InFlight) <= Cardinality(Request)
  BY <1>8, FS_Subset
<1>10. Cardinality(InFlight) \in Nat /\ Cardinality(Request) \in Nat
  BY <1>8, <1>9, FS_CardinalityType
<1>. QED
  BY <1>2, <1>3, <1>4, <1>5, <1>6, <1>7, <1>8, <1>9, <1>10

\* What tokens_used adds up is worth all the turns it accounts for: the events of
\* a turn carry one time, and so are in the window together.
LEMMA CoveredIsUsed ==
    ASSUME TypeOK, BudgetInv
    PROVE  SumOver(spent, Covered) <= TokensUsed
<1>. DEFINE E == {e \in ledger : InWindow(e)}
            owner == [e \in ledger |-> e.of]
<1>1. IsFiniteSet(ledger)
  BY DEF BudgetInv
<1>2. IsFiniteSet(E) /\ \A e \in E : Tokens[e] \in Nat
  BY <1>1, BudgetTypes, FS_Subset
<1>3. IsFiniteSet(Covered) /\ \A s \in Covered : spent[s] \in Nat
  BY <1>1, BudgetTypes
<1>4. ASSUME NEW s \in Covered
      PROVE  spent[s] <= SumOver(Tokens, {e \in E : owner[e] = s})
  <2>1. PICK x \in E : x.of = s
    BY DEF Covered, Charged
  <2>2. {e \in E : owner[e] = s} = {e \in ledger : e.of = s}
    <3>1. ASSUME NEW e \in ledger, e.of = s
          PROVE  e \in E
      <4>1. e.tick = x.tick
        BY <2>1, <3>1 DEF BudgetInv
      <4>. QED
        BY <2>1, <4>1 DEF InWindow
    <3>. QED
      BY <3>1
  <2>3. SumOver(Tokens, {e \in ledger : e.of = s}) >= spent[s]
    BY DEF Covered, Accounted
  <2>4. SumOver(Tokens, {e \in ledger : e.of = s}) \in Nat /\ spent[s] \in Nat
    <3>1. {e \in ledger : e.of = s} \in SUBSET ledger
      OBVIOUS
    <3>2. IsFiniteSet({e \in ledger : e.of = s})
      BY <1>1, <3>1, FS_Subset
    <3>. QED
      BY <1>1, <1>3, <3>1, <3>2, BudgetTypes, UnitsFinite
  <2>. QED
    BY <2>2, <2>3, <2>4
<1>. HIDE DEF E, owner
<1>5. SumOver(spent, Covered) <= SumOver(Tokens, E)
  BY <1>2, <1>3, <1>4, SumByGroup
<1>. QED
  BY <1>5 DEF TokensUsed, E

LEMMA Times ==
    ASSUME NEW j \in Nat, NEW k \in Nat, j <= k, NEW m \in Nat
    PROVE  j * m \in Nat /\ k * m \in Nat /\ j * m <= k * m /\ (j + 1) * m = j * m + m
<1>1. (k - j) \in Nat /\ (k - j) * m \in Nat /\ (k - j) * m = k * m - j * m
  OBVIOUS
<1>2. j * m \in Nat /\ k * m \in Nat /\ (j + 1) * m = j * m + m
  OBVIOUS
<1>. QED
  BY <1>1, <1>2

\* A turn goes on, ends or begins without a commit, and costs something.
LEMMA BudgetStep ==
    ASSUME TypeOK, TypeOK', TurnsInv, BudgetInv, NEW r \in Request,
           UNCHANGED <<ledger, now>>,
           \A q \in Request : q # r => turn'[q] = turn[q],
           \A s \in Serial : s # turn[r].at => spent'[s] = spent[s],
           CostSoFar(turn[r])',
           turn'[r].pc \in Working => turn[r].pc \in Working \/ ~OverBudget
    PROVE  BudgetInv'
<1>1. \A q \in Request : CostSoFar(turn[q])'
  <2>. SUFFICES ASSUME NEW q \in Request, q # r, turn[q].pc \in Working
                PROVE  CostSoFar(turn[q])'
    BY DEF CostSoFar, Working
  <2>1. turn[q].at \in Serial /\ turn[q].at # 0
    BY DEF TurnsInv, TurnInv, Sound, TypeOK, Turn
  <2>2. turn[q].at # turn[r].at
    BY <2>1 DEF TurnsInv, TurnsApart
  <2>3. spent'[turn[q].at] = spent[turn[q].at] /\ turn'[q] = turn[q]
    BY <2>1, <2>2
  <2>. QED
    BY <2>3 DEF BudgetInv, CostSoFar
<1>2. IsFiniteSet(ledger) /\ IsFiniteSet(ledger')
  BY DEF BudgetInv
<1>3. \A e \in ledger : e.of \in Serial /\ e.of # turn[r].at /\ spent'[e.of] = spent[e.of]
  BY <1>2, BudgetTypes DEF TurnsInv, Closed
<1>4. Covered' = Covered
  BY <1>3 DEF Covered, Charged, Accounted, Tokens, InWindow
<1>5. SumOver(spent', Covered') = SumOver(spent, Covered)
  <2>1. \A s \in Covered : spent'[s] = spent[s]
    BY <1>3 DEF Covered, Charged
  <2>. QED
    BY <1>4, <2>1, SumOfSame
<1>6. /\ SumOver(spent, Covered) \in Nat /\ TokensUsed \in Nat
      /\ Cardinality(InFlight) \in Nat /\ Cardinality(InFlight') \in Nat
      /\ Cardinality(Request) \in Nat /\ Cardinality(InFlight') <= Cardinality(Request)
      /\ IsFiniteSet(InFlight)
  <2>1. Cardinality(InFlight') \in Nat /\ Cardinality(InFlight') <= Cardinality(Request)
    <3>1. InFlight' \in SUBSET Request /\ IsFiniteSet(Request)
      BY TurnsAssumption DEF InFlight
    <3>. QED
      BY <3>1, FS_Subset, FS_CardinalityType
  <2>. QED
    BY <1>2, <2>1, BudgetTypes
<1>7. ASSUME Budget > 0
      PROVE  SumOver(spent, Covered) + Cardinality(InFlight') * MaxCost
                <= Budget - 1 + Cardinality(Request) * MaxCost
  <2>1. CASE turn[r].pc \in Working \/ turn'[r].pc \notin Working
    <3>1. InFlight' \in SUBSET InFlight
      BY <2>1 DEF InFlight
    <3>2. Cardinality(InFlight') <= Cardinality(InFlight)
      BY <1>6, <3>1, FS_Subset
    <3>3. Cardinality(InFlight') * MaxCost <= Cardinality(InFlight) * MaxCost
          /\ Cardinality(InFlight') * MaxCost \in Nat /\ Cardinality(InFlight) * MaxCost \in Nat
          /\ Cardinality(Request) * MaxCost \in Nat
      BY <1>6, <3>2, MaxCostIs, Times
    <3>4. SumOver(spent, Covered) + Cardinality(InFlight) * MaxCost
                <= Budget - 1 + Cardinality(Request) * MaxCost
      BY <1>7 DEF BudgetInv
    <3>. QED
      BY <1>6, <3>3, <3>4, TurnsAssumption
  <2>2. CASE ~OverBudget
    <3>1. TokensUsed < Budget
      BY <1>6, <1>7, <2>2, TurnsAssumption DEF OverBudget
    <3>2. SumOver(spent, Covered) <= Budget - 1
      BY <1>6, <3>1, CoveredIsUsed, TurnsAssumption
    <3>3. Cardinality(InFlight') * MaxCost <= Cardinality(Request) * MaxCost
          /\ Cardinality(InFlight') * MaxCost \in Nat /\ Cardinality(Request) * MaxCost \in Nat
      BY <1>6, MaxCostIs, Times
    <3>. QED
      BY <1>6, <3>2, <3>3, TurnsAssumption
  <2>. QED
    BY <2>1, <2>2
<1>8. \A e, f \in ledger' : e.of = f.of => e.tick = f.tick
  BY DEF BudgetInv
<1>. QED
  BY <1>1, <1>2, <1>5, <1>7, <1>8 DEF BudgetInv

\* The commit moves what a turn has cost from under way to covered.
LEMMA BudgetCommit ==
    ASSUME TypeOK, TypeOK', TurnsInv, BudgetInv, NEW r \in Request, Commit(r), UNCHANGED now
    PROVE  BudgetInv'
<1>. DEFINE t == turn[r]
<1>1. /\ t.at \in Serial /\ t.pc = "priced" /\ t.pc \in Working
      /\ turn'[r] = NoTurn /\ NoTurn.pc = "idle"
      /\ \A q \in Request : q # r => turn'[q] = turn[q]
      /\ spent' = spent /\ ledger' = ledger \cup Bills(t)
  BY DEF Commit, Ends, NoTurn, TurnsInv, TurnInv, Sound, Working, TypeOK, Turn
<1>2. IsFiniteSet(Bills(t)) /\ \A e \in Bills(t) : e.of = t.at /\ e.tick = t.tick
  <2>1. ASSUME NEW x, NEW y
        PROVE  IsFiniteSet({x}) /\ IsFiniteSet({x, y})
    <3>1. IsFiniteSet({x}) /\ {x, y} = {x} \cup {y}
      BY FS_Singleton
    <3>. QED
      BY <3>1, FS_AddElement
  <2>2. IsFiniteSet(Bills(t))
    BY <2>1 DEF Bills
  <2>3. \A e \in Bills(t) : e.of = t.at /\ e.tick = t.tick
    BY DEF Bills, Bill
  <2>. QED
    BY <2>2, <2>3
<1>3. IsFiniteSet(ledger) /\ IsFiniteSet(ledger')
  BY <1>1, <1>2, FS_Union DEF BudgetInv
<1>4. \A e \in ledger : e.of \in Serial /\ e.of # t.at
  BY <1>3, BudgetTypes DEF TurnsInv, Closed
<1>5. \A e, f \in ledger' : e.of = f.of => e.tick = f.tick
  BY <1>1, <1>2, <1>4 DEF BudgetInv
<1>6. \A q \in Request : CostSoFar(turn[q])'
  BY <1>1 DEF BudgetInv, CostSoFar, Working
<1>7. Covered' \in SUBSET (Covered \cup {t.at})
  <2>. SUFFICES ASSUME NEW s \in Covered', s # t.at PROVE s \in Covered
    OBVIOUS
  <2>1. {e \in ledger' : e.of = s} = {e \in ledger : e.of = s}
    BY <1>1, <1>2
  <2>2. \A e \in ledger : Tokens'[e] = Tokens[e]
    BY <1>1 DEF Tokens
  <2>3. SumOver(Tokens', {e \in ledger : e.of = s}) = SumOver(Tokens, {e \in ledger : e.of = s})
    BY <2>2, SumOfSame
  <2>4. SumOver(Tokens', {e \in ledger' : e.of = s}) >= spent[s]
    BY <1>1 DEF Covered, Accounted
  <2>5. Accounted(s)
    BY <2>1, <2>3, <2>4 DEF Accounted
  <2>6. s \in Charged
    <3>1. PICK e \in ledger' : e.of = s /\ InWindow(e)'
      BY DEF Covered, Charged
    <3>2. e \in ledger /\ InWindow(e)
      BY <1>1, <1>2, <3>1 DEF InWindow
    <3>. QED
      BY <3>1, <3>2 DEF Charged
  <2>. QED
    BY <2>5, <2>6 DEF Covered
<1>8. /\ IsFiniteSet(Covered) /\ \A s \in Serial : spent[s] \in Nat
      /\ SumOver(spent, Covered) \in Nat /\ Covered \subseteq Serial
      /\ Cardinality(InFlight) \in Nat /\ IsFiniteSet(InFlight) /\ Cardinality(Request) \in Nat
  BY <1>3, BudgetTypes
<1>9. SumOver(spent, Covered') <= SumOver(spent, Covered) + spent[t.at]
      /\ SumOver(spent, Covered') \in Nat
  <2>1. IsFiniteSet({t.at}) /\ \A s \in Covered \cup {t.at} : spent[s] \in Nat
    BY <1>1, <1>8, FS_Singleton
  <2>2. IsFiniteSet(Covered \cup {t.at})
    BY <1>8, <2>1, FS_Union
  <2>3. IsFiniteSet(Covered') /\ \A s \in Covered' : spent[s] \in Nat
    BY <1>7, <2>1, <2>2, FS_Subset
  <2>4. SumOver(spent, Covered') <= SumOver(spent, Covered \cup {t.at})
    BY <1>7, <2>1, <2>2, SumOfPart
  <2>5. SumOver(spent, Covered \cup {t.at}) <= SumOver(spent, Covered) + SumOver(spent, {t.at})
    BY <1>8, <2>1, SumOfUnion
  <2>6. SumOver(spent, {t.at}) = spent[t.at] /\ spent[t.at] \in Nat
    BY <1>1, <1>8, SumOfOne
  <2>7. SumOver(spent, Covered') \in Nat /\ SumOver(spent, Covered \cup {t.at}) \in Nat
    BY <2>1, <2>2, <2>3, UnitsFinite
  <2>. QED
    BY <1>8, <2>4, <2>5, <2>6, <2>7
<1>10. spent[t.at] <= MaxCost /\ spent[t.at] \in Nat
  BY <1>1, <1>8 DEF BudgetInv, CostSoFar
<1>11. Cardinality(InFlight) = Cardinality(InFlight') + 1 /\ Cardinality(InFlight') \in Nat
  <2>1. InFlight' = InFlight \ {r} /\ r \in InFlight
    BY <1>1 DEF InFlight, Working
  <2>2. Cardinality(InFlight \ {r}) = Cardinality(InFlight) - 1 /\ IsFiniteSet(InFlight \ {r})
    BY <1>8, <2>1, FS_RemoveElement
  <2>3. Cardinality(InFlight \ {r}) \in Nat
    BY <2>2, FS_CardinalityType
  <2>. QED
    BY <1>8, <2>1, <2>2, <2>3
<1>12. ASSUME Budget > 0
       PROVE  SumOver(spent, Covered') + Cardinality(InFlight') * MaxCost
                <= Budget - 1 + Cardinality(Request) * MaxCost
  <2>1. Cardinality(InFlight) * MaxCost = Cardinality(InFlight') * MaxCost + MaxCost
        /\ Cardinality(InFlight') * MaxCost \in Nat /\ Cardinality(Request) * MaxCost \in Nat
    BY <1>8, <1>11, MaxCostIs, Times
  <2>2. SumOver(spent, Covered) + Cardinality(InFlight) * MaxCost
                <= Budget - 1 + Cardinality(Request) * MaxCost
    BY <1>12 DEF BudgetInv
  <2>. QED
    BY <1>8, <1>9, <1>10, <2>1, <2>2, MaxCostIs, TurnsAssumption
<1>. QED
  BY <1>1, <1>3, <1>5, <1>6, <1>12 DEF BudgetInv

\* With time, rows leave the window.
LEMMA BudgetLater ==
    ASSUME TypeOK, TypeOK', BudgetInv, Advance, UNCHANGED chatVars
    PROVE  BudgetInv'
<1>1. UNCHANGED <<ledger, turn, spent>> /\ now' = now + 1 /\ now \in Nat
  BY LimiterAssumption DEF chatVars, Advance, TypeOK, LimitTypeOK, Tick
<1>2. \A e \in ledger : InWindow(e)' => InWindow(e)
  <2>1. \A e \in ledger : e.tick \in Nat
    BY LimiterAssumption DEF TypeOK, Event, Tick
  <2>. QED
    BY <1>1, <2>1, TurnsAssumption DEF InWindow
<1>3. Covered' \in SUBSET Covered
  BY <1>1, <1>2 DEF Covered, Charged, Accounted, Tokens
<1>4. /\ IsFiniteSet(ledger) /\ InFlight' = InFlight
      /\ \A e, f \in ledger' : e.of = f.of => e.tick = f.tick
      /\ \A r \in Request : CostSoFar(turn[r])'
  BY <1>1 DEF BudgetInv, CostSoFar, InFlight
<1>5. /\ IsFiniteSet(Covered) /\ \A s \in Covered : spent[s] \in Nat
      /\ SumOver(spent, Covered) \in Nat
      /\ Cardinality(InFlight) \in Nat /\ Cardinality(Request) \in Nat
  BY <1>4, BudgetTypes
<1>6. SumOver(spent, Covered') <= SumOver(spent, Covered)
  BY <1>3, <1>5, SumOfPart
<1>7. SumOver(spent, Covered') \in Nat
  <2>1. IsFiniteSet(Covered') /\ \A s \in Covered' : spent[s] \in Nat
    BY <1>3, <1>5, FS_Subset
  <2>. QED
    BY <2>1, UnitsFinite
<1>8. ASSUME Budget > 0
      PROVE  SumOver(spent, Covered') + Cardinality(InFlight) * MaxCost
               <= Budget - 1 + Cardinality(Request) * MaxCost
  <2>1. Cardinality(InFlight) * MaxCost \in Nat /\ Cardinality(Request) * MaxCost \in Nat
    BY <1>5, MaxCostIs, Times
  <2>2. SumOver(spent, Covered) + Cardinality(InFlight) * MaxCost
               <= Budget - 1 + Cardinality(Request) * MaxCost
    BY <1>8 DEF BudgetInv
  <2>. QED
    BY <1>5, <1>6, <1>7, <2>1, <2>2, TurnsAssumption
<1>. QED
  BY <1>1, <1>4, <1>8 DEF BudgetInv

LEMMA BudgetInit == Init => BudgetInv
<1>. SUFFICES ASSUME Init PROVE BudgetInv
  OBVIOUS
<1>1. ledger = {} /\ IsFiniteSet(ledger) /\ InFlight = {}
  BY FS_EmptySet DEF Init, InFlight, NoTurn, Working
<1>2. \A r \in Request : CostSoFar(turn[r])
  BY DEF Init, CostSoFar, NoTurn, Working
<1>3. SumOver(spent, Covered) = 0
  BY <1>1, SumOfNone DEF Covered, Charged
<1>4. Cardinality(InFlight) = 0
  BY <1>1, FS_EmptySet
<1>5. Cardinality(Request) \in Nat
  BY TurnsAssumption, FS_CardinalityType
<1>6. Cardinality(Request) * MaxCost \in Nat /\ 0 * MaxCost = 0
  BY <1>5, MaxCostIs
<1>. QED
  BY <1>1, <1>2, <1>3, <1>4, <1>6, TurnsAssumption DEF BudgetInv

LEMMA BudgetNext ==
    ASSUME TypeOK, TypeOK', TurnsInv, BudgetInv, [Next]_vars
    PROVE  BudgetInv'
<1>1. CASE UNCHANGED <<now, chatVars>>
  BY <1>1 DEF chatVars, BudgetInv, Covered, Charged, Accounted, Tokens, InWindow, InFlight,
              CostSoFar
<1>2. CASE Advance /\ UNCHANGED chatVars
  BY <1>2, BudgetLater
<1>3. ASSUME NEW r \in Request, Ends(r), UNCHANGED <<ledger, spent, now>>
      PROVE  BudgetInv'
  <2>1. turn'[r] = NoTurn /\ \A q \in Request : q # r => turn'[q] = turn[q]
    BY <1>3 DEF Ends, TypeOK
  <2>2. turn'[r].pc \notin Working /\ CostSoFar(turn[r])'
    BY <2>1 DEF NoTurn, Working, CostSoFar
  <2>. QED
    BY <1>3, <2>1, <2>2, BudgetStep
<1>4. ASSUME NEW r \in Request, NEW kind \in Kind, NEW t \in 0..serial, Ask(r, kind, t),
             UNCHANGED now
      PROVE  BudgetInv'
  <2>1. /\ turn'[r].pc = "asked" /\ \A q \in Request : q # r => turn'[q] = turn[q]
        /\ UNCHANGED <<ledger, spent>>
    BY <1>4 DEF Ask, TypeOK, NoTurn
  <2>2. turn'[r].pc \notin Working /\ CostSoFar(turn[r])'
    BY <2>1 DEF Working, CostSoFar
  <2>. QED
    BY <1>4, <2>1, <2>2, BudgetStep
<1>5. ASSUME NEW r \in Request, Authorise(r), UNCHANGED now
      PROVE  BudgetInv'
  <2>1. /\ turn'[r].pc = "opened" /\ \A q \in Request : q # r => turn'[q] = turn[q]
        /\ UNCHANGED <<ledger, spent>>
    BY <1>5 DEF Authorise, Starts, TypeOK, Turn
  <2>2. turn'[r].pc \notin Working /\ CostSoFar(turn[r])'
    BY <2>1 DEF Working, CostSoFar
  <2>. QED
    BY <1>5, <2>1, <2>2, BudgetStep
<1>6. ASSUME NEW r \in Request, RouteCheck(r), UNCHANGED now
      PROVE  BudgetInv'
  <2>1. CASE Ends(r)
    BY <1>3, <1>6, <2>1 DEF RouteCheck
  <2>2. CASE Goes(r, "opened")
    <3>1. /\ turn'[r].pc = "opened" /\ \A q \in Request : q # r => turn'[q] = turn[q]
          /\ UNCHANGED <<ledger, spent>>
      BY <1>6, <2>2 DEF RouteCheck, Goes, TypeOK, Turn
    <3>2. turn'[r].pc \notin Working /\ CostSoFar(turn[r])'
      BY <3>1 DEF Working, CostSoFar
    <3>. QED
      BY <1>6, <3>1, <3>2, BudgetStep
  <2>. QED
    BY <1>6, <2>1, <2>2 DEF RouteCheck
<1>7. ASSUME NEW r \in Request, Begin(r), UNCHANGED now
      PROVE  BudgetInv'
  <2>0. /\ turn[r].pc = "opened" /\ Sound(turn[r]) /\ turn[r] \in Turn
        /\ UNCHANGED <<ledger, spent>>
    BY <1>7 DEF Begin, TurnsInv, TurnInv, TypeOK
  <2>1. CASE Ends(r)
    BY <1>3, <1>7, <2>0, <2>1
  <2>2. CASE /\ ~OverBudget /\ turn[r].kind = "stream"
             /\ Starts(r, [turn[r] EXCEPT !.pc = "begun", !.thread = Resolved(@, serial + 1)])
    <3>1. /\ turn'[r].at = serial + 1 /\ turn'[r].pc = "begun"
          /\ \A q \in Request : q # r => turn'[q] = turn[q]
      BY <2>0, <2>2 DEF Starts, TypeOK, Turn
    <3>2. spent[serial + 1] = 0
      BY <2>2, TurnsAssumption DEF Starts, TypeOK, Serial, TurnsInv, UnspentYet
    <3>3. CostSoFar(turn[r])'
      BY <2>0, <3>1, <3>2, MaxCostIs DEF CostSoFar
    <3>. QED
      BY <1>7, <2>0, <2>2, <3>1, <3>3, BudgetStep
  <2>3. CASE /\ ~OverBudget /\ turn[r].kind # "stream"
             /\ turn' = [turn EXCEPT ![r].pc = "begun",
                                     ![r].thread = Resolved(@, turn[r].at)]
    <3>1. /\ turn'[r].at = turn[r].at /\ turn'[r].pc = "begun"
          /\ \A q \in Request : q # r => turn'[q] = turn[q]
      BY <2>0, <2>3 DEF TypeOK, Turn
    <3>2. spent[turn[r].at] = 0
      BY <2>0, <2>3 DEF Sound
    <3>3. CostSoFar(turn[r])'
      BY <2>0, <3>1, <3>2, MaxCostIs DEF CostSoFar
    <3>. QED
      BY <1>7, <2>0, <2>3, <3>1, <3>3, BudgetStep
  <2>. QED
    BY <1>7, <2>1, <2>2, <2>3 DEF Begin
<1>8. ASSUME NEW r \in Request, NEW n \in Nat, Spends(r, n)
      PROVE  /\ \A s \in Serial : s # turn[r].at => spent'[s] = spent[s]
             /\ turn[r].at \in Serial => spent'[turn[r].at] = spent[turn[r].at] + n
  BY <1>8 DEF Spends, TypeOK
<1>9. ASSUME NEW r \in Request, NEW n \in Nat, Spends(r, n), UNCHANGED <<ledger, now>>,
             turn[r].pc \in Working, turn'[r].pc \in {"retrieved", "priced"},
             turn'[r].at = turn[r].at, \A q \in Request : q # r => turn'[q] = turn[q],
             spent[turn[r].at] + n <= MaxCost
      PROVE  BudgetInv'
  <2>1. turn[r].at \in Serial
    BY <1>9 DEF TurnsInv, TurnInv, Sound, TypeOK, Turn
  <2>2. CostSoFar(turn[r])'
    BY <1>8, <1>9, <2>1 DEF CostSoFar
  <2>. QED
    BY <1>8, <1>9, <2>2, BudgetStep
<1>10. ASSUME NEW r \in Request, Retrieve(r), UNCHANGED now
       PROVE  BudgetInv'
  <2>1. /\ turn[r].pc = "begun" /\ Spends(r, EmbedCost) /\ UNCHANGED ledger
        /\ spent[turn[r].at] = 0
    BY <1>10 DEF Retrieve, TurnsInv, TurnInv, Sound
  <2>2. /\ turn'[r].at = turn[r].at /\ turn'[r].pc = "retrieved"
        /\ \A q \in Request : q # r => turn'[q] = turn[q]
    BY <1>10 DEF Retrieve, Goes, TypeOK, Turn
  <2>. QED
    BY <1>9, <1>10, <2>1, <2>2, MaxCostIs, TurnsAssumption DEF Working
<1>11. ASSUME NEW r \in Request, NEW n \in Nat, Prices(r, n)
       PROVE  /\ turn'[r].at = turn[r].at /\ turn'[r].pc = "priced"
              /\ \A q \in Request : q # r => turn'[q] = turn[q]
  BY <1>11 DEF Prices, TypeOK, Turn
<1>12. ASSUME NEW r \in Request, Complete(r), UNCHANGED now
       PROVE  BudgetInv'
  <2>1. PICK c \in Costs : Spends(r, c) /\ Prices(r, Priced(turn[r].kind, c))
    BY <1>12 DEF Complete
  <2>2. c \in Nat /\ Prices(r, c) /\ EmbedCost + c <= MaxCost
    BY <2>1, MaxCostIs DEF Priced
  <2>3. /\ turn[r].pc = "retrieved" /\ UNCHANGED ledger /\ spent[turn[r].at] = EmbedCost
    BY <1>12 DEF Complete, TurnsInv, TurnInv, Sound
  <2>. QED
    BY <1>9, <1>11, <1>12, <2>1, <2>2, <2>3 DEF Working
<1>13. ASSUME NEW r \in Request, StartGraph(r), UNCHANGED now
       PROVE  BudgetInv'
  <2>1. /\ turn'[r].at = turn[r].at /\ turn'[r].pc = "running" /\ turn[r].pc = "begun"
        /\ \A q \in Request : q # r => turn'[q] = turn[q]
        /\ UNCHANGED <<ledger, spent>>
    BY <1>13 DEF StartGraph, TypeOK, Turn
  <2>2. CostSoFar(turn[r])'
    BY <2>1 DEF BudgetInv, CostSoFar, Working
  <2>. QED
    BY <1>13, <2>1, <2>2, BudgetStep DEF Working
<1>14. ASSUME NEW r \in Request, EndGraph(r), UNCHANGED now
       PROVE  BudgetInv'
  <2>1. PICK c \in Costs, reported \in BOOLEAN :
            /\ Spends(r, c)
            /\ Prices(r, turn[r].base + (IF reported THEN c ELSE 0))
    BY <1>14 DEF EndGraph
  <2>2. c \in Nat /\ turn[r].base + (IF reported THEN c ELSE 0) \in Nat
    BY TurnsAssumption DEF TypeOK, Turn
  <2>3. /\ turn[r].pc = "running" /\ UNCHANGED ledger /\ spent[turn[r].at] = 0
    BY <1>14 DEF EndGraph, BudgetInv, CostSoFar
  <2>4. PICK n \in Nat : Prices(r, n)
    BY <2>1, <2>2, Zenon
  <2>5. spent[turn[r].at] + c <= MaxCost
    BY <2>2, <2>3, MaxCostIs, TurnsAssumption
  <2>. QED
    BY <1>9, <1>11, <1>14, <2>1, <2>2, <2>3, <2>4, <2>5 DEF Working
<1>15. ASSUME NEW r \in Request, Fails(r), UNCHANGED now
       PROVE  BudgetInv'
  BY <1>3, <1>15 DEF Fails
<1>. QED
  BY <1>1, <1>2, <1>4, <1>5, <1>6, <1>7, <1>10, <1>12, <1>13, <1>14, <1>15, BudgetCommit
     DEF Next, Work, vars

\* However many turns read the budget before any of them has written its rows,
\* those the ledger accounts for have cost less than the budget and one turn of
\* every request at once: for any budget, window, prices and number of turns.
THEOREM BudgetIsNearlyHeld == Spec => []BudgetHolds
<1>1. Init => BudgetInv
  BY BudgetInit
<1>2. TypeOK /\ TypeOK' /\ TurnsInv /\ BudgetInv /\ [Next]_vars => BudgetInv'
  BY BudgetNext
<1>3. TypeOK /\ BudgetInv => BudgetHolds
  <2>. SUFFICES ASSUME TypeOK, BudgetInv, Budget > 0
                PROVE  SumOver(spent, Covered) <= Budget - 1 + Cardinality(Request) * MaxCost
    BY DEF BudgetHolds
  <2>1. /\ SumOver(spent, Covered) \in Nat /\ Cardinality(InFlight) \in Nat
        /\ Cardinality(Request) \in Nat
    BY BudgetTypes DEF BudgetInv
  <2>2. Cardinality(InFlight) * MaxCost \in Nat /\ Cardinality(Request) * MaxCost \in Nat
    BY <2>1, MaxCostIs, Times
  <2>. QED
    BY <2>1, <2>2, TurnsAssumption DEF BudgetInv
<1>. QED
  BY <1>1, <1>2, <1>3, TurnsInvariant, PTL DEF Spec
================================================================================
