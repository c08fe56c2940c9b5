------------------------------- MODULE ChatTurns -------------------------------
(***************************************************************************)
(* What a question costs.  Three routes reach a model: /chat/query answers *)
(* in one response, /chat/stream token by token, and /agent runs a graph.  *)
(* Each looks at the token budget before the work and writes the ledger    *)
(* after it, in the transaction that keeps question and answer; and each   *)
(* request has come through RateLimit first.                               *)
(*                                                                         *)
(* One action is what a request does between two points at which another   *)
(* may run.  Tokens are small numbers, texts are left out, and a turn is   *)
(* named by the number of its transaction, in the order of their start:    *)
(* that start is what Postgres' now() puts into every created_at.          *)
(***************************************************************************)
EXTENDS RateLimit

CONSTANTS
    Request,        \* chat requests that may be in flight
    Budget,         \* daily_token_budget, 0 for none
    BudgetWindow,   \* USAGE_BUDGET_WINDOW_SECONDS, in ticks
    EmbedCost,      \* tokens for embedding a question
    Costs,          \* tokens a completion or a graph run may take
    MaxTurns        \* bound: transactions ever begun

ASSUME TurnsAssumption ==
    /\ IsFiniteSet(Request)
    /\ Budget \in Nat /\ BudgetWindow \in Nat /\ EmbedCost \in Nat
    /\ Costs \subseteq Nat /\ \E c \in Costs : \A d \in Costs : d <= c
    /\ MaxTurns \in Nat

VARIABLES
    threads,      \* committed ChatThread rows, by the turn that made them
    messages,     \* committed ChatMessage rows
    ledger,       \* committed UsageEvent rows
    checkpoint,   \* tokens on the messages in a thread's graph state
    serial,       \* transactions begun
    turn,         \* what each request is working on
    spent         \* what a turn has really cost

chatVars == <<threads, messages, ledger, checkpoint, serial, turn, spent>>
vars == <<now, limitVars, chatVars>>

Serial == 1..MaxTurns
Kind   == {"query", "stream", "agent"}

Message  == [thread : Serial, of : Serial, at : Nat, id : {1, 2},
             role : {"user", "assistant"}]
Event    == [of : Serial, kind : {"EMBEDDING", "CHAT", "AGENT"}, tokens : Nat, tick : Tick]
Progress == {"idle", "asked", "opened", "begun", "retrieved", "running", "priced"}
Turn     == [pc : Progress, kind : Kind, thread : Serial \cup {0}, at : Serial \cup {0},
             tick : Tick, tokens : Nat, base : Nat]

TypeOK ==
    /\ LimitTypeOK
    /\ threads \subseteq Serial
    /\ messages \subseteq Message
    /\ ledger \subseteq Event
    /\ checkpoint \in [Serial -> Nat]
    /\ serial \in 0..MaxTurns
    /\ turn \in [Request -> Turn]
    /\ spent \in [Serial -> Nat]

NoTurn == [pc |-> "idle", kind |-> "query", thread |-> 0, at |-> 0, tick |-> 0,
           tokens |-> 0, base |-> 0]

-------------------------------------------------------------------------------
(* Mistakes the code could have made in the definitions below.               *)

\* The usage on the last chunk of a stream is missed.
LastChunkMissed(kind, tokens) == IF kind = "stream" THEN 0 ELSE tokens

\* Stamped when it is inserted: no earlier than any transaction begun by then.
StampedLate(t) == serial

\* A sum over the answers only.
AnswersOnly(e) == e.kind = "CHAT" /\ e.tick + BudgetWindow >= now

-------------------------------------------------------------------------------

\* tokens_used: the window rolls with the clock.
InWindow(e) == e.tick + BudgetWindow >= now
Tokens     == [e \in ledger |-> e.tokens]
TokensUsed == SumOver(Tokens, {e \in ledger : InWindow(e)})

\* enforce_budget.
OverBudget == Budget > 0 /\ TokensUsed >= Budget

Goes(r, where) == turn' = [turn EXCEPT ![r].pc = where]
Ends(r) == turn' = [turn EXCEPT ![r] = NoTurn]
Prices(r, tokens) ==
    turn' = [turn EXCEPT ![r] = [turn[r] EXCEPT !.pc = "priced", !.tokens = tokens]]

\* A request that the limiter let through arrives at its route, for a new
\* thread or for one whose id the client has from anywhere.
Ask(r, kind, t) ==
    /\ turn[r].pc = "idle"
    /\ turn' = [turn EXCEPT ![r] = [NoTurn EXCEPT !.pc = "asked", !.kind = kind,
                                                  !.thread = t]]
    /\ UNCHANGED <<threads, messages, ledger, checkpoint, serial, spent>>

\* The first statement of a session starts its transaction: the next number,
\* and the clock as every row of the turn will carry it.
Starts(r, changed) ==
    /\ serial < MaxTurns
    /\ serial' = serial + 1
    /\ turn' = [turn EXCEPT ![r] = [changed EXCEPT !.at = serial + 1, !.tick = now]]

\* require_member opens the request's session, which is the one that a query
\* and an agent run write with.
Authorise(r) ==
    /\ turn[r].pc = "asked" /\ turn[r].kind # "stream"
    /\ Starts(r, [turn[r] EXCEPT !.pc = "opened"])
    /\ UNCHANGED <<threads, messages, ledger, checkpoint, spent>>

\* The stream route looks at the budget while it can still answer 429.
RouteCheck(r) ==
    /\ turn[r].pc = "asked" /\ turn[r].kind = "stream"
    /\ IF OverBudget THEN Ends(r) ELSE Goes(r, "opened")
    /\ UNCHANGED <<threads, messages, ledger, checkpoint, serial, spent>>

\* The budget, then the thread: refused, not found, known or new.  A stream
\* writes with a session of its own, which starts here.
Resolved(t, at) == IF t = 0 THEN at ELSE t

Begin(r) ==
    /\ turn[r].pc = "opened"
    /\ LET t == turn[r] IN
       \/ /\ OverBudget \/ (t.thread # 0 /\ t.thread \notin threads)
          /\ Ends(r) /\ UNCHANGED serial
       \/ /\ ~OverBudget
          /\ t.thread = 0 \/ t.thread \in threads
          /\ IF t.kind = "stream"
             THEN Starts(r, [t EXCEPT !.pc = "begun", !.thread = Resolved(@, serial + 1)])
             ELSE /\ turn' = [turn EXCEPT ![r].pc = "begun",
                                          ![r].thread = Resolved(@, t.at)]
                  /\ UNCHANGED serial
    /\ UNCHANGED <<threads, messages, ledger, checkpoint, spent>>

Spends(r, tokens) == spent' = [spent EXCEPT ![turn[r].at] = @ + tokens]

\* _retrieve: the question is embedded, and that is paid for at once.
Retrieve(r) ==
    /\ turn[r].pc = "begun" /\ turn[r].kind # "agent"
    /\ Spends(r, EmbedCost)
    /\ Goes(r, "retrieved")
    /\ UNCHANGED <<threads, messages, ledger, checkpoint, serial>>

\* complete, or the stream to its end: whichever chunk carried the usage, the
\* turn is priced by it.
Priced(kind, tokens) == tokens

Complete(r) ==
    /\ turn[r].pc = "retrieved"
    /\ \E c \in Costs :
        /\ Spends(r, c)
        /\ Prices(r, Priced(turn[r].kind, c))
    /\ UNCHANGED <<threads, messages, ledger, checkpoint, serial>>

\* The graph loads the thread's state, adds its messages and saves it on a
\* connection of its own: it stays whatever becomes of the request.  The price
\* is the sum over all messages of the state, for those that report any.
StartGraph(r) ==
    /\ turn[r].pc = "begun" /\ turn[r].kind = "agent"
    /\ turn' = [turn EXCEPT ![r].pc = "running", ![r].base = checkpoint[turn[r].thread]]
    /\ UNCHANGED <<threads, messages, ledger, checkpoint, serial, spent>>

EndGraph(r) ==
    /\ turn[r].pc = "running"
    /\ \E c \in Costs, reported \in BOOLEAN :
        LET sum == turn[r].base + (IF reported THEN c ELSE 0) IN
        /\ Spends(r, c)
        /\ checkpoint' = [checkpoint EXCEPT ![turn[r].thread] = sum]
        /\ Prices(r, sum)
    /\ UNCHANGED <<threads, messages, ledger, serial>>

\* created_at of a message: the start of the transaction.  The ids are drawn
\* in the order of the inserts and break the tie.
CreatedAt(t) == t.at

Question(t) == [thread |-> t.thread, of |-> t.at, at |-> t.at, id |-> 1, role |-> "user"]
Answer(t) == [thread |-> t.thread, of |-> t.at, at |-> CreatedAt(t), id |-> 2,
              role |-> "assistant"]

Bill(t, kind, tokens) == [of |-> t.at, kind |-> kind, tokens |-> tokens, tick |-> t.tick]
Bills(t) == IF t.kind = "agent"
            THEN {Bill(t, "AGENT", t.tokens)}
            ELSE {Bill(t, "EMBEDDING", EmbedCost), Bill(t, "CHAT", t.tokens)}

\* The one commit of a turn.  A graph that paused may have nothing to say.
Commit(r) ==
    /\ turn[r].pc = "priced"
    /\ LET t == turn[r] IN
       /\ threads' = threads \cup {t.thread}
       /\ \/ messages' = messages \cup {Question(t), Answer(t)}
          \/ t.kind = "agent" /\ messages' = messages \cup {Question(t)}
       /\ ledger' = ledger \cup Bills(t)
    /\ Ends(r)
    /\ UNCHANGED <<checkpoint, serial, spent>>

\* The provider fails, the client leaves its stream, the process dies: the
\* transaction is rolled back, whatever the turn has cost by then.
Fails(r) ==
    /\ turn[r].pc # "idle"
    /\ Ends(r)
    /\ UNCHANGED <<threads, messages, ledger, checkpoint, serial, spent>>

-------------------------------------------------------------------------------

Init ==
    /\ LimitInit
    /\ threads = {} /\ messages = {} /\ ledger = {}
    /\ checkpoint = [s \in Serial |-> 0]
    /\ serial = 0
    /\ turn = [r \in Request |-> NoTurn]
    /\ spent = [s \in Serial |-> 0]

Work(r) ==
    \/ Authorise(r) \/ RouteCheck(r) \/ Begin(r) \/ Retrieve(r) \/ Complete(r)
    \/ StartGraph(r) \/ EndGraph(r) \/ Commit(r) \/ Fails(r)

Next ==
    \/ \E r \in Request, kind \in Kind, t \in 0..serial, c \in Caller :
        /\ Ask(r, kind, t)
        /\ LetThrough(c) \/ FailsOpen(c)
        /\ UNCHANGED now
    \/ \E r \in Request : Work(r) /\ UNCHANGED <<now, limitVars>>
    \/ \E c \in Caller :
        /\ TooMany(c) \/ Register(c) \/ FailsOpenForSignup(c)
        /\ UNCHANGED <<now, chatVars>>
    \/ Advance /\ UNCHANGED <<limitVars, chatVars>>

Spec == Init /\ [][Next]_vars

-------------------------------------------------------------------------------

\* Every answer is paid for with what it really cost, and nothing is charged
\* without the turn it was spent on: the ledger and the conversation are one
\* transaction.  What an agent's row is worth is another matter.
AnswersArePaid ==
    /\ \A m \in messages : m.role = "assistant" =>
        \/ \E e, f \in ledger :
            /\ e.of = m.of /\ e.kind = "EMBEDDING"
            /\ f.of = m.of /\ f.kind = "CHAT"
            /\ e.tokens + f.tokens = spent[m.of]
        \/ \E e \in ledger : e.of = m.of /\ e.kind = "AGENT"
    /\ \A e \in ledger : \E q \in messages : q.of = e.of /\ q.role = "user"

\* list_messages orders by created_at and then by id.
Before(m, n) == m.at < n.at \/ (m.at = n.at /\ m.id < n.id)

\* However many turns run in one thread at a time, its history shows every
\* answer directly below the question it answers.
AnswerFollowsQuestion ==
    \A q, a \in messages : q.of = a.of /\ q.role = "user" /\ a.role = "assistant" =>
        /\ Before(q, a)
        /\ \A m \in messages : m.thread = q.thread => ~(Before(q, m) /\ Before(m, a))

\* The turns in the current window whose rows account for all they cost.
Charged == {e.of : e \in {x \in ledger : InWindow(x)}}
Accounted(s) == SumOver(Tokens, {e \in ledger : e.of = s}) >= spent[s]
Covered == {s \in Charged : Accounted(s)}

\* The budget is read before the work and written after it, so turns that run
\* together overshoot; but by no more than what they cost, all of them once.
MaxCost == EmbedCost + (CHOOSE c \in Costs : \A d \in Costs : d <= c)
BudgetHolds ==
    Budget > 0 => SumOver(spent, Covered) <= Budget - 1 + Cardinality(Request) * MaxCost

-------------------------------------------------------------------------------
(* The inductive invariants behind AnswersArePaid and AnswerFollowsQuestion. *)

Working == {"begun", "retrieved", "running", "priced"}

\* What a request has by the point it has come to, and what that has cost.
Sound(t) ==
    /\ t.at <= serial
    /\ t.pc \in Working => t.at # 0 /\ t.thread # 0
    /\ t.pc = "opened" /\ t.kind # "stream" => t.at # 0 /\ spent[t.at] = 0
    /\ t.pc = "retrieved" => t.kind # "agent"
    /\ t.pc = "running" => t.kind = "agent"
    /\ t.pc = "begun" => spent[t.at] = 0
    /\ t.pc = "retrieved" => spent[t.at] = EmbedCost
    /\ t.pc = "priced" /\ t.kind # "agent" => spent[t.at] = EmbedCost + t.tokens

TurnInv == \A r \in Request : Sound(turn[r])

\* A number belongs to one turn, and costs nothing before or after it.
TurnsApart == \A q, r \in Request : turn[q].at # 0 /\ turn[q].at = turn[r].at => q = r
UnspentYet == \A s \in Serial : s > serial => spent[s] = 0
Closed ==
    /\ \A m \in messages : m.of <= serial /\ \A r \in Request : turn[r].at # m.of
    /\ \A e \in ledger : e.of <= serial /\ \A r \in Request : turn[r].at # e.of

\* Both messages of a turn carry its number, and differ in their ids.
Stamped == \A m \in messages : m.at = m.of /\ m.id = (IF m.role = "user" THEN 1 ELSE 2)

TurnsInv == TurnInv /\ TurnsApart /\ UnspentYet /\ Closed /\ Stamped /\ AnswersArePaid

-------------------------------------------------------------------------------
(* The inductive invariant behind BudgetHolds: a turn under way may yet cost *)
(* what one turn may cost, so it is counted with that from the moment the    *)
(* budget let it begin.                                                      *)

InFlight == {r \in Request : turn[r].pc \in Working}

\* What a turn under way has cost, at most.
CostSoFar(t) ==
    /\ t.pc \in {"begun", "running"} => spent[t.at] = 0
    /\ t.pc \in Working => spent[t.at] <= MaxCost

BudgetInv ==
    /\ IsFiniteSet(ledger)
    /\ \A e, f \in ledger : e.of = f.of => e.tick = f.tick
    /\ \A r \in Request : CostSoFar(turn[r])
    /\ Budget > 0 => SumOver(spent, Covered) + Cardinality(InFlight) * MaxCost
                        <= Budget - 1 + Cardinality(Request) * MaxCost
================================================================================
