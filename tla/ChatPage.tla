-------------------------------- MODULE ChatPage --------------------------------
(***************************************************************************)
(* The conversation screen of one browser: what it shows optimistically    *)
(* while a turn is under way, the stream it reads, the history it loads    *)
(* afterwards, and the user who asks, stops, and opens other threads       *)
(* meanwhile.  The server is reduced to the fate of each turn; ChatTurns   *)
(* has it in full.  Turns are numbered as they are sent, and a thread is   *)
(* named by the turn that started it; 0 stands for null.                   *)
(***************************************************************************)
EXTENDS Naturals, FiniteSets

CONSTANTS
    MaxTurns,   \* bound: turns the user sends
    MaxOpens    \* bound: threads the user opens, new ones included

ASSUME PageAssumption == MaxTurns \in Nat /\ MaxOpens \in Nat

VARIABLES
    turn,        \* the turns sent, the server's side and the page's
    sent,        \* how many
    asking,      \* the question shown before the server has it
    answer,      \* stream.answer: whose tokens are in it, and done
    streaming,   \* stream.streaming
    controller,  \* abort.current, by the turn of its controller
    thinking,    \* the agent run the page waits for
    active,      \* where the next message goes
    opened,      \* the thread whose history is on the screen, or will be
    history,     \* history.data
    load,        \* the load of the current generation: none, sent, read
    copy,        \* what it has read
    opens,       \* threads opened so far, against MaxOpens
    due,         \* turns the page has been told are finished, in this view
    excuses      \* what has happened that the page has no answer to

pageVars == <<asking, answer, streaming, controller, thinking, active, opened, history, load,
              copy, opens, due, excuses>>
vars == <<turn, sent, pageVars>>

Turn     == 1..MaxTurns
Thread   == Turn \cup {0}
Unsent   == [kind |-> "none", thread |-> 0, fate |-> "none", ear |-> "none",
             aborted |-> FALSE, from |-> 0]
NoAnswer == [shown |-> FALSE, text |-> {}, done |-> FALSE]

TypeOK ==
    /\ turn \in [Turn -> [kind : {"none", "ask", "act"}, thread : Thread,
                          fate : {"none", "sent", "begun", "saved", "lost", "refused"},
                          ear : {"none", "opening", "reading", "finished", "ended"},
                          aborted : BOOLEAN, from : Thread]]
    /\ sent \in 0..MaxTurns
    /\ asking \in Thread /\ controller \in Thread /\ thinking \in Thread
    /\ answer \in [shown : BOOLEAN, text : SUBSET Turn, done : BOOLEAN]
    /\ streaming \in BOOLEAN
    /\ active \in Thread /\ opened \in Thread
    /\ history \in SUBSET Turn /\ copy \in SUBSET Turn /\ due \in SUBSET Turn
    /\ load \in {"none", "sent", "read"}
    /\ opens \in 0..MaxOpens
    /\ excuses \in SUBSET {"rushed", "crossed", "strayed", "abandoned", "unloaded", "broken"}

Live(k)     == turn[k].ear \in {"opening", "reading", "finished"}
Awaited(k)  == turn[k].ear \in {"opening", "reading"} /\ ~turn[k].aborted
Committed   == {turn[k].thread : k \in {j \in Turn : turn[j].fate = "saved"}}
HistoryOf(t) == {k \in Turn : turn[k].fate = "saved" /\ turn[k].thread = t}

-------------------------------------------------------------------------------
(* The server.                                                               *)

\* The thread is resolved: a new one, a known one, or none that exists.
Resolves(k) ==
    /\ turn[k].fate = "sent"
    /\ turn' = [turn EXCEPT
        ![k].fate   = IF turn[k].thread \in Committed \cup {0} THEN "begun" ELSE "refused",
        ![k].thread = IF @ = 0 THEN k ELSE @]
    /\ UNCHANGED <<sent, pageVars>>

\* Refused for the budget, or failed on the way, before the commit or with it.
Settles(k) ==
    /\ \/ turn[k].fate = "begun" /\ \E f \in {"saved", "lost"} :
            turn' = [turn EXCEPT ![k].fate = f]
       \/ turn[k].fate = "sent" /\ turn' = [turn EXCEPT ![k].fate = "refused"]
    /\ UNCHANGED <<sent, pageVars>>

-------------------------------------------------------------------------------
(* Mistakes the page could have made in the definitions below.               *)

\* The controller is forgotten and not aborted.
NotAborted == turn

\* The effect that clears the stand-ins runs at done, before the load.
DoneClears(k) ==
    /\ turn[k].ear = "reading" /\ ~turn[k].aborted
    /\ turn[k].fate = "saved"
    /\ turn' = [turn EXCEPT ![k].ear = "finished"]
    /\ answer' = NoAnswer /\ asking' = 0 /\ streaming' = FALSE
    /\ active' = turn[k].thread /\ opened' = turn[k].thread
    /\ load' = "sent" /\ copy' = {}
    /\ due' = due \cup {k}
    /\ UNCHANGED <<sent, controller, thinking, history, opens, excuses>>

\* settle leaves the view where it is.
SettledUnopened(k) ==
    /\ active' = turn[k].thread
    /\ load' = "sent" /\ copy' = {}
    /\ opened' = opened
    /\ due' = due \cup ({k} \cap {j \in Turn : turn[j].thread = opened})

-------------------------------------------------------------------------------
(* The user.                                                                 *)

Busy == streaming \/ thinking # 0

\* A message sent while something of the turn before is still under way.
Rushing == load # "none" \/ ~(due \subseteq history) \/ \E k \in Turn : Live(k)
Excuse(reason, applies) == excuses' = IF applies THEN excuses \cup {reason} ELSE excuses

Aborted == IF controller = 0 THEN turn ELSE [turn EXCEPT ![controller].aborted = TRUE]

New(kind, ear) == [Unsent EXCEPT !.kind = kind, !.thread = active, !.fate = "sent",
                                 !.ear = ear, !.from = opened]

\* A stream that had attached the page to a new thread ends without an answer.
Abandons(k) == turn[k].thread = k /\ turn[k].ear = "reading"
Replaces == controller # 0 /\ Abandons(controller)

\* Ask: a controller of its own, after the one before has been aborted.
Ask ==
    /\ ~Busy /\ sent < MaxTurns
    /\ sent' = sent + 1
    /\ turn' = [Aborted EXCEPT ![sent + 1] = New("ask", "opening")]
    /\ asking' = sent + 1
    /\ controller' = sent + 1
    /\ answer' = [NoAnswer EXCEPT !.shown = TRUE]
    /\ streaming' = TRUE
    /\ excuses' = excuses \cup (IF Rushing THEN {"rushed"} ELSE {})
                            \cup (IF Replaces THEN {"abandoned"} ELSE {})
    /\ UNCHANGED <<thinking, active, opened, history, load, copy, opens, due>>

\* Act: one request, which nothing can abort.
Act ==
    /\ ~Busy /\ sent < MaxTurns
    /\ sent' = sent + 1
    /\ turn' = [turn EXCEPT ![sent + 1] = New("act", "none")]
    /\ asking' = sent + 1
    /\ thinking' = sent + 1
    /\ excuses' = excuses \cup (IF Rushing THEN {"rushed"} ELSE {})
                            \cup (IF \E k \in Turn : Awaited(k) THEN {"crossed"} ELSE {})
    /\ UNCHANGED <<answer, streaming, controller, active, opened, history, load, copy, opens, due>>

\* Stop.
Cancel ==
    /\ streaming
    /\ turn' = Aborted
    /\ controller' = 0
    /\ streaming' = FALSE
    /\ Excuse("abandoned", Replaces)
    /\ UNCHANGED <<sent, asking, answer, thinking, active, opened, history, load, copy,
                   opens, due>>

\* A thread of the list, or New: everything of the old view goes, except for
\* an agent run.  A load starts if this is another thread than the one opened.
Open(t) ==
    /\ opens < MaxOpens
    /\ t \in Committed \cup {0}
    /\ opens' = opens + 1
    /\ turn' = Aborted
    /\ controller' = 0
    /\ streaming' = FALSE
    /\ answer' = NoAnswer
    /\ asking' = 0
    /\ active' = t /\ opened' = t
    /\ IF t = opened THEN UNCHANGED <<load, copy>> ELSE load' = "sent" /\ copy' = {}
    /\ due' = {}
    /\ Excuse("strayed", thinking # 0)
    /\ UNCHANGED <<sent, thinking, history>>

-------------------------------------------------------------------------------
(* What the page is told.                                                    *)

\* Both kinds of turn end in a load: of the thread just made, if the view had
\* none when the message was sent, or else of whatever is opened by now.
Settled(k) ==
    /\ active' = turn[k].thread
    /\ load' = IF turn[k].from = 0 /\ opened = turn[k].thread THEN load ELSE "sent"
    /\ copy' = IF turn[k].from = 0 /\ opened = turn[k].thread THEN copy ELSE {}
    /\ opened' = IF turn[k].from = 0 THEN turn[k].thread ELSE opened
    /\ due' = due \cup ({k} \cap {j \in Turn : turn[j].thread = opened'})

Hears(k, before) == turn[k].ear = before /\ ~turn[k].aborted

\* meta, which comes before anything is committed.
Meta(k) ==
    /\ Hears(k, "opening")
    /\ turn[k].fate \in {"begun", "saved", "lost"}
    /\ turn' = [turn EXCEPT ![k].ear = "reading"]
    /\ active' = turn[k].thread
    /\ UNCHANGED <<sent, asking, answer, streaming, controller, thinking, opened, history, load,
                   copy, opens, due, excuses>>

\* token: added to whatever answer is shown.
Token(k) ==
    /\ Hears(k, "reading")
    /\ answer' = IF answer.shown THEN [answer EXCEPT !.text = @ \cup {k}] ELSE answer
    /\ UNCHANGED <<turn, sent, asking, streaming, controller, thinking, active, opened, history,
                   load, copy, opens, due, excuses>>

\* citations and done.
Done(k) ==
    /\ Hears(k, "reading")
    /\ turn[k].fate = "saved"
    /\ turn' = [turn EXCEPT ![k].ear = "finished"]
    /\ answer' = [answer EXCEPT !.done = answer.shown]
    /\ streaming' = (streaming /\ ~answer.shown)
    /\ Settled(k)
    /\ UNCHANGED <<sent, asking, controller, thinking, history, opens, excuses>>

\* The finally clause of ask.
Finally(k) ==
    /\ turn' = [turn EXCEPT ![k].ear = "ended"]
    /\ controller' = IF controller = k THEN 0 ELSE controller
    /\ streaming' = FALSE
    /\ UNCHANGED <<sent, asking, thinking, active, opened, history, load, copy, opens, due>>

\* An aborted request unwinds, in its own time.
Unwinds(k) ==
    /\ Live(k) /\ turn[k].aborted
    /\ Finally(k)
    /\ UNCHANGED <<answer, excuses>>

\* The stream closes, after done or without it.
Closes(k) ==
    /\ Hears(k, "reading") \/ Hears(k, "finished")
    /\ Finally(k)
    /\ Excuse("abandoned", Abandons(k))
    /\ UNCHANGED answer

\* An error answer, or a connection that breaks.
Breaks(k) ==
    /\ Live(k) /\ ~turn[k].aborted
    /\ Finally(k)
    /\ answer' = NoAnswer
    /\ excuses' = excuses \cup (IF Abandons(k) THEN {"abandoned"} ELSE {})
                            \cup (IF turn[k].ear = "finished" THEN {"broken"} ELSE {})

ActAnswered(k) ==
    /\ thinking = k /\ turn[k].fate = "saved"
    /\ thinking' = 0
    /\ Settled(k)
    /\ UNCHANGED <<turn, sent, asking, answer, streaming, controller, history, opens, excuses>>

ActFails(k) ==
    /\ thinking = k
    /\ thinking' = 0
    /\ asking' = 0
    /\ UNCHANGED <<turn, sent, answer, streaming, controller, active, opened, history, load, copy,
                   opens, due, excuses>>

\* The history on its way.  When it lands the stand-ins go.
ServerReads ==
    /\ load = "sent"
    /\ load' = "read"
    /\ copy' = HistoryOf(opened)
    /\ UNCHANGED <<turn, sent, asking, answer, streaming, controller, thinking, active, opened,
                   history, opens, due, excuses>>

Lands ==
    /\ load = "read"
    /\ load' = "none" /\ copy' = {}
    /\ history' = copy
    /\ asking' = 0
    /\ answer' = NoAnswer
    /\ streaming' = FALSE
    /\ UNCHANGED <<turn, sent, controller, thinking, active, opened, opens, due, excuses>>

LoadFails ==
    /\ load # "none"
    /\ load' = "none" /\ copy' = {}
    /\ Excuse("unloaded", TRUE)
    /\ UNCHANGED <<turn, sent, asking, answer, streaming, controller, thinking, active, opened,
                   history, opens, due>>

-------------------------------------------------------------------------------

Init ==
    /\ turn = [k \in Turn |-> Unsent]
    /\ sent = 0
    /\ asking = 0 /\ answer = NoAnswer /\ streaming = FALSE /\ controller = 0 /\ thinking = 0
    /\ active = 0 /\ opened = 0 /\ history = {}
    /\ load = "none" /\ copy = {}
    /\ opens = 0 /\ due = {} /\ excuses = {}

Next ==
    \/ Ask \/ Act \/ Cancel
    \/ \E t \in Thread : Open(t)
    \/ \E k \in Turn :
        \/ Resolves(k) \/ Settles(k)
        \/ Meta(k) \/ Token(k) \/ Done(k) \/ Unwinds(k) \/ Closes(k) \/ Breaks(k)
        \/ ActAnswered(k) \/ ActFails(k)
    \/ ServerReads \/ Lands \/ LoadFails

Spec == Init /\ [][Next]_vars

-------------------------------------------------------------------------------

\* There is never a frame with neither the stand-ins nor the server's copy of
\* a finished turn, while its view stays open and the user waits for the load.
AnswerStays ==
    excuses \cap {"rushed", "strayed", "broken"} = {} =>
        \A k \in due : k \in history
                       \/ (asking = k /\ (turn[k].kind = "ask" => answer.done))

\* One answer comes in at a time: its text is that of the question asked last,
\* and until it is complete it can be stopped and nothing else can be sent, but
\* for a user who was ahead of the turn before.
OneAnswerAtATime ==
    /\ \A k \in answer.text, j \in Turn : turn[j].kind = "ask" => j <= k
    /\ "rushed" \notin excuses =>
        \A k \in Turn : Awaited(k) => streaming

\* A page at rest sends the next message to the thread it shows, unless the
\* user went elsewhere during an agent run or started one in the middle of an
\* answer, or a new thread came to nothing.
AtRest == ~Busy /\ load = "none" /\ \A k \in Turn : ~Live(k)
SendsWhereItShows ==
    AtRest /\ excuses \cap {"strayed", "crossed", "abandoned", "unloaded"} = {} =>
        /\ active = opened
        /\ \A k \in history : turn[k].thread = opened

-------------------------------------------------------------------------------
(* The inductive invariants behind them.                                     *)

\* Turns are sent in order, and only a question has a stream.
SentInOrder ==
    \A k \in Turn :
        /\ k > sent => turn[k].kind = "none" /\ turn[k].fate = "none" /\ turn[k].ear = "none"
        /\ Live(k) => turn[k].kind = "ask"
        /\ turn[k].fate \in {"begun", "saved", "lost"} => turn[k].thread # 0

\* A stream that nobody aborted is the controller's, and that is of the question
\* asked last.
LastAsked(k) == \A j \in Turn : turn[j].kind = "ask" => j <= k
Controlled ==
    /\ \A k \in Turn : Live(k) /\ ~turn[k].aborted => controller = k
    /\ controller # 0 => turn[controller].kind = "ask" /\ LastAsked(controller)
    /\ \A k \in answer.text : LastAsked(k)
    /\ thinking # 0 => turn[thinking].kind = "act"

\* A user who waits for the turn before has one stream or one run under way, and
\* nothing comes between it and its stand-ins.
OneUnderWay ==
    "rushed" \notin excuses =>
        /\ \A k \in Turn : Live(k) => thinking = 0 /\ \A j \in Turn : Live(j) => j = k
        /\ \A k \in Turn : Awaited(k) =>
              streaming /\ asking = k /\ answer.shown /\ load = "none" /\ due \subseteq history

\* If the user stays, too, what is due is of the view that is open, and a load
\* that was read has it.
ViewKept ==
    excuses \cap {"rushed", "strayed"} = {} =>
        /\ thinking # 0 => /\ opened = turn[thinking].from
                           /\ asking = thinking /\ load = "none" /\ due \subseteq history
        /\ \A k \in Turn : Awaited(k) => opened = turn[k].from
        /\ \A k \in due : turn[k].fate = "saved" /\ turn[k].thread = opened
        /\ load = "read" => due \subseteq copy

\* A turn under way is of the thread that is open, or makes one where none is;
\* active and opened part for as long as the stream of such a one is read.
Elsewhere ==
    controller # 0 /\ Awaited(controller) /\ Abandons(controller) /\ active = controller
InPlace ==
    excuses \cap {"strayed", "crossed", "abandoned"} = {} =>
        /\ thinking # 0 => \A k \in Turn : ~Awaited(k)
        /\ \A k \in Turn : Awaited(k) \/ thinking = k =>
              /\ turn[k].from = opened
              /\ turn[k].thread = opened \/ (opened = 0 /\ turn[k].thread = k)
        /\ active = opened \/ Elsewhere

\* What was loaded is of the thread that is open.
Loaded ==
    /\ \A k \in history \cup copy : turn[k].fate = "saved"
    /\ load = "read" => \A k \in copy : turn[k].thread = opened
    /\ load = "none" /\ "unloaded" \notin excuses => \A k \in history : turn[k].thread = opened

PageInv ==
    /\ SentInOrder /\ Controlled /\ OneUnderWay /\ ViewKept /\ InPlace /\ Loaded
    /\ AnswerStays
================================================================================
