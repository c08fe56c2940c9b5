------------------------------ MODULE PartsProofs ------------------------------
(***************************************************************************)
(* Proofs about the small machines: the boot lock of Startup, the          *)
(* assignments of TaskBoard, the invitations of Diary, the conversation    *)
(* screen of ChatPage, the pieces of Splitter, the frames of FrameReader,  *)
(* the order of RankFusion and the calendar files of IcsWriter.            *)
(***************************************************************************)
EXTENDS Startup, TaskBoard, Diary, ChatPage, Splitter, FrameReader, RankFusion,
        IcsWriter, FiniteSetTheorems, SequenceTheorems, WellFoundedInduction, TLAPS

-------------------------------------------------------------------------------
(* Startup: the lock is held by the process that is in the upgrade, and by   *)
(* no other.                                                                 *)

BootOK ==
    /\ boot \in [Process -> Boot]
    /\ lock \in Process \cup {NoProcess}
    /\ \A p \in Process : boot[p] \in Holding <=> lock = p

USE StartupAssumption

LEMMA BootStarts == BootInit => BootOK
BY DEF BootInit, BootOK, Boot, Holding

LEMMA BootKeeps == BootOK /\ [BootNext]_bootVars => BootOK'
<1> SUFFICES ASSUME BootOK, [BootNext]_bootVars PROVE BootOK'
    OBVIOUS
<1> USE DEF BootOK, Boot, Holding, Goes
<1>1. ASSUME NEW p \in Process, Start(p) PROVE BootOK'
    BY <1>1 DEF Start
<1>2. ASSUME NEW p \in Process, Lock(p) PROVE BootOK'
    BY <1>2 DEF Lock
<1>3. ASSUME NEW p \in Process, Revision(p) PROVE BootOK'
    BY <1>3 DEF Revision
<1>4. ASSUME NEW p \in Process, UpgradeDone(p) \/ UpgradeFails(p) PROVE BootOK'
    BY <1>4 DEF UpgradeDone, UpgradeFails
<1>5. ASSUME NEW p \in Process, Unlock(p) PROVE BootOK'
    BY <1>5 DEF Unlock
<1>6. ASSUME NEW p \in Process, Close(p) PROVE BootOK'
    BY <1>6 DEF Close, SessionEnds
<1>7. ASSUME NEW p \in Process, CloseAborted(p) PROVE BootOK'
    BY <1>7 DEF CloseAborted, SessionEnds
<1>8. ASSUME NEW p \in Process, Serve(p) \/ StopRunner(p) \/ CloseSaver(p) PROVE BootOK'
    BY <1>8 DEF Serve, StopRunner, CloseSaver
<1>9. ASSUME NEW p \in Process, Crash(p) PROVE BootOK'
    BY <1>9 DEF Crash, SessionEnds
<1>10. CASE UpgradeByHand
    BY <1>10 DEF UpgradeByHand
<1>11. CASE UNCHANGED bootVars
    BY <1>11 DEF bootVars
<1> QED
    BY <1>1, <1>2, <1>3, <1>4, <1>5, <1>6, <1>7, <1>8, <1>9, <1>10, <1>11 DEF BootNext

\* However many processes boot together, and wherever they fail or crash, one of
\* them at a time is inside command.upgrade, and the lock is not left behind
\* (run_migrations).
THEOREM UpgradesAreSerial == BootSpec => []OneUpgradeAtATime
<1>1. BootOK => OneUpgradeAtATime
    BY DEF BootOK, OneUpgradeAtATime, Boot, Holding
<1> QED
    BY <1>1, BootStarts, BootKeeps, PTL DEF BootSpec

HIDE StartupAssumption

-------------------------------------------------------------------------------
(* TaskBoard: whoever a request is about to write has been looked up, or is  *)
(* still to be looked up.                                                    *)

Hand ==
    [at : {"idle", "check", "proposed"}, op : {"none", "create", "patch", "delete"},
     people : Seq(Person \cup {Nobody, Keep}), left : SUBSET Person,
     task : Task \cup {NoTask}, seen : Person \cup {Nobody}]

TaskTypes ==
    /\ members \in SUBSET Person
    /\ tasks \in [Task -> [who : Person \cup {Nobody}, status : {"free", "live", "gone"}]]
    /\ req \in [Desk -> Hand]
    /\ met \in [Desk -> SUBSET Person]

\* A PATCH has one name in hand and a task; what is created is never "Keep".
Shaped ==
    \A d \in Desk :
        /\ req[d].op = "patch" =>
               Len(req[d].people) = 1 /\ req[d].task \in Task
        /\ req[d].op = "create" => req[d].people \in Seq(Person \cup {Nobody})
        /\ req[d].op = "delete" => req[d].task \in Task

LookedUp ==
    \A d \in Desk : req[d].at = "check" => Named(req[d].people) \subseteq req[d].left \cup met[d]

Counted == \A d \in Desk : req[d].at = "check" => members \subseteq met[d]

TaskOK == TaskTypes /\ Shaped /\ LookedUp /\ Counted

LEMMA TaskStarts == TaskInit => TaskOK
BY TaskAssumption
   DEF TaskInit, TaskOK, TaskTypes, Shaped, LookedUp, Counted, Hand, Idle, NoRow, Named, Among

LEMMA RequestIsHand ==
    ASSUME TaskOK, NEW stage \in {"check", "proposed"}, NEW op \in {"create", "patch", "delete"},
           NEW people \in Seq(Person \cup {Nobody, Keep}), NEW t \in Task \cup {NoTask}
    PROVE  Request(stage, op, people, t) \in Hand
BY DEF Request, Hand, Named, TaskOK, TaskTypes

\* A request that begins with its names among those to look up is in order.
LEMMA BeginKeeps ==
    ASSUME TaskOK, NEW d \in Desk, NEW r \in Hand, Begins(d, r),
           Named(r.people) \subseteq r.left,
           r.op = "patch" => Len(r.people) = 1 /\ r.task \in Task,
           r.op = "create" => r.people \in Seq(Person \cup {Nobody}),
           r.op = "delete" => r.task \in Task
    PROVE  TaskOK'
BY DEF TaskOK, TaskTypes, Shaped, LookedUp, Counted, Begins

\* Nor does one that ends leave anything in hand.
LEMMA FinishKeeps ==
    ASSUME TaskOK, NEW d \in Desk, Finishes(d), members' = members,
           tasks' \in [Task -> [who : Person \cup {Nobody}, status : {"free", "live", "gone"}]]
    PROVE  TaskOK'
<1>1. Idle \in Hand
    BY DEF Idle, Hand
<1> QED
    BY <1>1 DEF TaskOK, TaskTypes, Shaped, LookedUp, Counted, Finishes, Idle

\* What an update leaves is a person, or nobody.
LEMMA FieldIsWho ==
    ASSUME NEW now \in Person \cup {Nobody}, NEW read, NEW named \in Person \cup {Nobody, Keep}
    PROVE  Field(now, read, named) \in Person \cup {Nobody}
BY DEF Field

LEMMA StoreKeeps ==
    ASSUME TaskOK, NEW d \in Desk, Insert(d) \/ Update(d) \/ Delete(d)
    PROVE  TaskOK'
<1> DEFINE Rows == [Task -> [who : Person \cup {Nobody}, status : {"free", "live", "gone"}]]
<1> USE DEF TaskOK, TaskTypes
<1>1. CASE Insert(d)
    <2> DEFINE people == req[d].people
    <2>1. people \in Seq(Person \cup {Nobody})
        BY <1>1 DEF Insert, Writes, Shaped
    <2>2. PICK ids \in Places(Len(people)) :
              Stored(d, [t \in Task |->
                  IF t \in Among(ids)
                  THEN [who |-> people[CHOOSE i \in DOMAIN ids : ids[i] = t], status |-> "live"]
                  ELSE tasks[t]])
        BY <1>1 DEF Insert
    <2>3. DOMAIN ids = DOMAIN people
        BY <2>1, <2>2 DEF Places
    <2>4. ASSUME NEW t \in Among(ids)
          PROVE  people[CHOOSE i \in DOMAIN ids : ids[i] = t] \in Person \cup {Nobody}
        BY <2>1, <2>3, <2>4 DEF Among
    <2>5. tasks' \in Rows
        BY <2>2, <2>4 DEF Stored
    <2> QED
        BY <2>2, <2>5, FinishKeeps DEF Stored
<1>2. CASE Update(d)
    <2>1. req[d].people[1] \in Person \cup {Nobody, Keep}
        BY <1>2 DEF Update, Writes, Shaped, Hand
    <2>2. req[d].task \in Task
        BY <1>2 DEF Update, Writes, Shaped
    <2>3. Field(tasks[req[d].task].who, req[d].seen, req[d].people[1]) \in Person \cup {Nobody}
        BY <2>1, <2>2, FieldIsWho
    <2>4. tasks' \in Rows
        BY <1>2, <2>2, <2>3 DEF Update, Stored
    <2> QED
        BY <1>2, <2>4, FinishKeeps DEF Update, Stored
<1>3. CASE Delete(d)
    <2>1. tasks' \in Rows
        BY <1>3 DEF Delete, Stored, Gone
    <2> QED
        BY <1>3, <2>1, FinishKeeps DEF Delete, Stored
<1> QED
    BY <1>1, <1>2, <1>3

LEMMA TaskKeeps == TaskOK /\ [TaskNext]_taskVars => TaskOK'
<1> SUFFICES ASSUME TaskOK, [TaskNext]_taskVars PROVE TaskOK'
    OBVIOUS
<1>1. ASSUME NEW p \in Person, Join(p) PROVE TaskOK'
    BY <1>1 DEF TaskOK, TaskTypes, Shaped, LookedUp, Counted, Join
<1>2. ASSUME NEW p \in Person, Leave(p) PROVE TaskOK'
    BY <1>2 DEF TaskOK, TaskTypes, Shaped, LookedUp, Counted, Leave
<1>3. ASSUME NEW d \in Desk, NEW p \in Person \cup {Nobody}, AskTask(d, p) PROVE TaskOK'
    <2>1. <<p>> \in Seq(Person \cup {Nobody}) /\ <<p>> \in Seq(Person \cup {Nobody, Keep})
        OBVIOUS
    <2> QED
        BY <1>3, <2>1, RequestIsHand, BeginKeeps DEF AskTask, Request
<1>4. ASSUME NEW d \in Desk, NEW t \in Task, NEW p \in Person \cup {Nobody, Keep},
             AskPatch(d, t, p)
      PROVE  TaskOK'
    <2>1. <<p>> \in Seq(Person \cup {Nobody, Keep}) /\ Len(<<p>>) = 1
        OBVIOUS
    <2> QED
        BY <1>4, <2>1, RequestIsHand, BeginKeeps DEF AskPatch, Request
<1>5. ASSUME NEW d \in Desk, NEW t \in Task, AskDelete(d, t) PROVE TaskOK'
    <2>1. <<>> \in Seq(Person \cup {Nobody, Keep})
        OBVIOUS
    <2> QED
        BY <1>5, <2>1, RequestIsHand, BeginKeeps DEF AskDelete, Request
<1>6. ASSUME NEW d \in Desk, NEW people \in Specs, Propose(d, people) PROVE TaskOK'
    <2>1. people \in Seq(Person \cup {Nobody})
        BY <1>6, TaskAssumption DEF Specs
    <2>2. people \in Seq(Person \cup {Nobody, Keep})
        BY <1>6, TaskAssumption DEF Specs
    <2>3. Request("proposed", "create", people, NoTask) \in Hand
        BY <2>2, RequestIsHand
    <2> QED
        BY <1>6, <2>1, <2>3 DEF TaskOK, TaskTypes, Shaped, LookedUp, Counted, Propose, Request
<1>7. ASSUME NEW d \in Desk, Approved(d) PROVE TaskOK'
    <2> DEFINE r == [req[d] EXCEPT !.at = "check", !.left = Named(req[d].people)]
    <2>1. r \in Hand
        BY DEF TaskOK, TaskTypes, Hand, Named
    <2>2. /\ r.op = req[d].op /\ r.people = req[d].people /\ r.left = Named(req[d].people)
          /\ r.task = req[d].task
        BY DEF TaskOK, TaskTypes, Hand
    <2> HIDE DEF r
    <2>3. Begins(d, r)
        BY <1>7 DEF Approved, r
    <2> QED
        BY <2>1, <2>2, <2>3, BeginKeeps DEF TaskOK, Shaped
<1>8. ASSUME NEW d \in Desk, NEW p \in Person, LookUp(d, p) PROVE TaskOK'
    <2>1. CASE p \in members
        <3>1. req' = [req EXCEPT ![d].left = @ \ {p}] /\ UNCHANGED <<members, tasks, met>>
            BY <1>8, <2>1 DEF LookUp
        <3>8. [req[d] EXCEPT !.left = @ \ {p}] \in Hand
            BY DEF TaskOK, TaskTypes, Hand
        <3>6. TaskTypes'
            BY <3>1, <3>8 DEF TaskOK, TaskTypes
        <3>7. \A e \in Desk : /\ req'[e].op = req[e].op /\ req'[e].at = req[e].at
                              /\ req'[e].people = req[e].people /\ req'[e].task = req[e].task
            BY <3>1 DEF TaskOK, TaskTypes, Hand
        <3>2. TaskTypes' /\ Shaped'
            BY <3>6, <3>7 DEF TaskOK, Shaped
        <3>3. p \in met[d]
            BY <1>8, <2>1 DEF TaskOK, Counted, LookUp
        <3>4. LookedUp'
            BY <3>1, <3>3 DEF TaskOK, TaskTypes, LookedUp, Hand
        <3>5. Counted'
            BY <3>1 DEF TaskOK, TaskTypes, Counted, Hand
        <3> QED
            BY <3>2, <3>4, <3>5 DEF TaskOK
    <2>2. CASE p \notin members
        BY <1>8, <2>2, FinishKeeps DEF LookUp, TaskOK, TaskTypes
    <2> QED
        BY <2>1, <2>2
<1>9. ASSUME NEW d \in Desk, Dies(d) PROVE TaskOK'
    BY <1>9, FinishKeeps DEF Dies, TaskOK, TaskTypes
<1>10. ASSUME NEW d \in Desk, Insert(d) \/ Update(d) \/ Delete(d) PROVE TaskOK'
    BY <1>10, StoreKeeps
<1>11. CASE UNCHANGED taskVars
    BY <1>11 DEF taskVars, TaskOK, TaskTypes, Shaped, LookedUp, Counted
<1> QED
    BY <1>1, <1>2, <1>3, <1>4, <1>5, <1>6, <1>7, <1>8, <1>9, <1>10, <1>11 DEF TaskNext

\* A row is given by an insert or an update, and they write whom they looked up.
LEMMA WritesWhomItLookedUp ==
    ASSUME TaskOK, NEW d \in Desk, NEW t \in Task, NEW p \in Person,
           Insert(d) \/ Update(d) \/ Delete(d), GivenTo(t, p)', ~GivenTo(t, p)
    PROVE  req[d].at = "check" /\ req'[d].at = "idle" /\ p \in met[d]
<1> USE DEF TaskOK, TaskTypes
<1>1. CASE Insert(d)
    <2> DEFINE people == req[d].people
    <2>1. people \in Seq(Person \cup {Nobody})
        BY <1>1 DEF Insert, Writes, Shaped
    <2>2. PICK ids \in Places(Len(people)) :
              Stored(d, [u \in Task |->
                  IF u \in Among(ids)
                  THEN [who |-> people[CHOOSE i \in DOMAIN ids : ids[i] = u], status |-> "live"]
                  ELSE tasks[u]])
        BY <1>1 DEF Insert
    <2>3. DOMAIN ids = DOMAIN people
        BY <2>1, <2>2 DEF Places
    <2>4. t \in Among(ids)
        BY <2>2 DEF Stored, GivenTo
    <2>5. people[CHOOSE i \in DOMAIN ids : ids[i] = t] = p
        BY <2>2, <2>4 DEF Stored, GivenTo
    <2>6. p \in Named(people)
        BY <2>3, <2>4, <2>5 DEF Among, Named
    <2>7. req[d].at = "check" /\ req[d].left = {}
        BY <1>1 DEF Insert, Writes
    <2>8. req'[d].at = "idle"
        BY <2>2 DEF Stored, Finishes, Idle
    <2> QED
        BY <2>6, <2>7, <2>8 DEF LookedUp
<1>2. CASE Update(d)
    <2> DEFINE named == req[d].people[1]
    <2>1. req[d].at = "check" /\ req[d].left = {} /\ req[d].op = "patch"
        BY <1>2 DEF Update, Writes
    <2>2. Len(req[d].people) = 1 /\ req[d].people \in Seq(Person \cup {Nobody, Keep})
        BY <2>1 DEF Shaped, Hand
    <2>3. req'[d].at = "idle"
        BY <1>2 DEF Update, Stored, Finishes, Idle
    <2>4. tasks' # tasks
        BY DEF GivenTo
    <2>5. /\ tasks[req[d].task].status = "live"
          /\ tasks' = [tasks EXCEPT ![req[d].task].who = Field(@, req[d].seen, named)]
        BY <1>2, <2>4 DEF Update, Stored
    <2>6. t = req[d].task /\ Field(tasks[t].who, req[d].seen, named) = p /\ tasks[t].who # p
        BY <2>5 DEF GivenTo
    <2>7. named = p
        BY <2>6 DEF Field
    <2>8. p \in Named(req[d].people)
        BY <2>2, <2>7 DEF Named, Among
    <2> QED
        BY <2>1, <2>3, <2>8 DEF LookedUp
<1>3. CASE Delete(d)
    BY <1>3 DEF Delete, Stored, Gone, GivenTo
<1> QED
    BY <1>1, <1>2, <1>3

\* Whatever people come and go between the proposal and the decision, or between
\* the read of a PATCH and its write, a task is given to nobody who was not a
\* member while the request that gives it ran (_assert_is_member, create_many).
THEOREM TasksGoToMembers == TaskSpec => GivenToMembers
<1> DEFINE A == \A t \in Task, p \in Person :
                    GivenTo(t, p)' /\ ~GivenTo(t, p) =>
                        \E d \in Desk : req[d].at = "check" /\ req'[d].at = "idle" /\ p \in met[d]
<1>1. TaskOK /\ [TaskNext]_taskVars => [A]_taskVars
    <2> SUFFICES ASSUME TaskOK, TaskNext, NEW t \in Task, NEW p \in Person,
                        GivenTo(t, p)', ~GivenTo(t, p)
                 PROVE  \E d \in Desk : req[d].at = "check" /\ req'[d].at = "idle" /\ p \in met[d]
        OBVIOUS
    <2>1. tasks' # tasks
        BY DEF GivenTo
    <2>2. PICK d \in Desk : Insert(d) \/ Update(d) \/ Delete(d)
        BY <2>1 DEF TaskNext, Join, Leave, AskTask, AskPatch, AskDelete, Begins, Propose,
                    Approved, LookUp, Dies
    <2> QED
        BY <2>2, WritesWhomItLookedUp
<1>2. TaskSpec => [][A]_taskVars
    BY <1>1, TaskStarts, TaskKeeps, PTL DEF TaskSpec
<1> QED
    BY <1>2 DEF GivenToMembers

-------------------------------------------------------------------------------
(* Diary: an id that has been used keeps its guests, what was handed over    *)
(* names them, and an approved event is committed after its mail.            *)

DiaryTypes ==
    /\ settings \in Settings
    /\ present \in SUBSET Guest
    /\ diary \in [Meeting -> Booking]
    /\ plan \in [Host -> [at : {"none", "resolve", "proposed", "publish", "mail", "commit"},
                          guests : SUBSET Guest, left : SUBSET Guest,
                          meeting : Meeting \cup {NoMeeting}]]
    /\ handed \in SUBSET [meeting : Meeting, guests : SUBSET Guest]
    /\ delivered \in SUBSET Meeting

\* What has been handed over for an event is what its row says.
HandedAsBooked ==
    \A i \in handed : diary[i.meeting].status # "free" /\ i.guests = diary[i.meeting].guests

\* The row of an approved event that is under way.
Rows ==
    \A h \in Host : plan[h].at \in {"publish", "mail", "commit"} =>
        /\ plan[h].meeting \in Meeting
        /\ diary[plan[h].meeting].status # "free"
        /\ diary[plan[h].meeting].guests = plan[h].guests

\* Nothing is under way that could not be told, and after the mail it has been.
UnderWay ==
    settings.production => \A h \in Host :
        /\ plan[h].at \in {"publish", "mail"} => plan[h].guests = {} \/ ~Undeliverable
        /\ plan[h].at = "mail" => plan[h].guests # {}
        /\ plan[h].at = "commit" => plan[h].guests = {} \/ plan[h].meeting \in delivered

DiaryOK == DiaryTypes /\ HandedAsBooked /\ Rows /\ UnderWay /\ GuestsAreTold

LEMMA DiaryStarts == DiaryInit => DiaryOK
BY DiaryAssumption
DEF DiaryInit, DiaryOK, DiaryTypes, HandedAsBooked, Rows, UnderWay, GuestsAreTold, Booking,
    NoPlan

\* A row is entered under an id that nothing refers to.
LEMMA EntryKeeps ==
    ASSUME DiaryOK, NEW h \in Host, NEW m \in Meeting, NEW approved \in BOOLEAN,
           NEW status \in {"held", "booked"}, Enters(h, m, status, approved),
           status = "booked" => ~approved,
           UNCHANGED <<settings, present, handed, delivered>>
    PROVE  /\ diary' \in [Meeting -> Booking]
           /\ HandedAsBooked'
           /\ GuestsAreTold'
           /\ diary'[m].guests = plan[h].guests /\ diary'[m].status # "free"
           /\ \A k \in Host : plan[k].at \in {"publish", "mail", "commit"} =>
                  /\ diary'[plan[k].meeting].status # "free"
                  /\ diary'[plan[k].meeting].guests = plan[k].guests
<1> USE DEF DiaryOK, DiaryTypes, Enters
<1>1. diary' \in [Meeting -> Booking]
    BY DEF Booking
<1>2. \A n \in Meeting : n # m => diary'[n] = diary[n]
    OBVIOUS
<1>3. /\ diary'[m].guests = plan[h].guests
      /\ diary'[m].status = status /\ diary'[m].approved = approved
    OBVIOUS
<1>4. HandedAsBooked'
    BY <1>2 DEF HandedAsBooked
<1>5. GuestsAreTold'
    BY <1>2, <1>3 DEF GuestsAreTold
<1>6. \A k \in Host : plan[k].at \in {"publish", "mail", "commit"} =>
          plan[k].meeting \in Meeting /\ plan[k].meeting # m
    BY DEF Rows
<1> QED
    BY <1>1, <1>2, <1>3, <1>4, <1>5, <1>6 DEF Rows

\* To drop a plan, or to take a step of one that has no row yet, changes nothing
\* that is promised.
LEMMA OverKeeps ==
    ASSUME DiaryOK, NEW h \in Host, Over(h),
           UNCHANGED <<settings, present, diary, handed, delivered>>
    PROVE  DiaryOK'
BY DEF DiaryOK, DiaryTypes, HandedAsBooked, Rows, UnderWay, GuestsAreTold, Over, NoPlan,
       Undeliverable, MissingKey

\* Handing over what a row says.
LEMMA HandOverKeeps ==
    ASSUME DiaryTypes, HandedAsBooked, NEW m \in Meeting, diary[m].status # "free",
           HandsOver(m), UNCHANGED diary
    PROVE  /\ handed' \in SUBSET [meeting : Meeting, guests : SUBSET Guest]
           /\ HandedAsBooked'
<1>1. [meeting |-> m, guests |-> diary[m].guests] \in [meeting : Meeting, guests : SUBSET Guest]
    BY DEF DiaryTypes, Booking
<1> QED
    BY <1>1 DEF DiaryTypes, HandedAsBooked, HandsOver, GuestsOf

\* After the mail, the plan is to commit.
LEMMA CommitFollows ==
    ASSUME DiaryOK, NEW h \in Host, plan[h].meeting \in Meeting,
           plan[h].at = "mail", plan' = [plan EXCEPT ![h].at = "commit"],
           UNCHANGED <<settings, diary>>, delivered \subseteq delivered',
           settings.production => plan[h].guests = {} \/ plan[h].meeting \in delivered'
    PROVE  /\ plan' \in [Host -> [at : {"none", "resolve", "proposed", "publish", "mail", "commit"},
                                  guests : SUBSET Guest, left : SUBSET Guest,
                                  meeting : Meeting \cup {NoMeeting}]]
           /\ Rows' /\ UnderWay'
<1> USE DEF DiaryOK, DiaryTypes
<1>1. /\ plan'[h].at = "commit" /\ plan'[h].guests = plan[h].guests
      /\ plan'[h].meeting = plan[h].meeting /\ plan'[h].left = plan[h].left
      /\ \A k \in Host : k # h => plan'[k] = plan[k]
    OBVIOUS
<1>2. Rows'
    BY <1>1 DEF Rows
<1>3. UnderWay'
    BY <1>1 DEF UnderWay, Undeliverable, MissingKey
<1> QED
    BY <1>2, <1>3

LEMMA MailKeeps ==
    ASSUME DiaryOK, NEW h \in Host, MailConsole(h) \/ MailProvider(h)
    PROVE  DiaryOK'
<1> DEFINE m == plan[h].meeting
<1>1. /\ m \in Meeting /\ diary[m].status # "free" /\ HandsOver(m) /\ UNCHANGED diary
      /\ plan[h].at = "mail"
    BY DEF MailConsole, MailProvider, Moves, DiaryOK, Rows
<1>2. handed' \in SUBSET [meeting : Meeting, guests : SUBSET Guest] /\ HandedAsBooked'
    BY <1>1, HandOverKeeps DEF DiaryOK
<1>3. CASE MailConsole(h)
    <2>1. plan' = [plan EXCEPT ![h].at = "commit"] /\ UNCHANGED <<settings, present, delivered>>
        BY <1>3 DEF MailConsole, Moves
    <2>2. settings.production => plan[h].guests = {}
        BY <1>3 DEF MailConsole, Moves, DiaryOK, UnderWay, Undeliverable
    <2> QED
        BY <1>1, <1>2, <2>1, <2>2, CommitFollows DEF DiaryOK, GuestsAreTold, DiaryTypes
<1>4. CASE MailProvider(h)
    <2>1. delivered' = delivered \cup {m} /\ UNCHANGED <<settings, present>>
        BY <1>4 DEF MailProvider
    <2>2. CASE plan' = [plan EXCEPT ![h].at = "commit"]
        BY <1>1, <1>2, <2>1, <2>2, CommitFollows DEF DiaryOK, GuestsAreTold, DiaryTypes
    <2>3. CASE plan' = [plan EXCEPT ![h] = NoPlan]
        BY <1>1, <1>2, <2>1, <2>3
        DEF DiaryOK, DiaryTypes, Rows, UnderWay, GuestsAreTold, Undeliverable, MissingKey, NoPlan
    <2> QED
        BY <1>4, <2>2, <2>3 DEF MailProvider, Moves, Over
<1> QED
    BY <1>3, <1>4

LEMMA PlansAre ==
    ASSUME NEW guests \in SUBSET Guest
    PROVE  /\ [NoPlan EXCEPT !.at = "resolve", !.guests = guests, !.left = guests]
                = [at |-> "resolve", guests |-> guests, left |-> guests, meeting |-> NoMeeting]
           /\ [NoPlan EXCEPT !.at = "proposed", !.guests = guests]
                = [at |-> "proposed", guests |-> guests, left |-> {}, meeting |-> NoMeeting]
<1> DEFINE R == [at : {"resolve", "proposed"}, guests : SUBSET Guest, left : SUBSET Guest,
                 meeting : {NoMeeting}]
<1>1. \A a, b \in R : a.at = b.at /\ a.guests = b.guests /\ a.left = b.left
                          /\ a.meeting = b.meeting => a = b
    OBVIOUS
<1>2. /\ [NoPlan EXCEPT !.at = "resolve", !.guests = guests, !.left = guests] \in R
      /\ [at |-> "resolve", guests |-> guests, left |-> guests, meeting |-> NoMeeting] \in R
    BY DEF NoPlan
<1>3. /\ [NoPlan EXCEPT !.at = "proposed", !.guests = guests] \in R
      /\ [at |-> "proposed", guests |-> guests, left |-> {}, meeting |-> NoMeeting] \in R
    BY DEF NoPlan
<1>4. [NoPlan EXCEPT !.at = "resolve", !.guests = guests, !.left = guests]
          = [at |-> "resolve", guests |-> guests, left |-> guests, meeting |-> NoMeeting]
    BY <1>1, <1>2 DEF NoPlan
<1>5. [NoPlan EXCEPT !.at = "proposed", !.guests = guests]
          = [at |-> "proposed", guests |-> guests, left |-> {}, meeting |-> NoMeeting]
    BY <1>1, <1>3 DEF NoPlan
<1> QED
    BY <1>4, <1>5

LEMMA DiaryKeeps == DiaryOK /\ [DiaryNext]_diaryVars => DiaryOK'
<1> SUFFICES ASSUME DiaryOK, [DiaryNext]_diaryVars PROVE DiaryOK'
    OBVIOUS
<1> USE DEF DiaryOK, DiaryTypes
<1>1. ASSUME NEW p \in Guest, Arrives(p) \/ Departs(p) PROVE DiaryOK'
    BY <1>1 DEF Arrives, Departs, HandedAsBooked, Rows, UnderWay, GuestsAreTold, Undeliverable,
                MissingKey
<1>2. ASSUME NEW h \in Host, NEW guests \in Lists(Guest),
             AskEvent(h, guests) \/ ProposeEvent(h, guests)
      PROVE  DiaryOK'
    <2>1. guests \in SUBSET Guest
        BY DEF Lists
    <2>2. PICK stage \in {"resolve", "proposed"}, left \in {{}, guests} :
              plan' = [plan EXCEPT ![h] = [at |-> stage, guests |-> guests, left |-> left,
                                           meeting |-> NoMeeting]]
        <3>1. CASE AskEvent(h, guests)
            BY <2>1, <3>1, PlansAre DEF AskEvent
        <3>2. CASE ProposeEvent(h, guests)
            BY <2>1, <3>2, PlansAre DEF ProposeEvent
        <3> QED
            BY <1>2, <3>1, <3>2
    <2>3. UNCHANGED <<settings, present, diary, handed, delivered>>
        BY <1>2 DEF AskEvent, ProposeEvent
    <2> QED
        BY <2>1, <2>2, <2>3 DEF HandedAsBooked, Rows, UnderWay, GuestsAreTold, Undeliverable,
                                MissingKey
<1>3. ASSUME NEW h \in Host, NEW p \in Guest, Resolve(h, p) PROVE DiaryOK'
    <2>1. CASE p \in present
        BY <1>3, <2>1 DEF Resolve, HandedAsBooked, Rows, UnderWay, GuestsAreTold,
                          Undeliverable, MissingKey
    <2>2. CASE p \notin present
        BY <1>3, <2>2, OverKeeps DEF Resolve
    <2> QED
        BY <2>1, <2>2
<1>4. ASSUME NEW h \in Host, InsertEvent(h) PROVE DiaryOK'
    <2>1. PICK m \in Meeting : Enters(h, m, "booked", FALSE)
        BY <1>4 DEF InsertEvent
    <2>2. plan' = [plan EXCEPT ![h] = NoPlan] /\ UNCHANGED <<settings, present, handed, delivered>>
        BY <1>4 DEF InsertEvent, Over
    <2>3. /\ diary' \in [Meeting -> Booking] /\ HandedAsBooked' /\ GuestsAreTold'
          /\ \A k \in Host : plan[k].at \in {"publish", "mail", "commit"} =>
                 /\ diary'[plan[k].meeting].status # "free"
                 /\ diary'[plan[k].meeting].guests = plan[k].guests
        BY <2>1, <2>2, EntryKeeps
    <2> QED
        BY <2>2, <2>3 DEF Rows, UnderWay, NoPlan, Undeliverable, MissingKey
<1>5. ASSUME NEW h \in Host, HoldEvent(h) PROVE DiaryOK'
    <2>1. PICK m \in Meeting :
              /\ Enters(h, m, "held", TRUE)
              /\ plan' = [plan EXCEPT ![h].at = "publish", ![h].meeting = m]
        BY <1>5 DEF HoldEvent
    <2>2. UNCHANGED <<settings, present, handed, delivered>>
        BY <1>5 DEF HoldEvent
    <2>3. /\ diary' \in [Meeting -> Booking] /\ HandedAsBooked' /\ GuestsAreTold'
          /\ diary'[m].guests = plan[h].guests /\ diary'[m].status # "free"
          /\ \A k \in Host : plan[k].at \in {"publish", "mail", "commit"} =>
                 /\ diary'[plan[k].meeting].status # "free"
                 /\ diary'[plan[k].meeting].guests = plan[k].guests
        BY <2>1, <2>2, EntryKeeps
    <2>4. settings.production => plan[h].guests = {} \/ ~Undeliverable
        BY <1>5 DEF HoldEvent, DeliveryBlocked
    <2>5. /\ plan'[h].at = "publish" /\ plan'[h].meeting = m /\ plan'[h].guests = plan[h].guests
          /\ plan'[h].left = plan[h].left
          /\ \A k \in Host : k # h => plan'[k] = plan[k]
        BY <2>1
    <2> QED
        BY <2>1, <2>2, <2>3, <2>4, <2>5 DEF Rows, UnderWay, Undeliverable, MissingKey
<1>6. ASSUME NEW h \in Host, Publish(h) PROVE DiaryOK'
    BY <1>6 DEF Publish, Moves, HandedAsBooked, Rows, UnderWay, GuestsAreTold, Undeliverable,
                MissingKey
<1>7. ASSUME NEW h \in Host, MailConsole(h) \/ MailProvider(h) PROVE DiaryOK'
    BY <1>7, MailKeeps
<1>8. ASSUME NEW h \in Host, CommitEvent(h) PROVE DiaryOK'
    <2> DEFINE m == plan[h].meeting
    <2>1. /\ m \in Meeting /\ diary[m].status # "free" /\ diary[m].guests = plan[h].guests
          /\ settings.production => plan[h].guests = {} \/ m \in delivered
        BY <1>8 DEF CommitEvent, Rows, UnderWay
    <2>2. /\ diary' = [diary EXCEPT ![m].status = "booked"]
          /\ plan' = [plan EXCEPT ![h] = NoPlan]
          /\ UNCHANGED <<settings, present, handed, delivered>>
        BY <1>8 DEF CommitEvent, Over
    <2>3. /\ diary' \in [Meeting -> Booking]
          /\ \A n \in Meeting : diary'[n].guests = diary[n].guests
          /\ \A n \in Meeting : n # m => diary'[n] = diary[n]
          /\ diary'[m].status = "booked"
        BY <2>1, <2>2 DEF Booking
    <2>4. HandedAsBooked' /\ GuestsAreTold'
        BY <2>1, <2>2, <2>3 DEF HandedAsBooked, GuestsAreTold
    <2>5. Rows' /\ UnderWay'
        BY <2>2, <2>3 DEF Rows, UnderWay, NoPlan, Undeliverable, MissingKey
    <2> QED
        BY <2>2, <2>3, <2>4, <2>5 DEF NoPlan
<1>9. ASSUME NEW h \in Host, Fails(h) PROVE DiaryOK'
    BY <1>9, OverKeeps DEF Fails
<1>10. ASSUME NEW m \in Meeting, Download(m) PROVE DiaryOK'
    <2>1. handed' \in SUBSET [meeting : Meeting, guests : SUBSET Guest] /\ HandedAsBooked'
        BY <1>10, HandOverKeeps DEF Download
    <2> QED
        BY <1>10, <2>1 DEF Download, Rows, UnderWay, GuestsAreTold, Undeliverable, MissingKey
<1>11. CASE UNCHANGED diaryVars
    BY <1>11 DEF diaryVars, HandedAsBooked, Rows, UnderWay, GuestsAreTold, Undeliverable,
                 MissingKey
<1> QED
    BY <1>1, <1>2, <1>3, <1>4, <1>5, <1>6, <1>7, <1>8, <1>9, <1>10, <1>11 DEF DiaryNext

\* Mailed once and downloaded often, an invitation names the same guests, for
\* any number of members who come and go (ics_for_event, guests_of).
THEOREM InvitationsAgree == DiarySpec => []SameInvitation
<1>1. DiaryOK => SameInvitation
    BY DEF DiaryOK, DiaryTypes, HandedAsBooked, SameInvitation
<1> QED
    BY <1>1, DiaryStarts, DiaryKeeps, PTL DEF DiarySpec

\* In production an approved event with guests is on record only after a real
\* provider has taken its invitation (delivery_blocked, _execute_create_event).
THEOREM GuestsLearn == DiarySpec => []GuestsAreTold
<1>1. DiaryOK => GuestsAreTold
    BY DEF DiaryOK
<1> QED
    BY <1>1, DiaryStarts, DiaryKeeps, PTL DEF DiarySpec

-------------------------------------------------------------------------------
(* ChatPage: streams, their controller, and the view they are shown in.        *)

ChatTurn == [kind : {"none", "ask", "act"}, thread : Thread,
             fate : {"none", "sent", "begun", "saved", "lost", "refused"},
             ear : {"none", "opening", "reading", "finished", "ended"},
             aborted : BOOLEAN, from : Thread]

\* What a step leaves of a turn whose ear, fate or controller it may touch.
Same(j) ==
    turn'[j].kind = turn[j].kind /\ turn'[j].from = turn[j].from

LEMMA TurnsAreNumbers ==
    /\ Turn \subseteq Nat \ {0} /\ 0 \in Thread /\ Turn \subseteq Thread
    /\ \A t \in Thread : t # 0 => t \in Turn
BY PageAssumption DEF Turn, Thread

\* The stream of a turn moves on.
LEMMA EarMoves ==
    ASSUME TypeOK, NEW k \in Turn,
           NEW e \in {"reading", "finished", "ended"}, turn' = [turn EXCEPT ![k].ear = e]
    PROVE  /\ turn' \in [Turn -> ChatTurn]
           /\ \A j \in Turn : /\ Same(j) /\ turn'[j].aborted = turn[j].aborted
                              /\ turn'[j].fate = turn[j].fate
                              /\ turn'[j].thread = turn[j].thread
                              /\ turn'[j].ear = IF j = k THEN e ELSE turn[j].ear
BY DEF TypeOK, ChatTurn, Same

\* The server decides the fate of a turn.
LEMMA FateMoves ==
    ASSUME TypeOK, NEW k \in Turn, Resolves(k) \/ Settles(k)
    PROVE  /\ turn' \in [Turn -> ChatTurn]
           /\ turn[k].fate \in {"sent", "begun"}
           /\ \A j \in Turn :
                /\ Same(j) /\ turn'[j].aborted = turn[j].aborted /\ turn'[j].ear = turn[j].ear
                /\ j # k => turn'[j].fate = turn[j].fate /\ turn'[j].thread = turn[j].thread
           /\ turn'[k].fate \in {"begun", "saved", "lost", "refused"}
           /\ turn'[k].thread = turn[k].thread \/ (turn[k].thread = 0 /\ turn'[k].thread = k)
           /\ turn'[k].fate \in {"begun", "saved", "lost"} =>
                turn'[k].thread # 0 \/ turn[k].fate = "begun"
<1> USE TurnsAreNumbers DEF TypeOK, ChatTurn, Same
<1>1. CASE Resolves(k)
    <2>1. PICK f \in {"begun", "refused"}, t \in Turn :
            /\ turn' = [turn EXCEPT ![k].fate = f, ![k].thread = t]
            /\ t = turn[k].thread \/ (turn[k].thread = 0 /\ t = k)
            /\ turn[k].fate = "sent"
        <3>1. turn[k].thread \in Thread
            OBVIOUS
        <3> QED
            BY <1>1, <3>1 DEF Resolves
    <2>2. turn' = [turn EXCEPT ![k] = [turn[k] EXCEPT !.fate = f, !.thread = t]]
        BY <2>1
    <2>3. [turn[k] EXCEPT !.fate = f, !.thread = t] \in ChatTurn
        <3>1. turn[k] \in ChatTurn /\ t \in Thread
            OBVIOUS
        <3> QED
            BY <3>1
    <2> QED
        BY <2>1, <2>2, <2>3
<1>2. CASE Settles(k)
    BY <1>2 DEF Settles
<1> QED
    BY <1>1, <1>2

\* The controller aborts its stream.
LEMMA ControllerAborts ==
    ASSUME TypeOK
    PROVE  /\ Aborted \in [Turn -> ChatTurn]
           /\ \A j \in Turn :
                /\ Aborted[j].kind = turn[j].kind /\ Aborted[j].from = turn[j].from
                /\ Aborted[j].fate = turn[j].fate /\ Aborted[j].thread = turn[j].thread
                /\ Aborted[j].ear = turn[j].ear
                /\ (Aborted[j].aborted <=> turn[j].aborted \/ j = controller)
<1>1. CASE controller = 0
    BY <1>1, TurnsAreNumbers DEF TypeOK, ChatTurn, Aborted
<1>2. CASE controller # 0
    <2>1. controller \in Turn /\ Aborted = [turn EXCEPT ![controller].aborted = TRUE]
        BY <1>2, TurnsAreNumbers DEF TypeOK, Aborted
    <2>2. Aborted \in [Turn -> ChatTurn]
        <3>1. turn \in [Turn -> ChatTurn] /\ turn[controller] \in ChatTurn
            BY <2>1 DEF TypeOK, ChatTurn
        <3>2. [turn[controller] EXCEPT !.aborted = TRUE] \in ChatTurn
            BY <3>1 DEF ChatTurn
        <3> QED
            BY <2>1, <3>1, <3>2
    <2>3. ASSUME NEW j \in Turn, j # controller PROVE Aborted[j] = turn[j]
        BY <2>1, <2>3 DEF TypeOK
    <2>4. Aborted[controller] = [turn[controller] EXCEPT !.aborted = TRUE]
        BY <2>1 DEF TypeOK
    <2>5. turn[controller] \in ChatTurn
        BY <2>1 DEF TypeOK, ChatTurn
    <2> QED
        BY <2>1, <2>2, <2>3, <2>4, <2>5 DEF ChatTurn
<1> QED
    BY <1>1, <1>2

LEMMA UnsentType == Unsent \in ChatTurn
BY TurnsAreNumbers DEF Unsent, ChatTurn

\* A message is sent.
LEMMA TurnSent ==
    ASSUME TypeOK, sent < MaxTurns, NEW before \in [Turn -> ChatTurn],
           NEW kind \in {"ask", "act"}, NEW ear \in {"none", "opening"},
           turn' = [before EXCEPT ![sent + 1] = New(kind, ear)]
    PROVE  /\ sent + 1 \in Turn
           /\ turn' \in [Turn -> ChatTurn]
           /\ \A j \in Turn : j # sent + 1 => turn'[j] = before[j]
           /\ turn'[sent + 1].kind = kind /\ turn'[sent + 1].thread = active
           /\ turn'[sent + 1].fate = "sent" /\ turn'[sent + 1].ear = ear
           /\ turn'[sent + 1].aborted = FALSE /\ turn'[sent + 1].from = opened
<1>1. sent + 1 \in Turn
    BY PageAssumption DEF TypeOK, Turn
<1>2. /\ New(kind, ear) \in ChatTurn
      /\ New(kind, ear).kind = kind /\ New(kind, ear).thread = active
      /\ New(kind, ear).fate = "sent" /\ New(kind, ear).ear = ear
      /\ New(kind, ear).aborted = FALSE /\ New(kind, ear).from = opened
    BY UnsentType DEF TypeOK, New, ChatTurn, Unsent
<1> QED
    BY <1>1, <1>2

LEMMA NoAnswerType ==
    /\ NoAnswer \in [shown : BOOLEAN, text : SUBSET Turn, done : BOOLEAN]
    /\ [NoAnswer EXCEPT !.shown = TRUE] \in [shown : BOOLEAN, text : SUBSET Turn, done : BOOLEAN]
BY DEF NoAnswer

LEMMA PageTypeStarts == Init => TypeOK
<1> SUFFICES ASSUME Init PROVE TypeOK
    OBVIOUS
<1>1. turn \in [Turn -> ChatTurn]
    BY UnsentType DEF Init
<1>2. /\ answer \in [shown : BOOLEAN, text : SUBSET Turn, done : BOOLEAN]
      /\ excuses \in SUBSET {"rushed", "crossed", "strayed", "abandoned", "unloaded", "broken"}
    BY NoAnswerType DEF Init
<1>3. sent \in 0..MaxTurns /\ opens \in 0..MaxOpens /\ load \in {"none", "sent", "read"}
    BY PageAssumption DEF Init
<1> QED
    BY <1>1, <1>2, <1>3, TurnsAreNumbers DEF Init, TypeOK, ChatTurn

\* The page after a turn is settled.
LEMMA SettledType ==
    ASSUME TypeOK, NEW k \in Turn, Settled(k)
    PROVE  /\ active' \in Thread /\ opened' \in Thread /\ due' \in SUBSET Turn
           /\ load' \in {"none", "sent", "read"} /\ copy' \in SUBSET Turn
BY TurnsAreNumbers DEF TypeOK, Settled

LEMMA PageTypeKeeps == TypeOK /\ [Next]_vars => TypeOK'
<1> SUFFICES ASSUME TypeOK, [Next]_vars PROVE TypeOK'
    OBVIOUS
<1>1. CASE Ask
    <2>1. sent + 1 \in Turn /\ turn' \in [Turn -> ChatTurn]
        BY <1>1, TurnSent, ControllerAborts DEF Ask
    <2>2. excuses' \in SUBSET {"rushed", "crossed", "strayed", "abandoned", "unloaded", "broken"}
        BY <1>1 DEF Ask, TypeOK
    <2>3. sent' \in 0..MaxTurns
        BY <1>1, PageAssumption DEF Ask, TypeOK
    <2> QED
        BY <1>1, <2>1, <2>2, <2>3, TurnsAreNumbers, NoAnswerType DEF Ask, TypeOK, ChatTurn
<1>2. CASE Act
    <2>1. sent + 1 \in Turn /\ turn' \in [Turn -> ChatTurn]
        BY <1>2, TurnSent DEF Act, TypeOK, ChatTurn
    <2>2. excuses' \in SUBSET {"rushed", "crossed", "strayed", "abandoned", "unloaded", "broken"}
        BY <1>2 DEF Act, TypeOK
    <2> QED
        BY <1>2, <2>1, <2>2, TurnsAreNumbers, PageAssumption DEF Act, TypeOK, ChatTurn, Turn
<1>3. CASE Cancel
    BY <1>3, ControllerAborts, TurnsAreNumbers DEF Cancel, Excuse, TypeOK, ChatTurn
<1>4. ASSUME NEW t \in Thread, Open(t) PROVE TypeOK'
    <2>1. /\ load' \in {"none", "sent", "read"} /\ copy' \in SUBSET Turn
          /\ opens' \in 0..MaxOpens
        BY <1>4, PageAssumption DEF Open, TypeOK
    <2>2. excuses' \in SUBSET {"rushed", "crossed", "strayed", "abandoned", "unloaded", "broken"}
        BY <1>4 DEF Open, Excuse, TypeOK
    <2> QED
        BY <1>4, <2>1, <2>2, ControllerAborts, TurnsAreNumbers, NoAnswerType
        DEF Open, TypeOK, ChatTurn
<1>5. ASSUME NEW k \in Turn, Resolves(k) \/ Settles(k) PROVE TypeOK'
    <2>1. turn' \in [Turn -> ChatTurn] /\ UNCHANGED <<sent, pageVars>>
        BY <1>5, FateMoves DEF Resolves, Settles
    <2> QED
        BY <2>1 DEF TypeOK, ChatTurn, pageVars
<1>6. ASSUME NEW k \in Turn, Meta(k) PROVE TypeOK'
    <2>1. turn' \in [Turn -> ChatTurn]
        BY <1>6, EarMoves DEF Meta
    <2> QED
        BY <1>6, <2>1 DEF Meta, TypeOK, ChatTurn
<1>7. ASSUME NEW k \in Turn, Token(k) PROVE TypeOK'
    BY <1>7 DEF Token, TypeOK
<1>8. ASSUME NEW k \in Turn, Done(k) PROVE TypeOK'
    <2>1. turn' \in [Turn -> ChatTurn]
        BY <1>8, EarMoves DEF Done
    <2>2. answer' \in [shown : BOOLEAN, text : SUBSET Turn, done : BOOLEAN]
        BY <1>8 DEF Done, TypeOK
    <2>3. streaming' \in BOOLEAN
        BY <1>8 DEF Done, TypeOK
    <2> QED
        BY <1>8, <2>1, <2>2, <2>3, SettledType DEF Done, TypeOK, ChatTurn
<1>9. ASSUME NEW k \in Turn, Unwinds(k) \/ Closes(k) \/ Breaks(k) PROVE TypeOK'
    <2>1. turn' \in [Turn -> ChatTurn] /\ Finally(k)
        BY <1>9, EarMoves DEF Unwinds, Closes, Breaks, Finally
    <2>2. answer' \in [shown : BOOLEAN, text : SUBSET Turn, done : BOOLEAN]
        BY <1>9, NoAnswerType DEF Unwinds, Closes, Breaks, TypeOK
    <2>3. excuses' \in SUBSET {"rushed", "crossed", "strayed", "abandoned", "unloaded", "broken"}
        BY <1>9 DEF Unwinds, Closes, Breaks, TypeOK, Excuse
    <2> QED
        BY <2>1, <2>2, <2>3, TurnsAreNumbers DEF Finally, TypeOK, ChatTurn
<1>10. ASSUME NEW k \in Turn, ActAnswered(k) \/ ActFails(k) PROVE TypeOK'
    BY <1>10, SettledType, TurnsAreNumbers DEF ActAnswered, ActFails, TypeOK
<1>11. CASE ServerReads \/ Lands \/ LoadFails
    <2>1. HistoryOf(opened) \in SUBSET Turn
        BY DEF HistoryOf
    <2>2. excuses' \in SUBSET {"rushed", "crossed", "strayed", "abandoned", "unloaded", "broken"}
        BY <1>11 DEF ServerReads, Lands, LoadFails, Excuse, TypeOK
    <2> QED
        BY <1>11, <2>1, <2>2, TurnsAreNumbers, NoAnswerType
           DEF ServerReads, Lands, LoadFails, TypeOK
<1>12. CASE UNCHANGED vars
    BY <1>12 DEF vars, pageVars, TypeOK
<1> QED
    BY <1>1, <1>2, <1>3, <1>4, <1>5, <1>6, <1>7, <1>8, <1>9, <1>10, <1>11, <1>12 DEF Next

\* What the conversation screen keeps, and what it is told of its turns, has its
\* type whatever the user and the server do.
THEOREM PageStateIsTyped == Spec => []TypeOK
BY PageTypeStarts, PageTypeKeeps, PTL DEF Spec

\* A turn that is sent is the next one, and the turns before it are as they were,
\* but for the controller's if it is aborted.
LEMMA TurnAfterOthers ==
    ASSUME TypeOK, PageInv, Ask \/ Act
    PROVE  \E n \in Turn :
             /\ n = sent + 1 /\ sent' = n /\ asking' = n
             /\ \A j \in Turn : j >= n => turn[j].kind = "none" /\ turn[j].ear = "none"
                                           /\ turn[j].fate = "none"
             /\ \A j \in Turn \ {n} :
                  /\ Same(j) /\ turn'[j].fate = turn[j].fate /\ turn'[j].thread = turn[j].thread
                  /\ turn'[j].ear = turn[j].ear
                  /\ turn'[j].aborted <=> turn[j].aborted \/ (Ask /\ j = controller)
             /\ turn'[n].thread = active /\ turn'[n].from = opened /\ turn'[n].fate = "sent"
             /\ turn'[n].aborted = FALSE
             /\ Ask => turn'[n].kind = "ask" /\ turn'[n].ear = "opening"
             /\ ~Ask => turn'[n].kind = "act" /\ turn'[n].ear = "none"
<1>1. sent + 1 \in Turn /\ sent < MaxTurns
    BY PageAssumption DEF Ask, Act, TypeOK, Turn
<1>2. \A j \in Turn : j >= sent + 1 => turn[j].kind = "none" /\ turn[j].ear = "none"
                                        /\ turn[j].fate = "none"
    BY TurnsAreNumbers DEF PageInv, SentInOrder, TypeOK
<1>3. CASE Ask
    <2>1. turn' = [Aborted EXCEPT ![sent + 1] = New("ask", "opening")]
          /\ sent' = sent + 1 /\ asking' = sent + 1
        BY <1>3 DEF Ask
    <2>2. Aborted \in [Turn -> ChatTurn]
        BY ControllerAborts
    <2>3. /\ \A j \in Turn : j # sent + 1 => turn'[j] = Aborted[j]
          /\ turn'[sent + 1].kind = "ask" /\ turn'[sent + 1].thread = active
          /\ turn'[sent + 1].fate = "sent" /\ turn'[sent + 1].ear = "opening"
          /\ turn'[sent + 1].aborted = FALSE /\ turn'[sent + 1].from = opened
        BY <1>1, <2>1, <2>2, TurnSent
    <2>4. \A j \in Turn \ {sent + 1} :
            /\ Same(j) /\ turn'[j].fate = turn[j].fate /\ turn'[j].thread = turn[j].thread
            /\ turn'[j].ear = turn[j].ear
            /\ turn'[j].aborted <=> turn[j].aborted \/ j = controller
        BY <2>3, ControllerAborts DEF Same
    <2> QED
        BY <1>1, <1>2, <1>3, <2>1, <2>3, <2>4
<1>4. CASE ~Ask
    <2>1. turn' = [turn EXCEPT ![sent + 1] = New("act", "none")]
          /\ sent' = sent + 1 /\ asking' = sent + 1
        BY <1>4 DEF Act
    <2>2. turn \in [Turn -> ChatTurn]
        BY DEF TypeOK, ChatTurn
    <2>3. /\ \A j \in Turn : j # sent + 1 => turn'[j] = turn[j]
          /\ turn'[sent + 1].kind = "act" /\ turn'[sent + 1].thread = active
          /\ turn'[sent + 1].fate = "sent" /\ turn'[sent + 1].ear = "none"
          /\ turn'[sent + 1].aborted = FALSE /\ turn'[sent + 1].from = opened
        BY <1>1, <2>1, <2>2, TurnSent
    <2>4. \A j \in Turn \ {sent + 1} :
            /\ Same(j) /\ turn'[j].fate = turn[j].fate /\ turn'[j].thread = turn[j].thread
            /\ turn'[j].ear = turn[j].ear
            /\ turn'[j].aborted <=> turn[j].aborted
        BY <2>3 DEF Same
    <2> QED
        BY <1>1, <1>2, <1>4, <2>1, <2>3, <2>4
<1> QED
    BY <1>3, <1>4

LEMMA AskKeeps == ASSUME TypeOK, PageInv, Ask PROVE PageInv'
<1>1. PICK n \in Turn :
        /\ n = sent + 1 /\ sent' = n /\ asking' = n
        /\ \A j \in Turn : j >= n => turn[j].kind = "none" /\ turn[j].ear = "none"
                                      /\ turn[j].fate = "none"
        /\ \A j \in Turn \ {n} :
             /\ Same(j) /\ turn'[j].fate = turn[j].fate /\ turn'[j].thread = turn[j].thread
             /\ turn'[j].ear = turn[j].ear
             /\ turn'[j].aborted <=> turn[j].aborted \/ j = controller
        /\ turn'[n].thread = active /\ turn'[n].from = opened /\ turn'[n].fate = "sent"
        /\ turn'[n].aborted = FALSE /\ turn'[n].kind = "ask" /\ turn'[n].ear = "opening"
    BY TurnAfterOthers
<1>2. /\ thinking = 0 /\ thinking' = 0 /\ controller' = n /\ streaming'
      /\ answer' = [NoAnswer EXCEPT !.shown = TRUE]
      /\ UNCHANGED <<active, opened, history, load, copy, due>>
      /\ excuses \subseteq excuses'
      /\ Rushing => "rushed" \in excuses'
      /\ Replaces => "abandoned" \in excuses'
    BY <1>1 DEF Ask, Busy, TypeOK
<1>3. answer'.shown /\ answer'.text = {}
    BY <1>2 DEF NoAnswer
<1>4. \A j \in Turn : Live(j)' => j = n \/ Live(j)
    BY <1>1 DEF Live
<1>5. \A j \in Turn : Awaited(j)' => j = n
    BY <1>1 DEF Awaited, PageInv, Controlled, Live
<1>6. SentInOrder'
    BY <1>1, TurnsAreNumbers DEF SentInOrder, PageInv, Live, Same
<1>7. Controlled'
    BY <1>1, <1>2, <1>3, <1>4, TurnsAreNumbers DEF Controlled, LastAsked, PageInv, Live, Same
<1>8. OneUnderWay'
    BY <1>1, <1>2, <1>3, <1>4, <1>5 DEF OneUnderWay, PageInv, Rushing
<1>9. ViewKept'
    BY <1>1, <1>2, <1>5, TurnsAreNumbers DEF ViewKept, PageInv, TypeOK
<1>10. InPlace'
    <2> SUFFICES ASSUME excuses' \cap {"strayed", "crossed", "abandoned"} = {}
                 PROVE  /\ \A k \in Turn : Awaited(k)' \/ thinking' = k =>
                             /\ turn'[k].from = opened'
                             /\ turn'[k].thread = opened' \/ (opened' = 0 /\ turn'[k].thread = k)
                        /\ active' = opened'
        BY <1>2 DEF InPlace
    <2>1. active = opened
        BY <1>2 DEF PageInv, InPlace, Elsewhere, Replaces
    <2> QED
        BY <1>1, <1>2, <1>5, <2>1, TurnsAreNumbers
<1>11. Loaded'
    BY <1>1, <1>2 DEF Loaded, PageInv, TypeOK
<1>12. AnswerStays'
    BY <1>1, <1>2 DEF AnswerStays, PageInv, Rushing
<1> QED
    BY <1>6, <1>7, <1>8, <1>9, <1>10, <1>11, <1>12 DEF PageInv

LEMMA ActKeeps == ASSUME TypeOK, PageInv, Act, ~Ask PROVE PageInv'
<1>1. PICK n \in Turn :
        /\ n = sent + 1 /\ sent' = n /\ asking' = n
        /\ \A j \in Turn : j >= n => turn[j].kind = "none" /\ turn[j].ear = "none"
                                      /\ turn[j].fate = "none"
        /\ \A j \in Turn \ {n} :
             /\ Same(j) /\ turn'[j].fate = turn[j].fate /\ turn'[j].thread = turn[j].thread
             /\ turn'[j].ear = turn[j].ear
             /\ turn'[j].aborted <=> turn[j].aborted
        /\ turn'[n].thread = active /\ turn'[n].from = opened /\ turn'[n].fate = "sent"
        /\ turn'[n].aborted = FALSE /\ turn'[n].kind = "act" /\ turn'[n].ear = "none"
    BY TurnAfterOthers
<1>2. /\ thinking = 0 /\ thinking' = n
      /\ UNCHANGED <<active, opened, history, load, copy, due, controller, answer, streaming>>
      /\ excuses \subseteq excuses'
      /\ Rushing => "rushed" \in excuses'
      /\ (\E k \in Turn : Awaited(k)) => "crossed" \in excuses'
    BY <1>1 DEF Act, Busy, TypeOK
<1>3. \A j \in Turn : /\ Live(j)' => Live(j)
                      /\ Awaited(j)' => Awaited(j)
    BY <1>1 DEF Live, Awaited
<1>4. \A j \in Turn : Awaited(j) => Live(j)
    BY DEF Live, Awaited
<1>6. SentInOrder'
    BY <1>1, TurnsAreNumbers DEF SentInOrder, PageInv, Live, Same
<1>7. Controlled'
    BY <1>1, <1>2, <1>3, TurnsAreNumbers DEF Controlled, LastAsked, PageInv, Live, Same, TypeOK
<1>8. OneUnderWay'
    BY <1>1, <1>2, <1>3, <1>4 DEF OneUnderWay, PageInv, Rushing
<1>9. ViewKept'
    BY <1>1, <1>2, <1>3, <1>4, TurnsAreNumbers DEF ViewKept, PageInv, TypeOK, Rushing
<1>10. InPlace'
    <2> SUFFICES ASSUME excuses' \cap {"strayed", "crossed", "abandoned"} = {}
                 PROVE  /\ \A k \in Turn : ~Awaited(k)'
                        /\ \A k \in Turn : thinking' = k =>
                             /\ turn'[k].from = opened'
                             /\ turn'[k].thread = opened'
                        /\ active' = opened'
        BY <1>2 DEF InPlace
    <2>1. \A k \in Turn : ~Awaited(k)
        BY <1>2
    <2>2. active = opened
        BY <1>2, <2>1, TurnsAreNumbers DEF PageInv, InPlace, Elsewhere, TypeOK
    <2> QED
        BY <1>1, <1>2, <1>3, <2>1, <2>2, TurnsAreNumbers
<1>11. Loaded'
    BY <1>1, <1>2 DEF Loaded, PageInv, TypeOK
<1>12. AnswerStays'
    BY <1>1, <1>2 DEF AnswerStays, PageInv, Rushing
<1> QED
    BY <1>6, <1>7, <1>8, <1>9, <1>10, <1>11, <1>12 DEF PageInv

\* The user stops the answer, or leaves the view: the controller aborts.
LEMMA CancelKeeps == ASSUME TypeOK, PageInv, Cancel PROVE PageInv'
<1>1. \A j \in Turn :
        /\ Same(j) /\ turn'[j].fate = turn[j].fate /\ turn'[j].thread = turn[j].thread
        /\ turn'[j].ear = turn[j].ear
        /\ turn'[j].aborted <=> turn[j].aborted \/ j = controller
    BY ControllerAborts DEF Cancel, Same
<1>2. /\ controller' = 0
      /\ UNCHANGED <<sent, asking, answer, thinking, active, opened, history, load, copy,
                     opens, due>>
      /\ excuses \subseteq excuses'
      /\ Replaces => "abandoned" \in excuses'
    BY DEF Cancel, Excuse
<1>3. \A j \in Turn : ~Awaited(j)' /\ (Live(j)' => Live(j) /\ turn'[j].aborted)
    BY <1>1 DEF PageInv, Controlled, Live, Awaited
<1>4. SentInOrder'
    BY <1>1, <1>2 DEF SentInOrder, PageInv, Live, Same
<1>5. Controlled'
    BY <1>1, <1>2, <1>3, TurnsAreNumbers DEF Controlled, LastAsked, PageInv, Same, TypeOK
<1>6. OneUnderWay'
    BY <1>1, <1>2, <1>3 DEF OneUnderWay, PageInv
<1>7. ViewKept'
    BY <1>1, <1>2, <1>3, TurnsAreNumbers DEF ViewKept, PageInv, TypeOK, Same
<1>8. InPlace'
    <2>1. excuses' \cap {"strayed", "crossed", "abandoned"} = {} => active = opened
        BY <1>2 DEF PageInv, InPlace, Elsewhere, Replaces
    <2> QED
        BY <1>1, <1>2, <1>3, <2>1 DEF InPlace, PageInv, Same
<1>9. Loaded'
    BY <1>1, <1>2 DEF Loaded, PageInv, TypeOK
<1>10. AnswerStays'
    BY <1>1, <1>2 DEF AnswerStays, PageInv, TypeOK, Same
<1> QED
    BY <1>4, <1>5, <1>6, <1>7, <1>8, <1>9, <1>10 DEF PageInv

LEMMA OpenKeeps == ASSUME TypeOK, PageInv, NEW t \in Thread, Open(t) PROVE PageInv'
<1>1. \A j \in Turn :
        /\ Same(j) /\ turn'[j].fate = turn[j].fate /\ turn'[j].thread = turn[j].thread
        /\ turn'[j].ear = turn[j].ear
        /\ turn'[j].aborted <=> turn[j].aborted \/ j = controller
    BY ControllerAborts DEF Open, Same
<1>2. /\ controller' = 0 /\ answer' = NoAnswer /\ active' = t /\ opened' = t /\ due' = {}
      /\ IF t = opened THEN UNCHANGED <<load, copy>> ELSE load' = "sent" /\ copy' = {}
      /\ UNCHANGED <<sent, thinking, history>>
      /\ excuses \subseteq excuses'
      /\ thinking # 0 => "strayed" \in excuses'
    BY DEF Open, Excuse
<1>3. \A j \in Turn : ~Awaited(j)' /\ (Live(j)' => Live(j) /\ turn'[j].aborted)
    BY <1>1 DEF PageInv, Controlled, Live, Awaited
<1>4. SentInOrder'
    BY <1>1, <1>2 DEF SentInOrder, PageInv, Live, Same
<1>5. Controlled'
    BY <1>1, <1>2, <1>3, TurnsAreNumbers
    DEF Controlled, LastAsked, PageInv, Same, TypeOK, NoAnswer
<1>6. OneUnderWay'
    BY <1>1, <1>2, <1>3 DEF OneUnderWay, PageInv
<1>7. ViewKept'
    BY <1>2, <1>3 DEF ViewKept
<1>8. InPlace'
    BY <1>2, <1>3, TurnsAreNumbers DEF InPlace
<1>9. Loaded'
    BY <1>1, <1>2 DEF Loaded, PageInv, TypeOK
<1>10. AnswerStays'
    BY <1>2 DEF AnswerStays
<1> QED
    BY <1>4, <1>5, <1>6, <1>7, <1>8, <1>9, <1>10 DEF PageInv

\* What the server decides changes no turn that was saved, and no stream.
LEMMA FateKeeps == ASSUME TypeOK, PageInv, NEW k \in Turn, Resolves(k) \/ Settles(k) PROVE PageInv'
<1>1. /\ turn[k].fate \in {"sent", "begun"}
      /\ \A j \in Turn :
            /\ Same(j) /\ turn'[j].aborted = turn[j].aborted /\ turn'[j].ear = turn[j].ear
            /\ j # k => turn'[j].fate = turn[j].fate /\ turn'[j].thread = turn[j].thread
      /\ turn'[k].fate \in {"begun", "saved", "lost", "refused"}
      /\ turn'[k].thread = turn[k].thread \/ (turn[k].thread = 0 /\ turn'[k].thread = k)
      /\ turn'[k].fate \in {"begun", "saved", "lost"} =>
            turn'[k].thread # 0 \/ turn[k].fate = "begun"
    BY FateMoves
<1>2. /\ UNCHANGED sent
      /\ UNCHANGED <<asking, answer, streaming, controller, thinking, active, opened, history, load,
                     copy, opens, due, excuses>>
    BY DEF Resolves, Settles, pageVars
<1>3. \A j \in Turn : (Live(j)' <=> Live(j)) /\ (Awaited(j)' <=> Awaited(j))
    BY <1>1 DEF Live, Awaited
<1>4. SentInOrder'
    BY <1>1, <1>2, <1>3 DEF SentInOrder, PageInv, Same
<1>5. Controlled'
    <2>1. /\ \A j \in Turn : turn'[j].kind = turn[j].kind /\ turn'[j].aborted = turn[j].aborted
          /\ \A j : LastAsked(j)' <=> LastAsked(j)
        BY <1>1, <1>2 DEF Same, LastAsked
    <2>2. /\ Controlled
          /\ controller # 0 => controller \in Turn
          /\ thinking # 0 => thinking \in Turn
        BY TurnsAreNumbers DEF PageInv, TypeOK
    <2>3. \A j \in Turn : Live(j)' /\ ~turn'[j].aborted => controller' = j
        BY <1>2, <1>3, <2>1, <2>2 DEF Controlled
    <2>4. controller # 0 => turn'[controller].kind = "ask" /\ LastAsked(controller)'
        BY <1>2, <2>1, <2>2 DEF Controlled
    <2>5. \A j \in answer'.text : LastAsked(j)'
        BY <1>2, <2>1, <2>2 DEF Controlled
    <2>6. thinking' # 0 => turn'[thinking'].kind = "act"
        BY <1>2, <2>1, <2>2 DEF Controlled
    <2> QED
        BY <1>2, <2>3, <2>4, <2>5, <2>6 DEF Controlled
<1>6. OneUnderWay'
    BY <1>2, <1>3 DEF OneUnderWay, PageInv
<1>7. ViewKept'
    BY <1>1, <1>2, <1>3, TurnsAreNumbers DEF ViewKept, PageInv, TypeOK, Same
<1>8. InPlace'
    <2>1. Elsewhere => Elsewhere'
        BY <1>1, <1>2, <1>3, TurnsAreNumbers DEF Elsewhere, Abandons, TypeOK
    <2> QED
        BY <1>1, <1>2, <1>3, <2>1, TurnsAreNumbers DEF InPlace, PageInv, Same
<1>9. Loaded'
    BY <1>1, <1>2 DEF Loaded, PageInv, TypeOK
<1>10. AnswerStays'
    BY <1>1, <1>2 DEF AnswerStays, PageInv, TypeOK, Same
<1> QED
    BY <1>4, <1>5, <1>6, <1>7, <1>8, <1>9, <1>10 DEF PageInv

LEMMA MetaKeeps == ASSUME TypeOK, PageInv, NEW k \in Turn, Meta(k) PROVE PageInv'
<1>1. \A j \in Turn : /\ Same(j) /\ turn'[j].aborted = turn[j].aborted
                      /\ turn'[j].fate = turn[j].fate /\ turn'[j].thread = turn[j].thread
                      /\ turn'[j].ear = IF j = k THEN "reading" ELSE turn[j].ear
    BY EarMoves DEF Meta
<1>2. /\ turn[k].ear = "opening" /\ ~turn[k].aborted /\ active' = turn[k].thread
      /\ UNCHANGED <<sent, asking, answer, streaming, controller, thinking, opened, history, load,
                     copy, opens, due, excuses>>
    BY DEF Meta, Hears
<1>3. \A j \in Turn : (Live(j)' <=> Live(j)) /\ (Awaited(j)' <=> Awaited(j))
    BY <1>1, <1>2 DEF Live, Awaited
<1>4. SentInOrder'
    BY <1>1, <1>2, <1>3 DEF SentInOrder, PageInv, Same, Live
<1>5. Controlled'
    <2>1. /\ \A j \in Turn : turn'[j].kind = turn[j].kind /\ turn'[j].aborted = turn[j].aborted
          /\ \A j : LastAsked(j)' <=> LastAsked(j)
        BY <1>1, <1>2 DEF Same, LastAsked
    <2>2. /\ Controlled
          /\ controller # 0 => controller \in Turn
          /\ thinking # 0 => thinking \in Turn
        BY TurnsAreNumbers DEF PageInv, TypeOK
    <2>3. \A j \in Turn : Live(j)' /\ ~turn'[j].aborted => controller' = j
        BY <1>2, <1>3, <2>1, <2>2 DEF Controlled
    <2>4. controller # 0 => turn'[controller].kind = "ask" /\ LastAsked(controller)'
        BY <1>2, <2>1, <2>2 DEF Controlled
    <2>5. \A j \in answer'.text : LastAsked(j)'
        BY <1>2, <2>1, <2>2 DEF Controlled
    <2>6. thinking' # 0 => turn'[thinking'].kind = "act"
        BY <1>2, <2>1, <2>2 DEF Controlled
    <2> QED
        BY <1>2, <2>3, <2>4, <2>5, <2>6 DEF Controlled
<1>6. OneUnderWay'
    BY <1>2, <1>3 DEF OneUnderWay, PageInv
<1>7. ViewKept'
    <2>1. \A j \in Turn : /\ turn'[j].from = turn[j].from /\ turn'[j].fate = turn[j].fate
                           /\ turn'[j].thread = turn[j].thread
        BY <1>1 DEF Same
    <2>2. /\ ViewKept
          /\ thinking # 0 => thinking \in Turn
          /\ due \subseteq Turn
        BY TurnsAreNumbers DEF PageInv, TypeOK
    <2> SUFFICES ASSUME excuses \cap {"rushed", "strayed"} = {} PROVE ViewKept'
        BY <1>2 DEF ViewKept
    <2>3. thinking' # 0 => /\ opened' = turn'[thinking'].from
                          /\ asking' = thinking' /\ load' = "none" /\ due' \subseteq history'
        BY <1>2, <2>1, <2>2 DEF ViewKept
    <2>4. \A j \in Turn : Awaited(j)' => opened' = turn'[j].from
        BY <1>2, <1>3, <2>1, <2>2 DEF ViewKept
    <2>5. \A j \in due' : turn'[j].fate = "saved" /\ turn'[j].thread = opened'
        BY <1>2, <2>1, <2>2 DEF ViewKept
    <2>6. load' = "read" => due' \subseteq copy'
        BY <1>2, <2>2 DEF ViewKept
    <2> QED
        BY <1>2, <2>3, <2>4, <2>5, <2>6 DEF ViewKept
<1>8. InPlace'
    <2>1. Awaited(k) /\ controller = k
        BY <1>2 DEF Awaited, PageInv, Controlled, Live
    <2> SUFFICES ASSUME excuses \cap {"strayed", "crossed", "abandoned"} = {}
                 PROVE  active' = opened \/ Elsewhere'
        BY <1>1, <1>2, <1>3 DEF InPlace, PageInv, Same
    <2>2. turn[k].thread = opened \/ turn[k].thread = k
        BY <2>1 DEF InPlace, PageInv
    <2> QED
        BY <1>1, <1>2, <1>3, <2>1, <2>2, TurnsAreNumbers DEF Elsewhere, Abandons
<1>9. Loaded'
    BY <1>1, <1>2 DEF Loaded, PageInv, TypeOK
<1>10. AnswerStays'
    BY <1>1, <1>2 DEF AnswerStays, PageInv, TypeOK, Same
<1> QED
    BY <1>4, <1>5, <1>6, <1>7, <1>8, <1>9, <1>10 DEF PageInv

LEMMA TokenKeeps == ASSUME TypeOK, PageInv, NEW k \in Turn, Token(k) PROVE PageInv'
<1>1. /\ Live(k) /\ ~turn[k].aborted
      /\ answer'.shown = answer.shown /\ answer'.done = answer.done
      /\ answer'.text \subseteq answer.text \cup {k}
      /\ UNCHANGED <<turn, sent, asking, streaming, controller, thinking, active, opened, history,
                     load, copy, opens, due, excuses>>
    BY DEF Token, Hears, Live, TypeOK
<1>2. LastAsked(k)
    BY <1>1, TurnsAreNumbers DEF PageInv, Controlled
<1>3. Controlled'
    BY <1>1, <1>2 DEF PageInv, Controlled, LastAsked, Live
<1>4. SentInOrder' /\ OneUnderWay' /\ ViewKept' /\ Loaded'
    BY <1>1 DEF PageInv, SentInOrder, OneUnderWay, ViewKept, Loaded, Live, Awaited
<1>5. InPlace'
    BY <1>1 DEF PageInv, InPlace, Elsewhere, Awaited, Abandons
<1>6. AnswerStays'
    BY <1>1 DEF PageInv, AnswerStays
<1> QED
    BY <1>3, <1>4, <1>5, <1>6 DEF PageInv

\* A turn that is settled in the view it was sent from becomes due there, and
\* leaves the page where its thread is.
LEMMA SettledView ==
    ASSUME TypeOK, PageInv, NEW k \in Turn, Settled(k), turn[k].fate = "saved",
           opened = turn[k].from
    PROVE  /\ \A j \in due' : j \in due \/ j = k
           /\ (\A j \in due : turn[j].fate = "saved" /\ turn[j].thread = opened)
                => \A j \in due' : turn[j].fate = "saved" /\ turn[j].thread = opened'
           /\ (turn[k].thread = opened \/ (opened = 0 /\ turn[k].thread = k)) => active' = opened'
<1>1. turn[k].thread # 0 /\ \A j \in Turn : turn[j].fate = "saved" => turn[j].thread # 0
    BY DEF PageInv, SentInOrder
<1> QED
    BY <1>1, TurnsAreNumbers DEF Settled, TypeOK

\* The load that a settled turn starts, or leaves alone, is of the view it is in.
LEMMA SettledLoads ==
    ASSUME TypeOK, PageInv, NEW k \in Turn, Settled(k), UNCHANGED <<history, excuses>>,
           \A j \in Turn : turn'[j].fate = turn[j].fate /\ turn'[j].thread = turn[j].thread
    PROVE  Loaded'
<1>1. CASE load' = "sent" /\ copy' = {}
    BY <1>1 DEF PageInv, Loaded, TypeOK
<1>2. CASE UNCHANGED <<load, copy, opened>>
    BY <1>2 DEF PageInv, Loaded, TypeOK
<1> QED
    BY <1>1, <1>2 DEF Settled

LEMMA DoneKeeps == ASSUME TypeOK, PageInv, NEW k \in Turn, Done(k) PROVE PageInv'
<1>1. \A j \in Turn : /\ Same(j) /\ turn'[j].aborted = turn[j].aborted
                      /\ turn'[j].fate = turn[j].fate /\ turn'[j].thread = turn[j].thread
                      /\ turn'[j].ear = IF j = k THEN "finished" ELSE turn[j].ear
    BY EarMoves DEF Done
<1>2. /\ turn[k].ear = "reading" /\ ~turn[k].aborted /\ turn[k].fate = "saved" /\ Settled(k)
      /\ answer'.text = answer.text /\ answer'.done = answer.shown
      /\ UNCHANGED <<sent, asking, controller, thinking, history, opens, excuses>>
    BY DEF Done, Hears, TypeOK
<1>3. Awaited(k) /\ Live(k) /\ controller = k
    BY <1>2 DEF Awaited, Live, PageInv, Controlled
<1>4. \A j \in Turn : (Live(j)' <=> Live(j)) /\ ~Awaited(j)'
    BY <1>1, <1>2 DEF Live, Awaited, PageInv, Controlled
<1>5. SentInOrder'
    BY <1>1, <1>2, <1>4 DEF SentInOrder, PageInv, Same
<1>6. Controlled'
    BY <1>1, <1>2, <1>4, TurnsAreNumbers DEF Controlled, LastAsked, PageInv, Same, TypeOK
<1>7. OneUnderWay'
    BY <1>2, <1>4 DEF OneUnderWay, PageInv
<1>8. ViewKept'
    <2> SUFFICES ASSUME excuses \cap {"rushed", "strayed"} = {}
                 PROVE  /\ thinking' = 0
                        /\ \A j \in due' : turn'[j].fate = "saved" /\ turn'[j].thread = opened'
                        /\ load' # "read"
        BY <1>2, <1>4 DEF ViewKept
    <2>1. thinking = 0 /\ load = "none"
        BY <1>3 DEF PageInv, OneUnderWay
    <2>2. /\ opened = turn[k].from
          /\ \A j \in due : turn[j].fate = "saved" /\ turn[j].thread = opened
        BY <1>3 DEF PageInv, ViewKept
    <2>3. \A j \in due' : j \in Turn /\ turn[j].fate = "saved" /\ turn[j].thread = opened'
        BY <1>2, <2>2, SettledView DEF TypeOK
    <2>4. load' # "read"
        BY <1>2, <2>1 DEF Settled
    <2> QED
        BY <1>1, <1>2, <2>1, <2>3, <2>4
<1>9. InPlace'
    <2> SUFFICES ASSUME excuses \cap {"strayed", "crossed", "abandoned"} = {}
                 PROVE  thinking' = 0 /\ active' = opened'
        BY <1>2, <1>4, TurnsAreNumbers DEF InPlace
    <2>1. thinking = 0
        BY <1>3 DEF PageInv, InPlace
    <2>2. /\ turn[k].from = opened
          /\ turn[k].thread = opened \/ (opened = 0 /\ turn[k].thread = k)
        BY <1>3 DEF PageInv, InPlace
    <2> QED
        BY <1>2, <2>1, <2>2, SettledView
<1>10. Loaded'
    BY <1>1, <1>2, SettledLoads
<1>11. AnswerStays'
    <2> SUFFICES ASSUME excuses \cap {"rushed", "strayed", "broken"} = {}
                 PROVE  \A j \in due' : j \in history \/ (asking = j /\ answer'.done)
        BY <1>2 DEF AnswerStays
    <2>1. asking = k /\ answer.shown /\ due \subseteq history
        BY <1>3 DEF PageInv, OneUnderWay
    <2> QED
        BY <1>2, <2>1 DEF Settled
<1> QED
    BY <1>5, <1>6, <1>7, <1>8, <1>9, <1>10, <1>11 DEF PageInv

\* A stream that ends without settling anything.
LEMMA EndKeeps ==
    ASSUME TypeOK, PageInv, NEW k \in Turn, Unwinds(k) \/ Closes(k) \/ Breaks(k)
    PROVE  PageInv'
<1>1. \A j \in Turn : /\ Same(j) /\ turn'[j].aborted = turn[j].aborted
                      /\ turn'[j].fate = turn[j].fate /\ turn'[j].thread = turn[j].thread
                      /\ turn'[j].ear = IF j = k THEN "ended" ELSE turn[j].ear
    BY EarMoves DEF Unwinds, Closes, Breaks, Finally
<1>2. /\ Live(k) /\ controller' = IF controller = k THEN 0 ELSE controller
      /\ UNCHANGED <<sent, asking, thinking, active, opened, history, load, copy, opens, due>>
      /\ excuses \subseteq excuses'
    BY DEF Unwinds, Closes, Breaks, Finally, Hears, Live, Excuse
<1>3. answer' = answer \/ (Breaks(k) /\ answer' = NoAnswer)
    BY DEF Unwinds, Closes, Breaks
<1>4. \A j \in Turn : (Live(j)' <=> Live(j) /\ j # k) /\ (Awaited(j)' <=> Awaited(j) /\ j # k)
    BY <1>1 DEF Live, Awaited
<1>5. \A j \in Turn : Awaited(j) => Live(j) /\ controller = j
    BY DEF Live, Awaited, PageInv, Controlled
<1>6. SentInOrder'
    BY <1>1, <1>2, <1>4 DEF SentInOrder, PageInv, Same
<1>7. Controlled'
    <2>1. answer'.text \subseteq answer.text
        BY <1>3 DEF NoAnswer
    <2>2. \A j \in Turn : Live(j)' /\ ~turn'[j].aborted => controller' = j
        BY <1>1, <1>2, <1>4 DEF PageInv, Controlled
    <2>3. \A j \in Turn : LastAsked(j) => LastAsked(j)'
        BY <1>1 DEF LastAsked, Same
    <2>4. controller' # 0 => turn'[controller'].kind = "ask" /\ LastAsked(controller)'
        <3>1. controller' # 0 => controller' = controller /\ controller \in Turn
            BY <1>2, TurnsAreNumbers DEF TypeOK
        <3> QED
            BY <1>1, <2>3, <3>1 DEF PageInv, Controlled, Same
    <2>5. \A j \in answer'.text : LastAsked(j)'
        BY <2>1, <2>3 DEF PageInv, Controlled, TypeOK
    <2>6. thinking' # 0 => turn'[thinking'].kind = "act"
        BY <1>1, <1>2, TurnsAreNumbers DEF PageInv, Controlled, Same, TypeOK
    <2> QED
        BY <2>2, <2>4, <2>5, <2>6 DEF Controlled
<1>8. OneUnderWay'
    BY <1>2, <1>4, <1>5 DEF OneUnderWay, PageInv
<1>9. ViewKept'
    BY <1>1, <1>2, <1>4, TurnsAreNumbers DEF ViewKept, PageInv, TypeOK, Same
<1>10. InPlace'
    <2>1. Elsewhere /\ controller = k => "abandoned" \in excuses'
        BY DEF Elsewhere, Awaited, Abandons, Unwinds, Closes, Breaks, Excuse, Hears
    <2>2. Elsewhere /\ controller # k => Elsewhere'
        BY <1>1, <1>2, <1>4, TurnsAreNumbers DEF Elsewhere, Abandons, TypeOK
    <2> QED
        BY <1>1, <1>2, <1>4, <2>1, <2>2 DEF InPlace, PageInv, Same
<1>11. Loaded'
    BY <1>1, <1>2 DEF Loaded, PageInv, TypeOK
<1>12. AnswerStays'
    <2> SUFFICES ASSUME excuses' \cap {"rushed", "strayed", "broken"} = {}, NEW j \in due
                 PROVE  j \in history \/ (asking = j /\ (turn[j].kind = "ask" => answer'.done))
        BY <1>1, <1>2 DEF AnswerStays, TypeOK, Same
    <2>1. CASE answer' = answer
        BY <1>2, <2>1 DEF PageInv, AnswerStays
    <2>2. CASE Breaks(k)
        <3>1. Awaited(k)
            BY <2>2 DEF Breaks, Live, Awaited
        <3> QED
            BY <1>2, <3>1 DEF PageInv, OneUnderWay
    <2> QED
        BY <1>3, <2>1, <2>2
<1> QED
    BY <1>6, <1>7, <1>8, <1>9, <1>10, <1>11, <1>12 DEF PageInv

LEMMA ActEnds ==
    ASSUME TypeOK, PageInv, NEW k \in Turn, ActAnswered(k) \/ ActFails(k)
    PROVE  PageInv'
<1>1. /\ thinking = k /\ thinking # 0 /\ thinking' = 0
      /\ UNCHANGED <<turn, sent, answer, streaming, controller, history, opens, excuses>>
    BY TurnsAreNumbers DEF ActAnswered, ActFails
<1>2. turn[k].kind = "act"
    BY <1>1 DEF PageInv, Controlled
<1>3. \A j \in Turn : (Live(j)' <=> Live(j)) /\ (Awaited(j)' <=> Awaited(j))
    BY <1>1 DEF Live, Awaited
<1>4. SentInOrder' /\ Controlled'
    BY <1>1 DEF PageInv, SentInOrder, Controlled, LastAsked, Live
<1>5. OneUnderWay'
    <2>1. "rushed" \notin excuses => \A j \in Turn : ~Live(j) /\ ~Awaited(j)
        BY <1>1 DEF PageInv, OneUnderWay, Live, Awaited
    <2> QED
        BY <1>1, <1>3, <2>1 DEF OneUnderWay
<1>6. ASSUME excuses \cap {"rushed", "strayed"} = {}
      PROVE  /\ opened = turn[k].from /\ asking = k /\ load = "none" /\ due \subseteq history
             /\ \A j \in Turn : ~Awaited(j)
             /\ \A j \in due : turn[j].fate = "saved" /\ turn[j].thread = opened
    BY <1>1, <1>6 DEF PageInv, ViewKept, OneUnderWay, Live, Awaited
<1>7. ASSUME excuses \cap {"strayed", "crossed", "abandoned"} = {}
      PROVE  /\ active = opened /\ turn[k].from = opened /\ \A j \in Turn : ~Awaited(j)
             /\ turn[k].thread = opened \/ (opened = 0 /\ turn[k].thread = k)
    BY <1>1, <1>7, TurnsAreNumbers DEF PageInv, InPlace, Elsewhere, TypeOK
<1>8. CASE ActAnswered(k)
    <2>1. turn[k].fate = "saved" /\ Settled(k) /\ UNCHANGED asking
        BY <1>8 DEF ActAnswered
    <2>2. ViewKept'
        <3> SUFFICES ASSUME excuses \cap {"rushed", "strayed"} = {}
                     PROVE  /\ \A j \in due' : turn[j].fate = "saved" /\ turn[j].thread = opened'
                            /\ load' # "read"
            BY <1>1, <1>3, <1>6 DEF ViewKept
        <3> QED
            BY <1>6, <2>1, SettledView DEF Settled
    <2>3. InPlace'
        BY <1>1, <1>3, <1>7, <2>1, SettledView, TurnsAreNumbers DEF InPlace
    <2>4. Loaded'
        BY <1>1, <2>1, SettledLoads
    <2>5. AnswerStays'
        BY <1>1, <1>2, <1>6, <2>1 DEF AnswerStays, Settled
    <2> QED
        BY <1>4, <1>5, <2>2, <2>3, <2>4, <2>5 DEF PageInv
<1>9. CASE ActFails(k)
    <2>1. UNCHANGED <<active, opened, load, copy, due>>
        BY <1>9 DEF ActFails
    <2>2. ViewKept'
        BY <1>1, <1>3, <1>6, <2>1 DEF ViewKept, PageInv
    <2>3. InPlace'
        BY <1>1, <1>3, <1>7, <2>1, TurnsAreNumbers DEF InPlace
    <2>4. Loaded'
        BY <1>1, <2>1 DEF Loaded, PageInv
    <2>5. AnswerStays'
        BY <1>1, <1>6, <2>1 DEF AnswerStays
    <2> QED
        BY <1>4, <1>5, <2>2, <2>3, <2>4, <2>5 DEF PageInv
<1> QED
    BY <1>8, <1>9

\* The history on its way, and a step of nothing.
LEMMA LoadKeeps ==
    ASSUME TypeOK, PageInv, ServerReads \/ Lands \/ LoadFails \/ UNCHANGED vars
    PROVE  PageInv'
<1>1. /\ UNCHANGED <<turn, sent, controller, thinking, active, opened, due>>
      /\ excuses \subseteq excuses'
    BY DEF ServerReads, Lands, LoadFails, Excuse, vars, pageVars
<1>2. \A j \in Turn : (Live(j)' <=> Live(j)) /\ (Awaited(j)' <=> Awaited(j))
    BY <1>1 DEF Live, Awaited
<1>3. SentInOrder'
    BY <1>1 DEF PageInv, SentInOrder, Live
<1>4. Controlled'
    <2>1. answer' = answer \/ answer' = NoAnswer
        BY DEF ServerReads, Lands, LoadFails, vars, pageVars
    <2>2. answer'.text \subseteq answer.text
        BY <2>1 DEF NoAnswer
    <2> QED
        BY <1>1, <2>2 DEF PageInv, Controlled, LastAsked, Live
<1>5. InPlace'
    <2>1. Elsewhere' <=> Elsewhere
        BY <1>1 DEF Elsewhere, Abandons, Awaited
    <2> QED
        BY <1>1, <1>2, <2>1 DEF PageInv, InPlace
<1>6. CASE ServerReads
    <2>1. /\ load = "sent" /\ load' = "read" /\ copy' = HistoryOf(opened)
          /\ UNCHANGED <<asking, answer, streaming, history, excuses>>
        BY <1>6 DEF ServerReads
    <2>2. OneUnderWay'
        BY <1>1, <1>2, <2>1 DEF PageInv, OneUnderWay
    <2>3. ViewKept'
        BY <1>1, <1>2, <2>1 DEF PageInv, ViewKept, HistoryOf, TypeOK
    <2>4. Loaded'
        BY <1>1, <2>1 DEF PageInv, Loaded, HistoryOf
    <2>5. AnswerStays'
        BY <1>1, <2>1 DEF PageInv, AnswerStays
    <2> QED
        BY <1>3, <1>4, <1>5, <2>2, <2>3, <2>4, <2>5 DEF PageInv
<1>7. CASE Lands
    <2>1. /\ load = "read" /\ load' = "none" /\ copy' = {} /\ history' = copy
          /\ asking' = 0 /\ UNCHANGED excuses
        BY <1>7 DEF Lands
    <2>2. OneUnderWay'
        BY <1>1, <1>2, <2>1 DEF PageInv, OneUnderWay
    <2>3. ViewKept'
        BY <1>1, <1>2, <2>1 DEF PageInv, ViewKept
    <2>4. Loaded'
        BY <1>1, <2>1 DEF PageInv, Loaded
    <2>5. AnswerStays'
        BY <1>1, <2>1 DEF PageInv, AnswerStays, ViewKept
    <2> QED
        BY <1>3, <1>4, <1>5, <2>2, <2>3, <2>4, <2>5 DEF PageInv
<1>8. CASE LoadFails
    <2>1. /\ load' = "none" /\ copy' = {} /\ "unloaded" \in excuses'
          /\ UNCHANGED <<asking, answer, streaming, history>>
        BY <1>8 DEF LoadFails, Excuse
    <2>2. OneUnderWay'
        BY <1>1, <1>2, <2>1 DEF PageInv, OneUnderWay
    <2>3. ViewKept'
        BY <1>1, <1>2, <2>1 DEF PageInv, ViewKept
    <2>4. Loaded'
        BY <1>1, <2>1 DEF PageInv, Loaded
    <2>5. AnswerStays'
        BY <1>1, <2>1 DEF PageInv, AnswerStays
    <2> QED
        BY <1>3, <1>4, <1>5, <2>2, <2>3, <2>4, <2>5 DEF PageInv
<1>9. CASE UNCHANGED vars
    <2>1. /\ UNCHANGED pageVars
          /\ UNCHANGED <<asking, answer, streaming, history, load, copy, excuses>>
        BY <1>9 DEF vars, pageVars
    <2>2. OneUnderWay'
        BY <1>1, <1>2, <2>1 DEF PageInv, OneUnderWay
    <2>3. ViewKept'
        BY <1>1, <1>2, <2>1 DEF PageInv, ViewKept
    <2>4. Loaded'
        BY <1>1, <2>1 DEF PageInv, Loaded
    <2>5. AnswerStays'
        BY <1>1, <2>1 DEF PageInv, AnswerStays
    <2> QED
        BY <1>3, <1>4, <1>5, <2>2, <2>3, <2>4, <2>5 DEF PageInv
<1> QED
    BY <1>6, <1>7, <1>8, <1>9

LEMMA PageInvStarts == Init => PageInv
<1> SUFFICES ASSUME Init PROVE PageInv
    OBVIOUS
<1>1. /\ \A k \in Turn : turn[k].kind = "none" /\ turn[k].fate = "none" /\ turn[k].ear = "none"
      /\ answer.text = {}
      /\ controller = 0 /\ thinking = 0 /\ active = 0 /\ opened = 0
      /\ history = {} /\ copy = {} /\ due = {} /\ load = "none"
    BY DEF Init, Unsent, NoAnswer
<1>2. \A k \in Turn : ~Live(k) /\ ~Awaited(k) /\ k # 0
    BY <1>1, TurnsAreNumbers DEF Live, Awaited
<1> QED
    BY <1>1, <1>2 DEF PageInv, SentInOrder, Controlled, OneUnderWay, ViewKept, InPlace, Loaded,
                      AnswerStays

LEMMA PageInvKeeps == TypeOK /\ PageInv /\ [Next]_vars => PageInv'
<1> SUFFICES ASSUME TypeOK, PageInv, [Next]_vars PROVE PageInv'
    OBVIOUS
<1>1. CASE Ask \/ Act
    BY <1>1, AskKeeps, ActKeeps
<1>2. CASE Cancel
    BY <1>2, CancelKeeps
<1>3. ASSUME NEW t \in Thread, Open(t) PROVE PageInv'
    BY <1>3, OpenKeeps
<1>4. ASSUME NEW k \in Turn, Resolves(k) \/ Settles(k) PROVE PageInv'
    BY <1>4, FateKeeps
<1>5. ASSUME NEW k \in Turn, Meta(k) PROVE PageInv'
    BY <1>5, MetaKeeps
<1>6. ASSUME NEW k \in Turn, Token(k) PROVE PageInv'
    BY <1>6, TokenKeeps
<1>7. ASSUME NEW k \in Turn, Done(k) PROVE PageInv'
    BY <1>7, DoneKeeps
<1>8. ASSUME NEW k \in Turn, Unwinds(k) \/ Closes(k) \/ Breaks(k) PROVE PageInv'
    BY <1>8, EndKeeps
<1>9. ASSUME NEW k \in Turn, ActAnswered(k) \/ ActFails(k) PROVE PageInv'
    BY <1>9, ActEnds
<1>10. CASE ServerReads \/ Lands \/ LoadFails \/ UNCHANGED vars
    BY <1>10, LoadKeeps
<1> QED
    BY <1>1, <1>2, <1>3, <1>4, <1>5, <1>6, <1>7, <1>8, <1>9, <1>10 DEF Next

LEMMA PageStaysSound == Spec => [](TypeOK /\ PageInv)
<1>1. Init => TypeOK /\ PageInv
    BY PageTypeStarts, PageInvStarts
<1>2. TypeOK /\ PageInv /\ [Next]_vars => (TypeOK /\ PageInv)'
    BY PageTypeKeeps, PageInvKeeps
<1> QED
    BY <1>1, <1>2, PTL DEF Spec

\* The effect that clears question and answer when a history lands never wipes a
\* finished turn before the page has the server's copy of it.
THEOREM TheAnswerStays == Spec => []AnswerStays
<1>1. PageInv => AnswerStays
    BY DEF PageInv
<1> QED
    BY <1>1, PageStaysSound, PTL

\* Whatever streams a user stops or replaces, only the last one is read into the
\* answer, and it can be stopped for as long as it is (useChatStream).
THEOREM AnswersComeOneAtATime == Spec => []OneAnswerAtATime
<1>1. PageInv => OneAnswerAtATime
    BY DEF PageInv, Controlled, OneUnderWay, OneAnswerAtATime, LastAsked
<1> QED
    BY <1>1, PageStaysSound, PTL

\* The thread the next message goes to and the one on the screen part only while
\* the answer that makes the thread is read (ChatPage, settle).
THEOREM MessagesGoWhereShown == Spec => []SendsWhereItShows
<1>1. TypeOK /\ PageInv => SendsWhereItShows
    <2> SUFFICES ASSUME TypeOK, PageInv, AtRest,
                        excuses \cap {"strayed", "crossed", "abandoned", "unloaded"} = {}
                 PROVE  active = opened /\ \A k \in history : turn[k].thread = opened
        BY DEF SendsWhereItShows
    <2>1. ~Elsewhere
        BY TurnsAreNumbers DEF Elsewhere, AtRest, Awaited, Live, TypeOK
    <2> QED
        BY <2>1 DEF PageInv, InPlace, Loaded, AtRest
<1> QED
    BY <1>1, PageStaysSound, PTL

-------------------------------------------------------------------------------
(* Places in a finite order, which the pieces of a paragraph and the ranking   *)
(* of the fusion are numbered by, and the lemmas both proofs need.             *)

\* Counting what comes before it gives every element of a finite order its
\* place, from 0 on and without a gap.
Under(S, R, i) == {j \in S : <<j, i>> \in R}
Rank(S, R, i) == Cardinality(Under(S, R, i))

Linear(S, R) ==
    /\ \A i \in S : <<i, i>> \notin R
    /\ \A i, j \in S : i # j => <<i, j>> \in R \/ <<j, i>> \in R
    /\ \A i, j, k \in S : <<i, j>> \in R /\ <<j, k>> \in R => <<i, k>> \in R

LEMMA Ranks ==
    ASSUME NEW S, IsFiniteSet(S), NEW R, Linear(S, R)
    PROVE  /\ \A i \in S : Rank(S, R, i) \in 0..(Cardinality(S) - 1)
           /\ \A i, j \in S : <<i, j>> \in R => Rank(S, R, i) < Rank(S, R, j)
           /\ \A i, j \in S : Rank(S, R, i) = Rank(S, R, j) => i = j
           /\ \A n \in 0..(Cardinality(S) - 1) : \E i \in S : Rank(S, R, i) = n
<1>. DEFINE below(i) == Under(S, R, i)
            rank(i) == Rank(S, R, i)
            last == Cardinality(S) - 1
            f == [i \in S |-> rank(i)]
<1>1. Cardinality(S) \in Nat
  BY FS_CardinalityType
<1>2. ASSUME NEW i \in S
      PROVE  IsFiniteSet(below(i)) /\ rank(i) \in Nat /\ rank(i) \in 0..last
  <2>1. below(i) \in SUBSET (S \ {i})
    BY DEF Under, Linear
  <2>2. IsFiniteSet(S \ {i}) /\ Cardinality(S \ {i}) = Cardinality(S) - 1
    BY FS_RemoveElement
  <2>. HIDE DEF below
  <2>3. IsFiniteSet(below(i)) /\ Cardinality(below(i)) <= Cardinality(S) - 1
    BY <2>1, <2>2, FS_Subset
  <2>4. Cardinality(below(i)) \in Nat
    BY <2>3, FS_CardinalityType
  <2>. QED
    BY <1>1, <2>3, <2>4 DEF Rank, below
<1>3. ASSUME NEW i \in S, NEW j \in S, <<i, j>> \in R
      PROVE  rank(i) < rank(j)
  <2>1. below(i) \in SUBSET below(j) /\ i \in below(j) /\ i \notin below(i)
    BY <1>3 DEF Under, Linear
  <2>2. IsFiniteSet(below(j)) /\ rank(i) \in Nat /\ rank(j) \in Nat
    BY <1>2
  <2>. HIDE DEF below
  <2>3. rank(i) <= rank(j) /\ rank(i) # rank(j)
    BY <2>1, <2>2, FS_Subset DEF Rank, below
  <2>. QED
    BY <2>2, <2>3
<1>4. ASSUME NEW i \in S, NEW j \in S, rank(i) = rank(j)
      PROVE  i = j
  <2>1. rank(i) \in Nat /\ rank(j) \in Nat
    BY <1>2
  <2>. HIDE DEF rank
  <2>2. ~(<<i, j>> \in R) /\ ~(<<j, i>> \in R)
    BY <1>3, <1>4, <2>1
  <2>. QED
    BY <2>2 DEF Linear
<1>. HIDE DEF rank
<1>5. f \in Injection(S, 0..last)
  BY <1>2, <1>4 DEF Injection, IsInjective
<1>6. IsFiniteSet(0..last) /\ Cardinality(0..last) = Cardinality(S)
  <2>1. 0 \in Int /\ last \in Int
    BY <1>1
  <2>2. IsFiniteSet(0..last) /\ Cardinality(0..last) = IF 0 > last THEN 0 ELSE last - 0 + 1
    BY <2>1, FS_Interval
  <2>. QED
    BY <1>1, <2>2
<1>7. f \in Surjection(S, 0..last)
  BY <1>5, <1>6, FS_Injection
<1>8. \A n \in 0..last : \E i \in S : rank(i) = n
  BY <1>7 DEF Surjection
<1>. QED
  BY <1>2, <1>3, <1>4, <1>8 DEF rank

\* A finite set of numbers, not empty, has a first and a last.
LEMMA FirstAndLast ==
    ASSUME NEW T, IsFiniteSet(T), T # {}, \A i \in T : i \in Nat
    PROVE  /\ \E i \in T : \A j \in T : i <= j
           /\ \E i \in T : \A j \in T : j <= i
<1>. DEFINE R == {e \in T \X T : e[1] < e[2]}
            c == Cardinality(T)
<1>1. c \in Nat /\ c # 0
  BY FS_CardinalityType, FS_EmptySet
<1>2. \A i, j \in T : <<i, j>> \in R <=> i < j
  OBVIOUS
<1>3. Linear(T, R)
  BY <1>2 DEF Linear
<1>. HIDE DEF R
<1>4. /\ \A i \in T : Rank(T, R, i) \in 0..(c - 1)
      /\ \A i, j \in T : <<i, j>> \in R => Rank(T, R, i) < Rank(T, R, j)
      /\ \A k \in 0..(c - 1) : \E i \in T : Rank(T, R, i) = k
  BY <1>3, Ranks
<1>. HIDE DEF c
<1>5. 0 \in 0..(c - 1) /\ c - 1 \in 0..(c - 1)
  BY <1>1
<1>6. PICK i \in T : Rank(T, R, i) = 0
  BY <1>4, <1>5
<1>7. PICK k \in T : Rank(T, R, k) = c - 1
  BY <1>4, <1>5
<1>8. \A j \in T : i <= j /\ j <= k
  <2>. TAKE j \in T
  <2>1. Rank(T, R, j) \in 0..(c - 1)
    BY <1>4
  <2>2. ~(<<j, i>> \in R) /\ ~(<<k, j>> \in R)
    BY <1>1, <1>4, <1>6, <1>7, <2>1
  <2>. QED
    BY <1>2, <2>2
<1>. QED
  BY <1>8

LEMMA Product ==
    ASSUME NEW a \in Nat, NEW b \in Nat
    PROVE  a * b \in Nat /\ a * b = b * a /\ (a > 0 /\ b > 0 => a * b > 0)
  OBVIOUS

LEMMA SequenceOf ==
    ASSUME NEW n \in Nat, NEW S, NEW f \in [1..n -> S]
    PROVE  f \in Seq(S) /\ Len(f) = n
  OBVIOUS

LEMMA PrefixOf ==
    ASSUME NEW S, NEW s \in Seq(S), NEW n \in Nat, n <= Len(s)
    PROVE  Len(SubSeq(s, 1, n)) = n /\ \A i \in 1..n : SubSeq(s, 1, n)[i] = s[i]
  OBVIOUS

LEMMA Cancels ==
    ASSUME NEW a \in Nat, NEW b \in Nat, NEW m \in Nat \ {0}
    PROVE  /\ a * m < b * m <=> a < b
           /\ a * m <= b * m <=> a <= b
<1>1. a <= b => (b - a) \in Nat /\ (b - a) * m \in Nat /\ (b - a) * m = b * m - a * m
  OBVIOUS
<1>2. a > b => (a - b - 1) \in Nat /\ (a - b - 1) * m \in Nat /\ (a - b - 1) * m = a * m - b * m - m
  OBVIOUS
<1>3. a < b => (b - a - 1) \in Nat /\ (b - a - 1) * m \in Nat /\ (b - a - 1) * m = b * m - a * m - m
  OBVIOUS
<1>4. a * m \in Nat /\ b * m \in Nat
  OBVIOUS
<1>. QED
  BY <1>1, <1>2, <1>3, <1>4

-------------------------------------------------------------------------------
(* Splitter: every piece, whether joined, carried over or cut, is a text no   *)
(* longer than a chunk.                                                       *)

\* A slice of a text is a text, no longer than the slice.
LEMMA Slice ==
    ASSUME NEW s \in Seq(Character), NEW a \in Nat \ {0}, NEW b \in Nat, b <= Len(s)
    PROVE  /\ SubSeq(s, a, b) \in Seq(Character)
           /\ Len(SubSeq(s, a, b)) = IF a <= b THEN b - a + 1 ELSE 0
<1>1. CASE a <= b
  BY <1>1
<1>2. CASE a > b
  BY <1>2
<1>. QED
  BY <1>1, <1>2

\* What strip and lstrip leave is no longer than what they were given.
LEMMA StripShortens ==
    ASSUME NEW s \in Seq(Character)
    PROVE  /\ LeftStrip(s) \in Seq(Character) /\ Len(LeftStrip(s)) <= Len(s)
           /\ Strip(s) \in Seq(Character) /\ Len(Strip(s)) <= Len(s)
<1>1. Len(s) \in Nat
  OBVIOUS
<1>2. CASE Ink(s) = {}
  BY <1>1, <1>2 DEF LeftStrip, Strip
<1>3. CASE Ink(s) # {}
  <2>. DEFINE first == CHOOSE i \in Ink(s) : \A j \in Ink(s) : i <= j
              last  == CHOOSE i \in Ink(s) : \A j \in Ink(s) : j <= i
  <2>1. Ink(s) \in SUBSET (1..Len(s))
    BY DEF Ink
  <2>2. /\ \E i \in Ink(s) : \A j \in Ink(s) : i <= j
        /\ \E i \in Ink(s) : \A j \in Ink(s) : j <= i
    <3>1. IsFiniteSet(1..Len(s))
      BY <1>1, FS_Interval
    <3>2. IsFiniteSet(Ink(s)) /\ \A i \in Ink(s) : i \in Nat
      BY <2>1, <3>1, FS_Subset
    <3>. QED
      BY <1>3, <3>2, FirstAndLast
  <2>3. first \in Ink(s) /\ last \in Ink(s)
    BY <2>2
  <2>4. LeftStrip(s) = SubSeq(s, first, Len(s)) /\ Strip(s) = SubSeq(s, first, last)
    BY <1>3 DEF LeftStrip, Strip
  <2>. HIDE DEF first, last
  <2>5. first \in Nat \ {0} /\ last \in Nat /\ last <= Len(s)
    BY <1>1, <2>1, <2>3
  <2>6. /\ SubSeq(s, first, Len(s)) \in Seq(Character) /\ SubSeq(s, first, last) \in Seq(Character)
        /\ Len(SubSeq(s, first, Len(s))) <= Len(s) /\ Len(SubSeq(s, first, last)) <= Len(s)
    BY <1>1, <2>5, Slice
  <2>. QED
    BY <2>4, <2>6
<1>. QED
  BY <1>2, <1>3

LEMMA WrittenIs ==
    ASSUME NEW p \in Paragraph, NEW k \in Nat
    PROVE  Written(k, p) \in Seq(Character) /\ Len(Written(k, p)) = Len(p) /\ Len(p) \in Nat
<1>1. p \in Seq(BOOLEAN)
  BY SplitterAssumption
<1>2. Len(p) \in Nat /\ Written(k, p) \in [1..Len(p) -> Character]
  BY <1>1 DEF Written, Blank, Character
<1>. QED
  BY <1>2

\* The windows of a long paragraph are pieces.
LEMMA WindowsFit ==
    ASSUME NEW s \in Seq(Character), NEW n \in Nat \ {0}
    PROVE  Strip(Window(s, n)) \in Piece
<1>. DEFINE a == (n - 1) * Step + 1
            b == Smaller((n - 1) * Step + Size, Len(s))
<1>1. Size \in Nat /\ Step \in Nat /\ Len(s) \in Nat
  BY SplitterAssumption DEF Step
<1>2. (n - 1) * Step \in Nat
  BY <1>1, Product
<1>3. a \in Nat \ {0} /\ b \in Nat /\ b <= Len(s) /\ b < a + Size
  BY <1>1, <1>2 DEF Smaller
<1>4. Window(s, n) = SubSeq(s, a, b)
  BY DEF Window
<1>. HIDE DEF a, b
<1>5. Window(s, n) \in Seq(Character) /\ Len(Window(s, n)) <= Size
  BY <1>1, <1>3, <1>4, Slice
<1>6. Strip(Window(s, n)) \in Seq(Character) /\ Len(Strip(Window(s, n))) <= Len(Window(s, n))
  BY <1>5, StripShortens
<1>7. Len(Window(s, n)) \in Nat /\ Len(Strip(Window(s, n))) \in Nat
  BY <1>5, <1>6
<1>. QED
  BY <1>1, <1>5, <1>6, <1>7 DEF Piece

LEMMA HardSplitFits ==
    ASSUME NEW s \in Seq(Character)
    PROVE  HardSplit(s) \in Seq(Piece)
<1>. DEFINE T == Kept(s)
            windows == (Len(s) + Step - 1) \div Step
            R == {e \in T \X T : e[1] < e[2]}
            c == Cardinality(T)
            nth(m) == CHOOSE n \in T : Cardinality({k \in T : k < n}) = m - 1
<1>1. Size \in Nat /\ Step \in Nat \ {0} /\ Len(s) \in Nat /\ windows \in Int
  BY SplitterAssumption DEF Step
<1>2. T \in SUBSET (1..windows) /\ IsFiniteSet(T) /\ c \in Nat
  <2>1. T \in SUBSET (1..windows)
    BY DEF Kept
  <2>2. IsFiniteSet(1..windows)
    BY <1>1, FS_Interval
  <2>3. IsFiniteSet(T)
    BY <2>1, <2>2, FS_Subset
  <2>. QED
    BY <2>1, <2>3, FS_CardinalityType
<1>. HIDE DEF T, windows
<1>3. \A i \in T : i \in Nat \ {0}
  BY <1>1, <1>2
<1>4. \A i, j \in T : <<i, j>> \in R <=> i < j
  OBVIOUS
<1>5. Linear(T, R)
  BY <1>3, <1>4 DEF Linear
<1>6. \A n \in T : Cardinality({k \in T : k < n}) = Rank(T, R, n)
  <2>1. \A n \in T : {k \in T : k < n} = {k \in T : <<k, n>> \in R}
    BY <1>4
  <2>. QED
    BY <2>1 DEF Rank, Under
<1>. HIDE DEF R
<1>7. \A k \in 0..(c - 1) : \E i \in T : Rank(T, R, i) = k
  <2>1. IsFiniteSet(T) /\ Cardinality(T) = c
    BY <1>2
  <2>. HIDE DEF c
  <2>. QED
    BY <1>5, <2>1, Ranks
<1>8. ASSUME NEW m \in 1..c PROVE nth(m) \in T
  <2>1. m - 1 \in 0..(c - 1)
    BY <1>2
  <2>2. \E n \in T : Cardinality({k \in T : k < n}) = m - 1
    BY <1>6, <1>7, <2>1
  <2>. QED
    BY <2>2
<1>9. HardSplit(s) = [m \in 1..c |-> Strip(Window(s, nth(m)))]
  BY DEF HardSplit, T
<1>. HIDE DEF nth, c
<1>10. \A m \in 1..c : Strip(Window(s, nth(m))) \in Piece
  BY <1>3, <1>8, WindowsFit
<1>11. HardSplit(s) \in [1..c -> Piece]
  BY <1>9, <1>10
<1>12. c \in Nat
  BY <1>2 DEF c
<1>. QED
  BY <1>11, <1>12

LEMMA PiecesOfPage ==
    ASSUME page \in Nat, NEW pieces \in Seq(Piece)
    PROVE  OnPage(pieces) \in Seq([text : Piece, page_no : Nat])
<1>. DEFINE Chunk == [text : Piece, page_no : Nat]
            last == Len(pieces)
<1>1. last \in Nat /\ \A n \in 1..last : pieces[n] \in Piece
  OBVIOUS
<1>2. OnPage(pieces) \in [1..last -> Chunk]
  BY <1>1 DEF OnPage
<1>. HIDE DEF Chunk, last
<1>3. OnPage(pieces) \in Seq(Chunk)
  BY <1>1, <1>2
<1>. QED
  BY <1>3 DEF Chunk

LEMMA FlushedIs ==
    ASSUME SplitInv
    PROVE  /\ Flushed \in Seq(Piece)
           /\ chunks \o OnPage(Flushed) \in Seq([text : Piece, page_no : Nat])
<1>1. Flushed \in Seq(Piece)
  BY DEF SplitInv, Flushed
<1>2. OnPage(Flushed) \in Seq([text : Piece, page_no : Nat])
  BY <1>1, PiecesOfPage DEF SplitInv
<1>. QED
  BY <1>1, <1>2 DEF SplitInv

LEMMA EmptyPiece == <<>> \in Piece
  BY SplitterAssumption DEF Piece

LEMMA Concatenation ==
    ASSUME NEW S, NEW a \in Seq(S), NEW b \in Seq(S)
    PROVE  a \o b \in Seq(S) /\ Len(a \o b) = Len(a) + Len(b)
  OBVIOUS

\* The join of what fits is a piece.
LEMMA JoinedFits ==
    ASSUME NEW s \in Seq(Character), NEW p \in Paragraph, NEW k \in Nat, Fits(s, p)
    PROVE  Joined(s, Written(k, p)) \in Piece
<1>. DEFINE w == Written(k, p)
            gap == <<Blank, Blank>>
<1>1. w \in Seq(Character) /\ Len(w) = Len(p) /\ Len(p) \in Nat /\ Len(s) \in Nat
  BY WrittenIs
<1>2. gap \in Seq(Character) /\ Len(gap) = 2
  <2>1. Blank \in Character
    BY DEF Blank, Character
  <2>. QED
    BY <2>1
<1>. HIDE DEF w, gap
<1>3. s \o gap \in Seq(Character) /\ Len(s \o gap) = Len(s) + 2
  BY <1>2, Concatenation
<1>4. (s \o gap) \o w \in Seq(Character) /\ Len((s \o gap) \o w) = Len(s) + 2 + Len(p)
  BY <1>1, <1>3, Concatenation
<1>. QED
  BY <1>4 DEF Joined, Piece, Fits, w, gap

\* The tail that is carried over is a text.
LEMMA TailIs ==
    ASSUME NEW s \in Seq(Character)
    PROVE  LeftStrip(LastOf(s, Overlap)) \in Seq(Character)
<1>1. Overlap \in Nat /\ Len(s) \in Nat
  BY SplitterAssumption
<1>2. LastOf(s, Overlap) \in Seq(Character)
  <2>1. CASE Overlap = 0 \/ Overlap > Len(s)
    BY <2>1 DEF LastOf
  <2>2. CASE ~(Overlap = 0 \/ Overlap > Len(s))
    <3>1. Len(s) - Overlap + 1 \in Nat \ {0}
      BY <1>1, <2>2
    <3>. QED
      BY <1>1, <2>2, <3>1, Slice DEF LastOf
  <2>. QED
    BY <2>1, <2>2
<1>. QED
  BY <1>2, StripShortens

LEMMA ReadsKeeps ==
    ASSUME SplitInv, NEW p \in Paragraph, Reads(p)
    PROVE  /\ text' \in Seq([words : Seq(Character), page_no : Nat]) /\ page' \in Nat
           /\ Len(text) + 1 \in Nat
<1>1. /\ text \in Seq([words : Seq(Character), page_no : Nat]) /\ page \in Nat
      /\ Len(text) + 1 \in Nat
  BY DEF SplitInv
<1>2. Written(Len(text) + 1, p) \in Seq(Character)
  BY <1>1, WrittenIs
<1>3. /\ text' = Append(text, [words |-> Written(Len(text) + 1, p), page_no |-> page])
      /\ page' = page
  BY DEF Reads
<1>. DEFINE entry == [words |-> Written(Len(text) + 1, p), page_no |-> page]
            Entry == [words : Seq(Character), page_no : Nat]
<1>4. entry \in Entry
  BY <1>1, <1>2
<1>. HIDE DEF entry, Entry
<1>5. Append(text, entry) \in Seq(Entry)
  BY <1>1, <1>4 DEF Entry
<1>. QED
  BY <1>1, <1>3, <1>5 DEF entry, Entry

LEMMA SplitKeeps == SplitInv /\ [SplitNext]_splitVars => SplitInv'
<1>. SUFFICES ASSUME SplitInv, [SplitNext]_splitVars PROVE SplitInv'
  OBVIOUS
<1>. DEFINE Chunk == [text : Piece, page_no : Nat]
<1>1. ASSUME NEW p \in Paragraph, TakeLong(p) PROVE SplitInv'
  <2>. DEFINE out == Flushed \o HardSplit(Written(Len(text) + 1, p))
  <2>1. /\ Reads(p) /\ current' = <<>> /\ chunks' = chunks \o OnPage(out)
    BY <1>1 DEF TakeLong
  <2>2. /\ text' \in Seq([words : Seq(Character), page_no : Nat]) /\ page' \in Nat
        /\ Len(text) + 1 \in Nat
    BY <2>1, ReadsKeeps
  <2>3. out \in Seq(Piece)
    BY <2>2, WrittenIs, HardSplitFits, FlushedIs
  <2>. HIDE DEF out
  <2>4. OnPage(out) \in Seq(Chunk) /\ chunks \in Seq(Chunk)
    BY <2>3, PiecesOfPage DEF SplitInv
  <2>. HIDE DEF Chunk
  <2>5. chunks' \in Seq(Chunk)
    BY <2>1, <2>4
  <2>. QED
    BY <2>1, <2>2, <2>5, EmptyPiece DEF SplitInv, Chunk
<1>2. ASSUME NEW p \in Paragraph, TakeFitting(p) PROVE SplitInv'
  <2>. DEFINE words == Written(Len(text) + 1, p)
  <2>1. /\ Reads(p) /\ chunks' = chunks /\ Len(p) <= Size
        /\ current = <<>> \/ Fits(current, p)
        /\ current' = IF current = <<>> THEN words ELSE Joined(current, words)
    BY <1>2 DEF TakeFitting
  <2>2. /\ text' \in Seq([words : Seq(Character), page_no : Nat]) /\ page' \in Nat
        /\ Len(text) + 1 \in Nat
    BY <2>1, ReadsKeeps
  <2>3. words \in Piece
    BY <2>1, <2>2, WrittenIs DEF Piece
  <2>4. current # <<>> => Joined(current, words) \in Piece
    BY <2>1, <2>2, JoinedFits DEF SplitInv, Piece
  <2>. QED
    BY <2>1, <2>2, <2>3, <2>4 DEF SplitInv
<1>3. ASSUME NEW p \in Paragraph, TakeNext(p) PROVE SplitInv'
  <2>. DEFINE words == Written(Len(text) + 1, p)
              tail  == LeftStrip(LastOf(current, Overlap))
  <2>1. /\ Reads(p) /\ chunks' = chunks \o OnPage(Flushed) /\ Len(p) <= Size
        /\ current' = IF Fits(tail, p) THEN Joined(tail, words) ELSE words
    BY <1>3 DEF TakeNext
  <2>2. /\ text' \in Seq([words : Seq(Character), page_no : Nat]) /\ page' \in Nat
        /\ Len(text) + 1 \in Nat
    BY <2>1, ReadsKeeps
  <2>3. words \in Piece
    BY <2>1, <2>2, WrittenIs DEF Piece
  <2>4. tail \in Seq(Character)
    BY TailIs DEF SplitInv, Piece
  <2>. HIDE DEF tail
  <2>5. Fits(tail, p) => Joined(tail, words) \in Piece
    BY <2>2, <2>4, JoinedFits
  <2>. HIDE DEF words
  <2>. QED
    BY <2>1, <2>2, <2>3, <2>5, FlushedIs DEF SplitInv
<1>4. ASSUME EndPage PROVE SplitInv'
  BY <1>4, FlushedIs, EmptyPiece DEF SplitInv, EndPage
<1>5. ASSUME EmbedBatch \/ ProviderBusy \/ StoreRows \/ UNCHANGED splitVars PROVE SplitInv'
  <2>1. UNCHANGED <<text, page, current, chunks>>
    BY <1>5 DEF EmbedBatch, ProviderBusy, StoreRows, splitVars
  <2>. QED
    BY <2>1 DEF SplitInv
<1>. QED
  BY <1>1, <1>2, <1>3, <1>4, <1>5 DEF SplitNext

\* No chunk is longer than a chunk may be, whatever the paragraphs, the size and
\* the overlap: the carried tail, the blank lines and the cut windows included.
THEOREM ChunksFit == SplitSpec => []WithinSize
<1>1. SplitInit => SplitInv
  BY EmptyPiece DEF SplitInit, SplitInv
<1>2. SplitInv /\ [SplitNext]_splitVars => SplitInv'
  BY SplitKeeps
<1>3. SplitInv => WithinSize
  <2>. SUFFICES ASSUME SplitInv PROVE WithinSize
    OBVIOUS
  <2>. DEFINE Chunk == [text : Piece, page_no : Nat]
  <2>1. chunks \in Seq(Chunk) /\ \A c \in Chunk : Len(c.text) <= Size
    BY DEF SplitInv, Piece
  <2>. HIDE DEF Chunk
  <2>2. \A n \in 1..Len(chunks) : chunks[n] \in Chunk
    BY <2>1
  <2>. QED
    BY <2>1, <2>2 DEF WithinSize, SplitInv, Piece
<1>. QED
  BY <1>1, <1>2, <1>3, PTL DEF SplitSpec

-------------------------------------------------------------------------------
(* And no run of the text is lost.                                            *)

\* A slice, character by character.
LEMMA SliceOf ==
    ASSUME NEW S, NEW s \in Seq(S), NEW a \in Nat \ {0}, NEW b \in Nat, a <= b, b <= Len(s)
    PROVE  /\ SubSeq(s, a, b) \in Seq(S) /\ Len(SubSeq(s, a, b)) = b - a + 1
           /\ \A m \in 1..(b - a + 1) : SubSeq(s, a, b)[m] = s[a + m - 1]
  OBVIOUS

LEMMA SameText ==
    ASSUME NEW s \in Seq(Character), NEW t \in Seq(Character), Len(s) = Len(t),
           \A m \in 1..Len(t) : s[m] = t[m]
    PROVE  s = t
  OBVIOUS

\* To contain a text is to agree with it from some place on.
LEMMA ContainsIs ==
    ASSUME NEW s \in Seq(Character), NEW t \in Seq(Character), Len(t) > 0
    PROVE  Contains(s, t) <=>
                \E i \in 0..(Len(s) - Len(t)) : \A m \in 1..Len(t) : s[i + m] = t[m]
<1>1. Len(s) \in Nat /\ Len(t) \in Nat
  OBVIOUS
<1>2. ASSUME NEW i \in 0..(Len(s) - Len(t))
      PROVE  SubSeq(s, i + 1, i + Len(t)) = t <=> \A m \in 1..Len(t) : s[i + m] = t[m]
  <2>. DEFINE a == i + 1
              b == i + Len(t)
              u == SubSeq(s, a, b)
  <2>1. a \in Nat \ {0} /\ b \in Nat /\ a <= b /\ b <= Len(s) /\ b - a + 1 = Len(t)
    BY <1>1
  <2>2. \A m \in 1..Len(t) : a + m - 1 = i + m
    BY <1>1
  <2>. HIDE DEF a, b
  <2>3. u \in Seq(Character) /\ Len(u) = Len(t) /\ \A m \in 1..Len(t) : u[m] = s[i + m]
    BY <2>1, <2>2, SliceOf
  <2>. HIDE DEF u
  <2>4. (\A m \in 1..Len(t) : s[i + m] = t[m]) => u = t
    BY <2>3, SameText
  <2>5. u = t => \A m \in 1..Len(t) : s[i + m] = t[m]
    BY <2>3
  <2>. QED
    BY <2>4, <2>5 DEF u, a, b
<1>. QED
  BY <1>2 DEF Contains

\* What is in a part of a text is in the text.
LEMMA ContainsMore ==
    ASSUME NEW s \in Seq(Character), NEW u \in Seq(Character), NEW t \in Seq(Character),
           Len(t) > 0, Contains(s, t), NEW d \in Nat, d + Len(s) <= Len(u),
           \A m \in 1..Len(s) : u[d + m] = s[m]
    PROVE  Contains(u, t)
<1>1. Len(s) \in Nat /\ Len(t) \in Nat /\ Len(u) \in Nat
  OBVIOUS
<1>2. PICK i \in 0..(Len(s) - Len(t)) : \A m \in 1..Len(t) : s[i + m] = t[m]
  BY ContainsIs
<1>3. d + i \in 0..(Len(u) - Len(t))
  BY <1>1
<1>4. \A m \in 1..Len(t) : u[(d + i) + m] = t[m]
  <2>. TAKE m \in 1..Len(t)
  <2>1. i + m \in 1..Len(s) /\ (d + i) + m = d + (i + m)
    BY <1>1
  <2>. QED
    BY <1>2, <2>1
<1>. QED
  BY <1>3, <1>4, ContainsIs

LEMMA ConcatenationIs ==
    ASSUME NEW a \in Seq(Character), NEW b \in Seq(Character)
    PROVE  /\ a \o b \in Seq(Character) /\ Len(a \o b) = Len(a) + Len(b)
           /\ Len(a) \in Nat /\ Len(b) \in Nat
           /\ \A m \in 1..Len(a) : (a \o b)[0 + m] = a[m]
           /\ \A m \in 1..Len(b) : (a \o b)[Len(a) + m] = b[m]
  OBVIOUS

\* The blank line between two pieces takes nothing from either.
LEMMA ContainsJoined ==
    ASSUME NEW a \in Seq(Character), NEW b \in Seq(Character), NEW t \in Seq(Character),
           Len(t) > 0, Contains(a, t) \/ Contains(b, t)
    PROVE  Contains(Joined(a, b), t)
<1>. DEFINE gap == <<Blank, Blank>>
            front == a \o gap
            whole == front \o b
<1>1. gap \in Seq(Character)
  <2>1. Blank \in Character
    BY DEF Blank, Character
  <2>. QED
    BY <2>1
<1>. HIDE DEF gap
<1>2. /\ front \in Seq(Character) /\ Len(front) = Len(a) + Len(gap)
      /\ Len(a) \in Nat /\ Len(gap) \in Nat
      /\ \A m \in 1..Len(a) : front[0 + m] = a[m]
  BY <1>1, ConcatenationIs
<1>. HIDE DEF front
<1>3. /\ whole \in Seq(Character) /\ Len(whole) = Len(front) + Len(b) /\ Len(b) \in Nat
      /\ \A m \in 1..Len(front) : whole[0 + m] = front[m]
      /\ \A m \in 1..Len(b) : whole[Len(front) + m] = b[m]
  BY <1>2, ConcatenationIs
<1>. HIDE DEF whole
<1>4. CASE Contains(b, t)
  <2>1. Len(front) \in Nat /\ Len(front) + Len(b) <= Len(whole)
    BY <1>2, <1>3
  <2>. QED
    BY <1>3, <1>4, <2>1, ContainsMore DEF Joined, whole, front, gap
<1>5. CASE Contains(a, t)
  <2>1. 0 + Len(a) <= Len(front) /\ 0 + Len(front) <= Len(whole) /\ 0 \in Nat
    BY <1>2, <1>3
  <2>2. Contains(front, t)
    BY <1>2, <1>5, <2>1, ContainsMore
  <2>3. Contains(whole, t)
    BY <1>2, <1>3, <2>1, <2>2, ContainsMore
  <2>. QED
    BY <2>3 DEF Joined, whole, front, gap
<1>. QED
  BY <1>4, <1>5

\* A slice within a slice.
LEMMA ContainsSlice ==
    ASSUME NEW s \in Seq(Character), NEW a \in Nat \ {0}, NEW b \in Nat, b <= Len(s),
           NEW i \in Nat, NEW j \in Nat, a <= i, i <= j, j <= b
    PROVE  Contains(SubSeq(s, a, b), SubSeq(s, i, j))
<1>. DEFINE u == SubSeq(s, a, b)
            t == SubSeq(s, i, j)
            d == i - a
<1>1. /\ u \in Seq(Character) /\ Len(u) = b - a + 1
      /\ \A m \in 1..(b - a + 1) : u[m] = s[a + m - 1]
  BY SliceOf
<1>2. /\ t \in Seq(Character) /\ Len(t) = j - i + 1
      /\ \A m \in 1..(j - i + 1) : t[m] = s[i + m - 1]
  BY SliceOf
<1>. HIDE DEF u, t
<1>3. d \in 0..(Len(u) - Len(t)) /\ Len(t) > 0
  BY <1>1, <1>2
<1>4. \A m \in 1..Len(t) : u[d + m] = t[m]
  <2>. TAKE m \in 1..Len(t)
  <2>1. d + m \in 1..(b - a + 1) /\ a + (d + m) - 1 = i + m - 1
    BY <1>2
  <2>. QED
    BY <1>1, <1>2, <2>1
<1>. QED
  BY <1>1, <1>2, <1>3, <1>4, ContainsIs DEF u, t

\* A run goes from one character to another no further on than the overlap.
LEMMA RunIs ==
    ASSUME NEW s \in Seq(Character), NEW run \in Runs(s)
    PROVE  \E i, j \in Ink(s) : /\ i <= j /\ j <= i + Overlap /\ run = SubSeq(s, i, j)
                                /\ i \in Nat \ {0} /\ j \in Nat /\ j <= Len(s)
                                /\ run \in Seq(Character) /\ Len(run) > 0
<1>1. Len(s) \in Nat /\ Overlap \in Nat /\ Ink(s) \in SUBSET (1..Len(s))
  BY SplitterAssumption DEF Ink
<1>2. PICK i \in Ink(s), j \in Ink(s) : run = SubSeq(s, i, j)
  BY DEF Runs
<1>3. PICK k \in Ink(s), n \in 0..Overlap : run = SubSeq(s, k, Smaller(k + n, Len(s)))
  BY DEF Runs
<1>. DEFINE e == Smaller(k + n, Len(s))
<1>4. k \in Nat \ {0} /\ e \in Nat /\ k <= e /\ e <= Len(s) /\ e <= k + Overlap
  BY <1>1 DEF Smaller
<1>5. run \in Seq(Character) /\ Len(run) = e - k + 1
  BY <1>3, <1>4, SliceOf
<1>. HIDE DEF e
<1>6. i \in Nat \ {0} /\ j \in Nat /\ i <= Len(s) /\ j <= Len(s)
  BY <1>1
<1>7. Len(run) = IF i <= j THEN j - i + 1 ELSE 0
  BY <1>2, <1>6, Slice
<1>8. i <= j /\ j <= i + Overlap /\ Len(run) > 0
  BY <1>1, <1>4, <1>5, <1>6, <1>7
<1>. QED
  BY <1>2, <1>5, <1>6, <1>8

\* strip and lstrip take no ink.
LEMMA StripKeeps ==
    ASSUME NEW s \in Seq(Character), NEW i \in Ink(s), NEW j \in Ink(s), i <= j
    PROVE  Contains(Strip(s), SubSeq(s, i, j)) /\ Strip(s) # <<>>
<1>. DEFINE first == CHOOSE k \in Ink(s) : \A l \in Ink(s) : k <= l
            last  == CHOOSE k \in Ink(s) : \A l \in Ink(s) : l <= k
<1>1. Ink(s) \in SUBSET (1..Len(s)) /\ Ink(s) # {} /\ Len(s) \in Nat
  BY DEF Ink
<1>2. /\ \E k \in Ink(s) : \A l \in Ink(s) : k <= l
      /\ \E k \in Ink(s) : \A l \in Ink(s) : l <= k
  <2>1. IsFiniteSet(1..Len(s))
    BY <1>1, FS_Interval
  <2>2. IsFiniteSet(Ink(s)) /\ \A k \in Ink(s) : k \in Nat
    BY <1>1, <2>1, FS_Subset
  <2>. QED
    BY <1>1, <2>2, FirstAndLast
<1>3. first \in Ink(s) /\ last \in Ink(s) /\ \A l \in Ink(s) : first <= l /\ l <= last
  BY <1>2
<1>4. Strip(s) = SubSeq(s, first, last)
  BY <1>1 DEF Strip
<1>. HIDE DEF first, last
<1>5. /\ first \in Nat \ {0} /\ last \in Nat /\ last <= Len(s) /\ i \in Nat /\ j \in Nat
      /\ first <= i /\ j <= last /\ first <= last
  BY <1>1, <1>3
<1>6. Contains(SubSeq(s, first, last), SubSeq(s, i, j))
  BY <1>5, ContainsSlice
<1>7. Len(SubSeq(s, first, last)) = last - first + 1 /\ last - first + 1 > 0
  BY <1>5, SliceOf
<1>8. SubSeq(s, first, last) # <<>>
  <2>. DEFINE u == SubSeq(s, first, last)
  <2>. SUFFICES ASSUME u = <<>> PROVE FALSE
    OBVIOUS
  <2>1. Len(u) > 0 /\ Len(<<>>) = 0
    BY <1>7
  <2>. QED
    BY <2>1
<1>. QED
  BY <1>4, <1>6, <1>8

\* Division, as the splitter uses it.
LEMMA Quotient ==
    ASSUME NEW x \in Nat, NEW m \in Nat \ {0}
    PROVE  x \div m \in Nat /\ (x \div m) * m <= x /\ x < (x \div m) * m + m
  OBVIOUS

\* The windows overlap by as much as a run is long: one of them has it whole.
LEMMA SomeWindow ==
    ASSUME NEW s \in Seq(Character), NEW i \in 1..Len(s), NEW j \in 1..Len(s),
           i <= j, j <= i + Overlap
    PROVE  \E n \in 1..((Len(s) + Step - 1) \div Step) :
                /\ n \in Nat \ {0} /\ (n - 1) * Step \in Nat
                /\ (n - 1) * Step < i /\ j <= (n - 1) * Step + Size
<1>. DEFINE q == (i - 1) \div Step
            w == (Len(s) + Step - 1) \div Step
<1>1. /\ Step \in Nat \ {0} /\ Size \in Nat /\ Overlap \in Nat /\ Len(s) \in Nat
      /\ Step + Overlap = Size
  BY SplitterAssumption DEF Step
<1>2. i - 1 \in Nat /\ Len(s) + Step - 1 \in Nat
  BY <1>1
<1>. HIDE DEF Step
<1>3. q \in Nat /\ q * Step <= i - 1 /\ i - 1 < q * Step + Step
  BY <1>1, <1>2, Quotient
<1>4. w \in Nat /\ Len(s) + Step - 1 < w * Step + Step
  BY <1>1, <1>2, Quotient
<1>. HIDE DEF q, w
<1>5. q * Step \in Nat /\ w * Step \in Nat
  BY <1>1, <1>3, <1>4, Product
<1>6. q + 1 <= w
  <2>. SUFFICES ASSUME w <= q PROVE FALSE
    BY <1>3, <1>4
  <2>1. w * Step <= q * Step
    BY <1>1, <1>3, <1>4, Cancels
  <2>. QED
    BY <1>1, <1>3, <1>4, <1>5, <2>1
<1>7. (q + 1) - 1 = q /\ q + 1 \in Nat \ {0} /\ q + 1 \in 1..w
  BY <1>3, <1>4, <1>6
<1>8. q * Step < i /\ j <= q * Step + Size
  BY <1>1, <1>3, <1>5
<1>. QED
  BY <1>5, <1>7, <1>8 DEF w

LEMMA WindowHolds ==
    ASSUME NEW s \in Seq(Character), NEW run \in Runs(s)
    PROVE  \E n \in Kept(s) : n \in Nat \ {0} /\ Contains(Strip(Window(s, n)), run)
<1>1. PICK i \in Ink(s), j \in Ink(s) :
        /\ i <= j /\ j <= i + Overlap /\ run = SubSeq(s, i, j)
        /\ i \in Nat \ {0} /\ j \in Nat /\ j <= Len(s)
        /\ run \in Seq(Character) /\ Len(run) > 0
  BY RunIs
<1>2. i \in 1..Len(s) /\ j \in 1..Len(s) /\ s[i] # Blank /\ s[j] # Blank /\ Len(s) \in Nat
  BY DEF Ink
<1>3. PICK n \in 1..((Len(s) + Step - 1) \div Step) :
                /\ n \in Nat \ {0} /\ (n - 1) * Step \in Nat
                /\ (n - 1) * Step < i /\ j <= (n - 1) * Step + Size
  BY <1>1, <1>2, SomeWindow
<1>. DEFINE a == (n - 1) * Step + 1
            b == Smaller((n - 1) * Step + Size, Len(s))
            w == SubSeq(s, a, b)
            k == i - a + 1
            l == j - a + 1
<1>4. a \in Nat \ {0} /\ b \in Nat /\ b <= Len(s) /\ a <= i /\ j <= b /\ a <= b
  BY <1>1, <1>2, <1>3, SplitterAssumption DEF Smaller
<1>5. Window(s, n) = w
  BY DEF Window
<1>. HIDE DEF a, b
<1>6. /\ w \in Seq(Character) /\ Len(w) = b - a + 1
      /\ \A m \in 1..(b - a + 1) : w[m] = s[a + m - 1]
  BY <1>4, SliceOf
<1>. HIDE DEF w
<1>7. /\ k \in 1..(b - a + 1) /\ l \in 1..(b - a + 1) /\ k <= l
      /\ a + k - 1 = i /\ a + l - 1 = j
  BY <1>1, <1>4
<1>8. k \in Ink(w) /\ l \in Ink(w)
  BY <1>2, <1>6, <1>7 DEF Ink
<1>9. Contains(Strip(w), SubSeq(w, k, l)) /\ Strip(w) # <<>>
  BY <1>6, <1>7, <1>8, StripKeeps
<1>10. SubSeq(w, k, l) = run
  <2>1. /\ SubSeq(w, k, l) \in Seq(Character) /\ Len(SubSeq(w, k, l)) = l - k + 1
        /\ \A m \in 1..(l - k + 1) : SubSeq(w, k, l)[m] = w[k + m - 1]
    <3>1. k \in Nat \ {0} /\ l \in Nat /\ l <= Len(w)
      BY <1>4, <1>6, <1>7
    <3>. HIDE DEF k, l
    <3>. QED
      BY <1>6, <1>7, <3>1, SliceOf
  <2>2. Len(run) = j - i + 1 /\ \A m \in 1..(j - i + 1) : run[m] = s[i + m - 1]
    BY <1>1, SliceOf
  <2>3. l - k + 1 = j - i + 1
    BY <1>1, <1>4
  <2>4. ASSUME NEW m \in 1..Len(run) PROVE SubSeq(w, k, l)[m] = run[m]
    <3>1. /\ k + m - 1 \in 1..(b - a + 1) /\ a + (k + m - 1) - 1 = i + m - 1
          /\ m \in 1..(j - i + 1)
      BY <1>1, <1>4, <2>2
    <3>2. SubSeq(w, k, l)[m] = w[k + m - 1]
      BY <2>1, <2>3, <3>1
    <3>3. w[k + m - 1] = s[i + m - 1]
      BY <1>6, <3>1
    <3>. QED
      BY <2>2, <3>1, <3>2, <3>3
  <2>. QED
    BY <1>1, <2>1, <2>2, <2>3, <2>4, SameText
<1>11. n \in Kept(s)
  BY <1>3, <1>5, <1>9 DEF Kept
<1>. QED
  BY <1>3, <1>5, <1>9, <1>10, <1>11

LEMMA HardSplitHolds ==
    ASSUME NEW s \in Seq(Character), NEW run \in Runs(s)
    PROVE  \E m \in 1..Len(HardSplit(s)) : Contains(HardSplit(s)[m], run)
<1>. DEFINE T == Kept(s)
            windows == (Len(s) + Step - 1) \div Step
            R == {e \in T \X T : e[1] < e[2]}
            c == Cardinality(T)
            nth(m) == CHOOSE n \in T : Cardinality({k \in T : k < n}) = m - 1
<1>1. Step \in Nat \ {0} /\ Len(s) \in Nat /\ windows \in Int
  BY SplitterAssumption DEF Step
<1>2. T \in SUBSET (1..windows) /\ IsFiniteSet(T) /\ c \in Nat
  <2>1. T \in SUBSET (1..windows)
    BY DEF Kept
  <2>2. IsFiniteSet(1..windows)
    BY <1>1, FS_Interval
  <2>3. IsFiniteSet(T)
    BY <2>1, <2>2, FS_Subset
  <2>. QED
    BY <2>1, <2>3, FS_CardinalityType
<1>3. PICK n \in T : n \in Nat \ {0} /\ Contains(Strip(Window(s, n)), run)
  BY WindowHolds
<1>4. HardSplit(s) = [m \in 1..c |-> Strip(Window(s, nth(m)))]
  BY DEF HardSplit
<1>. HIDE DEF T, windows
<1>5. \A i \in T : i \in Nat \ {0}
  BY <1>1, <1>2
<1>6. \A i, j \in T : <<i, j>> \in R <=> i < j
  OBVIOUS
<1>7. Linear(T, R)
  BY <1>5, <1>6 DEF Linear
<1>8. \A i \in T : Cardinality({k \in T : k < i}) = Rank(T, R, i)
  <2>1. \A i \in T : {k \in T : k < i} = {k \in T : <<k, i>> \in R}
    BY <1>6
  <2>. QED
    BY <2>1 DEF Rank, Under
<1>. HIDE DEF R
<1>9. /\ \A i \in T : Rank(T, R, i) \in 0..(c - 1)
      /\ \A i, j \in T : Rank(T, R, i) = Rank(T, R, j) => i = j
  BY <1>2, <1>7, Ranks
<1>. DEFINE m == Rank(T, R, n) + 1
<1>10. m \in 1..c /\ m - 1 = Rank(T, R, n)
  BY <1>2, <1>9
<1>11. nth(m) = n
  <2>1. \A i \in T : Cardinality({k \in T : k < i}) = m - 1 <=> i = n
    BY <1>8, <1>9, <1>10
  <2>. QED
    BY <2>1
<1>. HIDE DEF m, nth, c
<1>12. Len(HardSplit(s)) = c /\ HardSplit(s)[m] = Strip(Window(s, n))
  <2>1. Len(HardSplit(s)) = c
    BY <1>2, <1>4 DEF c
  <2>. QED
    BY <1>4, <1>10, <1>11, <2>1
<1>. QED
  BY <1>3, <1>10, <1>12

\* A chunk that is emitted stays, and what it holds is in the chunks of its page.
LEMMA Emitted ==
    ASSUME SplitInv, NEW pieces \in Seq(Piece), chunks' = chunks \o OnPage(pieces)
    PROVE  /\ \A n \in 1..Len(chunks) : chunks'[n] = chunks[n]
           /\ Len(chunks) <= Len(chunks')
           /\ \A run, p : Chunked(run, p) => Chunked(run, p)'
           /\ \A run : (\E m \in 1..Len(pieces) : Contains(pieces[m], run)) => 
                    \E n \in 1..Len(chunks') :
                        chunks'[n].page_no = page /\ Contains(chunks'[n].text, run)
<1>. DEFINE Chunk == [text : Piece, page_no : Nat]
            out == OnPage(pieces)
<1>1. chunks \in Seq(Chunk) /\ out \in Seq(Chunk) /\ page \in Nat
  BY PiecesOfPage DEF SplitInv
<1>2. Len(out) = Len(pieces) /\ Len(pieces) \in Nat
      /\ \A m \in 1..Len(pieces) : out[m].text = pieces[m] /\ out[m].page_no = page
  BY DEF OnPage
<1>. HIDE DEF Chunk, out
<1>3. /\ Len(chunks') = Len(chunks) + Len(out) /\ Len(chunks) \in Nat
      /\ \A n \in 1..Len(chunks) : chunks'[n] = chunks[n]
      /\ \A m \in 1..Len(out) : chunks'[Len(chunks) + m] = out[m]
  BY <1>1 DEF out
<1>4. Len(chunks) <= Len(chunks')
  BY <1>2, <1>3
<1>5. ASSUME NEW run, NEW p, Chunked(run, p) PROVE Chunked(run, p)'
  <2>1. PICK n \in 1..Len(chunks) : chunks[n].page_no = p /\ Contains(chunks[n].text, run)
    BY <1>5 DEF Chunked
  <2>2. n \in 1..Len(chunks') /\ chunks'[n] = chunks[n]
    BY <1>2, <1>3
  <2>. QED
    BY <2>1, <2>2 DEF Chunked
<1>6. ASSUME NEW run, NEW m \in 1..Len(pieces), Contains(pieces[m], run)
      PROVE  \E n \in 1..Len(chunks') :
                chunks'[n].page_no = page /\ Contains(chunks'[n].text, run)
  <2>1. Len(chunks) + m \in 1..Len(chunks') /\ chunks'[Len(chunks) + m] = out[m]
    BY <1>2, <1>3
  <2>. QED
    BY <1>2, <1>6, <2>1
<1>. QED
  BY <1>3, <1>4, <1>5, <1>6

\* What is being filled goes out whole.
LEMMA FlushedHolds ==
    ASSUME SplitInv, NEW run, run \in Seq(Character), Len(run) > 0, Contains(current, run)
    PROVE  Flushed = <<current>> /\ \E m \in 1..Len(Flushed) : Contains(Flushed[m], run)
<1>1. current # <<>>
  <2>. SUFFICES ASSUME current = <<>> PROVE FALSE
    OBVIOUS
  <2>1. Len(current) = 0 /\ Len(run) \in Nat
    OBVIOUS
  <2>2. PICK i \in 0..(Len(current) - Len(run)) : TRUE
    BY DEF Contains
  <2>. QED
    BY <2>1, <2>2
<1>2. Flushed = <<current>>
  BY <1>1 DEF Flushed
<1>. QED
  BY <1>2

\* What the last paragraph's text is, and what is read before it stays.
LEMMA ReadsPlaces ==
    ASSUME SplitInv, PlacedInv, NEW p \in Paragraph, Reads(p),
           \A run \in Runs(Written(Len(text) + 1, p)) :
                Chunked(run, page)' \/ Contains(current', run),
           \A run, n : Chunked(run, n) => Chunked(run, n)',
           \A run \in Seq(Character) :
                Len(run) > 0 /\ Contains(current, run) =>
                    Chunked(run, page)' \/ Contains(current', run)
    PROVE  PlacedInv'
<1>. DEFINE words == Written(Len(text) + 1, p)
            Entry == [words : Seq(Character), page_no : Nat]
            entry == [words |-> words, page_no |-> page]
<1>1. /\ text \in Seq(Entry) /\ Len(text) + 1 \in Nat /\ page \in Nat
      /\ text' = Append(text, entry) /\ page' = page /\ page <= MaxPages
  BY DEF SplitInv, Reads
<1>2. words \in Seq(Character) /\ entry \in Entry
  BY <1>1, WrittenIs
<1>. HIDE DEF words, entry, Entry
<1>3. /\ Len(text') = Len(text) + 1 /\ text'[Len(text) + 1] = entry
      /\ \A k \in 1..Len(text) : text'[k] = text[k] /\ text[k].words \in Seq(Character)
  <2>1. /\ Len(text') = Len(text) + 1 /\ text'[Len(text) + 1] = entry
        /\ \A k \in 1..Len(text) : text'[k] = text[k] /\ text[k] \in Entry
    BY <1>1, <1>2
  <2>. QED
    BY <2>1 DEF Entry
<1>4. ASSUME NEW k \in 1..Len(text'), NEW run \in Runs(text'[k].words), NEW n,
             n = text'[k].page_no
      PROVE  Chunked(run, n)' \/ (n = page /\ Contains(current', run))
  <2>1. CASE k \in 1..Len(text)
    <3>1. /\ text'[k] = text[k] /\ run \in Runs(text[k].words)
          /\ run \in Seq(Character) /\ Len(run) > 0
      BY <1>3, <1>4, <2>1, RunIs
    <3>2. Chunked(run, n) \/ (n = page /\ Contains(current, run))
      BY <1>4, <2>1, <3>1 DEF PlacedInv
    <3>3. Chunked(run, page)' <=> \E m \in 1..Len(chunks') :
                chunks'[m].page_no = page /\ Contains(chunks'[m].text, run)
      BY <1>1 DEF Chunked
    <3>. QED
      BY <3>1, <3>2, <3>3 DEF Chunked
  <2>2. CASE k = Len(text) + 1
    <3>1. n = page /\ run \in Runs(words)
      BY <1>3, <1>4, <2>2 DEF entry
    <3>. QED
      BY <1>1, <3>1 DEF Chunked, words
  <2>. QED
    BY <1>1, <1>3, <2>1, <2>2
<1>5. MaxPages \in Nat /\ ~(page' > MaxPages)
  BY <1>1, SplitterAssumption
<1>6. ASSUME NEW k \in 1..Len(text'), NEW run \in Runs(text'[k].words)
      PROVE  \/ \E m \in 1..Len(chunks') :
                    chunks'[m].page_no = text'[k].page_no /\ Contains(chunks'[m].text, run)
             \/ text'[k].page_no = page' /\ Contains(current', run)
  <2>1. PICK n : n = text'[k].page_no
    OBVIOUS
  <2>2. Chunked(run, n)' \/ (n = page /\ Contains(current', run))
    BY <1>4, <2>1
  <2>. QED
    BY <1>1, <2>1, <2>2 DEF Chunked
<1>7. PlacedInv' <=>
        /\ \A k \in 1..Len(text') : \A run \in Runs(text'[k].words) :
             \/ \E m \in 1..Len(chunks') :
                    chunks'[m].page_no = text'[k].page_no /\ Contains(chunks'[m].text, run)
             \/ text'[k].page_no = page' /\ Contains(current', run)
        /\ page' > MaxPages => current' = <<>>
  BY DEF PlacedInv, Chunked
<1>. QED
  BY <1>5, <1>6, <1>7

\* The next paragraph.
LEMMA TakeKeeps ==
    ASSUME SplitInv, PlacedInv, NEW p \in Paragraph, TakeLong(p) \/ TakeFitting(p) \/ TakeNext(p)
    PROVE  PlacedInv'
<1>. DEFINE words == Written(Len(text) + 1, p)
            tail  == LeftStrip(LastOf(current, Overlap))
<1>1. /\ Len(text) + 1 \in Nat /\ words \in Seq(Character) /\ current \in Piece
      /\ current \in Seq(Character) /\ page \in Nat /\ Reads(p) /\ page' = page
  <2>1. Reads(p)
    BY DEF TakeLong, TakeFitting, TakeNext
  <2>. QED
    BY <2>1, ReadsKeeps, WrittenIs DEF SplitInv, Piece, Reads
<1>2. \A run \in Runs(words) : run \in Seq(Character) /\ Len(run) > 0
  BY <1>1, RunIs
<1>3. ASSUME NEW run \in Runs(words)
      PROVE  Contains(words, run)
  <2>1. PICK i, j \in Ink(words) : /\ i <= j /\ run = SubSeq(words, i, j)
                                   /\ i \in Nat \ {0} /\ j \in Nat /\ j <= Len(words)
    BY <1>1, RunIs
  <2>2. /\ SubSeq(words, 1, Len(words)) = words /\ 1 \in Nat \ {0} /\ Len(words) \in Nat /\ 1 <= i
    BY <1>1, <2>1
  <2>3. Contains(SubSeq(words, 1, Len(words)), SubSeq(words, i, j))
    BY <1>1, <2>1, <2>2, ContainsSlice
  <2>. QED
    BY <2>1, <2>2, <2>3
<1>4. \A run \in Seq(Character) : Len(run) > 0 /\ Contains(current, run) =>
            Flushed = <<current>> /\ \E m \in 1..Len(Flushed) : Contains(Flushed[m], run)
  BY FlushedHolds
<1>. HIDE DEF words, tail
<1>5. CASE TakeLong(p)
  <2>. DEFINE cut == HardSplit(words)
              out == Flushed \o cut
  <2>1. chunks' = chunks \o OnPage(out)
    BY <1>5 DEF TakeLong, words
  <2>2. /\ Flushed \in Seq(Piece) /\ cut \in Seq(Piece)
        /\ \A run \in Runs(words) : \E m \in 1..Len(cut) : Contains(cut[m], run)
    BY <1>1, FlushedIs, HardSplitFits, HardSplitHolds
  <2>. HIDE DEF cut
  <2>3. /\ out \in Seq(Piece) /\ Len(out) = Len(Flushed) + Len(cut)
        /\ Len(Flushed) \in Nat /\ Len(cut) \in Nat
        /\ \A m \in 1..Len(Flushed) : out[m] = Flushed[m]
        /\ \A m \in 1..Len(cut) : out[Len(Flushed) + m] = cut[m]
    BY <2>2
  <2>. HIDE DEF out
  <2>4. /\ \A run, n : Chunked(run, n) => Chunked(run, n)'
        /\ \A run : (\E m \in 1..Len(out) : Contains(out[m], run)) => Chunked(run, page)'
    BY <1>1, <2>1, <2>3, Emitted DEF Chunked
  <2>5. ASSUME NEW run \in Runs(words) PROVE Chunked(run, page)'
    <3>1. PICK m \in 1..Len(cut) : Contains(cut[m], run)
      BY <2>2
    <3>2. Len(Flushed) + m \in 1..Len(out) /\ out[Len(Flushed) + m] = cut[m]
      BY <2>3
    <3>. QED
      BY <2>4, <3>1, <3>2
  <2>6. ASSUME NEW run \in Seq(Character), Len(run) > 0, Contains(current, run)
        PROVE  Chunked(run, page)'
    <3>1. PICK m \in 1..Len(Flushed) : Contains(Flushed[m], run)
      BY <1>4, <2>6
    <3>2. m \in 1..Len(out) /\ out[m] = Flushed[m]
      BY <2>3
    <3>. QED
      BY <2>4, <3>1, <3>2
  <2>. QED
    BY <1>1, <2>4, <2>5, <2>6, ReadsPlaces DEF words
<1>6. CASE TakeFitting(p)
  <2>1. /\ chunks' = chunks
        /\ current' = IF current = <<>> THEN words ELSE Joined(current, words)
    BY <1>6 DEF TakeFitting, words
  <2>2. \A run, n : Chunked(run, n) => Chunked(run, n)'
    BY <2>1 DEF Chunked
  <2>3. \A run \in Runs(words) : Contains(current', run)
    BY <1>1, <1>2, <1>3, <2>1, ContainsJoined
  <2>4. \A run \in Seq(Character) :
            Len(run) > 0 /\ Contains(current, run) => Contains(current', run)
    BY <1>1, <1>4, <2>1, ContainsJoined DEF Flushed
  <2>. QED
    BY <1>1, <2>2, <2>3, <2>4, ReadsPlaces DEF words
<1>7. CASE TakeNext(p)
  <2>1. /\ chunks' = chunks \o OnPage(Flushed)
        /\ current' = IF Fits(tail, p) THEN Joined(tail, words) ELSE words
    BY <1>7 DEF TakeNext, words, tail
  <2>2. /\ \A run, n : Chunked(run, n) => Chunked(run, n)'
        /\ \A run : (\E m \in 1..Len(Flushed) : Contains(Flushed[m], run)) => Chunked(run, page)'
    BY <1>1, <2>1, FlushedIs, Emitted DEF Chunked
  <2>3. tail \in Seq(Character)
    BY <1>1, TailIs DEF tail
  <2>4. \A run \in Runs(words) : Contains(current', run)
    BY <1>1, <1>2, <1>3, <2>1, <2>3, ContainsJoined
  <2>5. \A run \in Seq(Character) : Len(run) > 0 /\ Contains(current, run) => Chunked(run, page)'
    BY <1>4, <2>2
  <2>. QED
    BY <1>1, <2>2, <2>4, <2>5, ReadsPlaces DEF words
<1>. QED
  BY <1>5, <1>6, <1>7

\* The end of a page: what was being filled is a chunk of it.
LEMMA PageEnds ==
    ASSUME SplitInv, PlacedInv, EndPage
    PROVE  PlacedInv'
<1>1. /\ text' = text /\ current' = <<>> /\ page \in Nat
      /\ chunks' = chunks \o OnPage(Flushed)
      /\ text \in Seq([words : Seq(Character), page_no : Nat])
  BY DEF EndPage, SplitInv
<1>2. /\ \A run, n : Chunked(run, n) => Chunked(run, n)'
      /\ \A run : (\E m \in 1..Len(Flushed) : Contains(Flushed[m], run)) =>
            \E n \in 1..Len(chunks') : chunks'[n].page_no = page /\ Contains(chunks'[n].text, run)
  BY <1>1, FlushedIs, Emitted
<1>3. ASSUME NEW k \in 1..Len(text), NEW run \in Runs(text[k].words)
      PROVE  \E n \in 1..Len(chunks') :
                chunks'[n].page_no = text[k].page_no /\ Contains(chunks'[n].text, run)
  <2>1. run \in Seq(Character) /\ Len(run) > 0
    <3>1. text[k].words \in Seq(Character)
      <4>. DEFINE Entry == [words : Seq(Character), page_no : Nat]
      <4>1. text \in Seq(Entry)
        BY <1>1
      <4>. HIDE DEF Entry
      <4>2. text[k] \in Entry
        BY <4>1
      <4>. QED
        BY <4>2 DEF Entry
    <3>. QED
      BY <3>1, RunIs
  <2>2. PICK p : p = text[k].page_no
    OBVIOUS
  <2>3. CASE Chunked(run, p)
    <3>1. Chunked(run, p)'
      BY <1>2, <2>3
    <3>. QED
      BY <2>2, <3>1 DEF Chunked
  <2>4. CASE p = page /\ Contains(current, run)
    BY <1>2, <2>1, <2>2, <2>4, FlushedHolds
  <2>. QED
    BY <2>2, <2>3, <2>4 DEF PlacedInv
<1>. QED
  BY <1>1, <1>3 DEF PlacedInv, Chunked

LEMMA PlacedKeeps == SplitInv /\ PlacedInv /\ [SplitNext]_splitVars => PlacedInv'
<1>. SUFFICES ASSUME SplitInv, PlacedInv, [SplitNext]_splitVars PROVE PlacedInv'
  OBVIOUS
<1>1. CASE \E p \in Paragraph : TakeLong(p) \/ TakeFitting(p) \/ TakeNext(p)
  BY <1>1, TakeKeeps
<1>2. CASE EndPage
  BY <1>2, PageEnds
<1>3. CASE EmbedBatch \/ ProviderBusy \/ StoreRows \/ UNCHANGED splitVars
  <2>1. UNCHANGED <<text, page, current, chunks>>
    BY <1>3 DEF EmbedBatch, ProviderBusy, StoreRows, splitVars
  <2>. QED
    BY <2>1 DEF PlacedInv, Chunked
<1>. QED
  BY <1>1, <1>2, <1>3 DEF SplitNext

LEMMA Extended ==
    ASSUME NEW S, NEW a \in Seq(S), NEW b \in Seq(S), NEW t, t = a \o b
    PROVE  /\ t \in Seq(S) /\ Len(t) = Len(a) + Len(b)
           /\ \A m \in 1..Len(a) : t[m] = a[m]
           /\ \A m \in 1..Len(b) : t[Len(a) + m] = b[m]
  OBVIOUS

\* A vector is of the chunk in its place.
LEMMA EmbedKeeps ==
    ASSUME SplitInv, RowsInv, EmbedBatch
    PROVE  RowsInv'
<1>. DEFINE Chunk == [text : Piece, page_no : Nat]
            old == Len(vectors)
            end == Smaller(old + BatchSize, Len(chunks))
            more == [n \in 1..Len(Batch) |-> Batch[n].text]
<1>1. /\ UNCHANGED <<chunks, rows, page>> /\ rows = <<>> /\ old < Len(chunks)
      /\ vectors' = vectors \o more
  BY DEF EmbedBatch, Embedding
<1>2. /\ vectors \in Seq(Piece) /\ old \in Nat /\ chunks \in Seq(Chunk) /\ Len(chunks) \in Nat
      /\ \A n \in 1..old : vectors[n] = chunks[n].text
      /\ BatchSize \in Nat \ {0}
  BY SplitterAssumption DEF RowsInv, SplitInv
<1>3. end \in Nat /\ old + 1 <= end /\ end <= Len(chunks) /\ old + 1 \in Nat \ {0}
  BY <1>1, <1>2 DEF Smaller
<1>4. Batch = SubSeq(chunks, old + 1, end)
  BY DEF Batch
<1>. HIDE DEF old, end, Chunk
<1>5. /\ Batch \in Seq(Chunk) /\ Len(Batch) = end - old
      /\ \A n \in 1..(end - old) : Batch[n] = chunks[old + n]
  <2>1. /\ SubSeq(chunks, old + 1, end) \in Seq(Chunk)
        /\ Len(SubSeq(chunks, old + 1, end)) = end - (old + 1) + 1
        /\ \A n \in 1..(end - (old + 1) + 1) :
                SubSeq(chunks, old + 1, end)[n] = chunks[(old + 1) + n - 1]
    BY <1>2, <1>3, SliceOf
  <2>2. end - (old + 1) + 1 = end - old
    BY <1>2, <1>3
  <2>3. ASSUME NEW n \in 1..(end - old) PROVE (old + 1) + n - 1 = old + n
    BY <1>2, <1>3
  <2>. QED
    BY <1>4, <2>1, <2>2, <2>3
<1>6. /\ more \in [1..(end - old) -> Piece] /\ end - old \in Nat
      /\ \A n \in 1..(end - old) : more[n] = chunks[old + n].text
  <2>1. end - old \in Nat
    BY <1>2, <1>3
  <2>2. \A n \in 1..(end - old) : Batch[n] \in Chunk
    BY <1>5, <2>1
  <2>3. \A n \in 1..(end - old) : Batch[n].text \in Piece
    BY <2>2 DEF Chunk
  <2>. QED
    BY <1>5, <2>1, <2>3
<1>. HIDE DEF more
<1>7. more \in Seq(Piece) /\ Len(more) = end - old
  BY <1>6, SequenceOf
<1>8. /\ vectors' \in Seq(Piece) /\ Len(vectors') = end
      /\ \A n \in 1..old : vectors'[n] = vectors[n]
      /\ \A n \in 1..(end - old) : vectors'[old + n] = more[n]
  <2>1. Len(vectors) = old
    BY DEF old
  <2>2. vectors \in Seq(Piece) /\ more \in Seq(Piece) /\ vectors' = vectors \o more
    BY <1>1, <1>2, <1>7
  <2>3. /\ vectors' \in Seq(Piece) /\ Len(vectors') = Len(vectors) + Len(more)
        /\ \A n \in 1..Len(vectors) : vectors'[n] = vectors[n]
        /\ \A n \in 1..Len(more) : vectors'[Len(vectors) + n] = more[n]
    BY <2>2, Extended
  <2>4. old + (end - old) = end
    BY <1>2, <1>3
  <2>. QED
    BY <1>7, <2>1, <2>3, <2>4
<1>9. ASSUME NEW n \in 1..end PROVE vectors'[n] = chunks[n].text
  <2>1. CASE n \in 1..old
    BY <1>2, <1>8, <2>1
  <2>2. CASE n \notin 1..old
    <3>1. n - old \in 1..(end - old) /\ old + (n - old) = n
      BY <1>2, <1>3, <2>2
    <3>. QED
      BY <1>6, <1>8, <3>1
  <2>. QED
    BY <2>1, <2>2
<1>. QED
  BY <1>1, <1>3, <1>8, <1>9 DEF RowsInv

LEMMA RowsKeeps == SplitInv /\ RowsInv /\ [SplitNext]_splitVars => RowsInv'
<1>. SUFFICES ASSUME SplitInv, RowsInv, [SplitNext]_splitVars PROVE RowsInv'
  OBVIOUS
<1>0. page \in Nat /\ MaxPages \in Nat
  BY SplitterAssumption DEF SplitInv
<1>1. ASSUME NEW pieces \in Seq(Piece), chunks' = chunks \o OnPage(pieces), page <= MaxPages,
             UNCHANGED <<vectors, rows>>
      PROVE  RowsInv'
  <2>1. /\ \A n \in 1..Len(chunks) : chunks'[n] = chunks[n]
        /\ Len(chunks) <= Len(chunks') /\ Len(chunks) \in Nat /\ Len(chunks') \in Nat
    <3>1. Len(chunks) \in Nat /\ Len(chunks') \in Nat
      BY <1>1, PiecesOfPage DEF SplitInv
    <3>. QED
      BY <1>1, <3>1, Emitted
  <2>2. /\ vectors \in Seq(Piece) /\ Len(vectors) \in Nat /\ Len(vectors) <= Len(chunks)
        /\ \A n \in 1..Len(vectors) : vectors[n] = chunks[n].text
        /\ rows = <<>>
    BY <1>0, <1>1 DEF RowsInv
  <2>3. Len(vectors) <= Len(chunks')
    BY <2>1, <2>2
  <2>4. \A n \in 1..Len(vectors) : vectors[n] = chunks'[n].text
    BY <2>1, <2>2
  <2>. QED
    BY <1>1, <2>2, <2>3, <2>4 DEF RowsInv
<1>2. ASSUME NEW p \in Paragraph, TakeLong(p) PROVE RowsInv'
  <2>. DEFINE out == Flushed \o HardSplit(Written(Len(text) + 1, p))
  <2>1. out \in Seq(Piece)
    <3>1. Len(text) + 1 \in Nat
      BY DEF SplitInv
    <3>. QED
      BY <3>1, WrittenIs, HardSplitFits, FlushedIs
  <2>2. /\ chunks' = chunks \o OnPage(out) /\ page <= MaxPages /\ UNCHANGED <<vectors, rows>>
    BY <1>2 DEF TakeLong, Reads
  <2>. HIDE DEF out
  <2>. QED
    BY <1>1, <2>1, <2>2
<1>3. ASSUME NEW p \in Paragraph, TakeFitting(p) PROVE RowsInv'
  BY <1>0, <1>3 DEF TakeFitting, Reads, RowsInv
<1>4. ASSUME NEW p \in Paragraph, TakeNext(p) PROVE RowsInv'
  BY <1>1, <1>4, FlushedIs DEF TakeNext, Reads
<1>5. ASSUME EndPage PROVE RowsInv'
  BY <1>1, <1>5, FlushedIs DEF EndPage
<1>6. ASSUME EmbedBatch PROVE RowsInv'
  BY <1>6, EmbedKeeps
<1>7. ASSUME StoreRows PROVE RowsInv'
  BY <1>7 DEF StoreRows, RowsInv
<1>8. ASSUME ProviderBusy \/ UNCHANGED splitVars PROVE RowsInv'
  <2>1. UNCHANGED <<page, chunks, vectors, rows>>
    BY <1>8 DEF ProviderBusy, splitVars
  <2>. QED
    BY <2>1 DEF RowsInv
<1>. QED
  BY <1>2, <1>3, <1>4, <1>5, <1>6, <1>7, <1>8 DEF SplitNext

\* Every run of characters that a reader can look for is whole in some row, under
\* its page and with that row's own vector, whatever the paragraphs, the sizes
\* and the batches, and however often the provider was busy.
THEOREM NoRunIsLost == SplitSpec => []Findable
<1>1. SplitInit => SplitInv /\ PlacedInv /\ RowsInv
  BY EmptyPiece, SplitterAssumption DEF SplitInit, SplitInv, PlacedInv, RowsInv
<1>2. SplitInv /\ PlacedInv /\ RowsInv /\ [SplitNext]_splitVars
        => (SplitInv /\ PlacedInv /\ RowsInv)'
  BY SplitKeeps, PlacedKeeps, RowsKeeps
<1>3. SplitInv /\ PlacedInv /\ RowsInv => Findable
  <2>. SUFFICES ASSUME SplitInv, PlacedInv, RowsInv, rows # <<>>,
                       NEW k \in 1..Len(text), NEW run \in Runs(text[k].words)
                PROVE  \E n \in 1..Len(rows) : /\ Contains(rows[n].text, run)
                                               /\ rows[n].embedding = rows[n].text
                                               /\ rows[n].page_no = text[k].page_no
    BY DEF Findable
  <2>1. run \in Seq(Character) /\ Len(run) > 0
    <3>. DEFINE Entry == [words : Seq(Character), page_no : Nat]
    <3>1. text \in Seq(Entry)
      BY DEF SplitInv
    <3>. HIDE DEF Entry
    <3>2. text[k] \in Entry
      BY <3>1
    <3>3. text[k].words \in Seq(Character)
      BY <3>2 DEF Entry
    <3>. QED
      BY <3>3, RunIs
  <2>2. ~Contains(current, run)
    <3>1. current = <<>>
      BY DEF RowsInv, PlacedInv
    <3>. QED
      BY <2>1, <3>1, FlushedHolds DEF Flushed
  <2>3. Chunked(run, text[k].page_no)
    BY <2>2 DEF PlacedInv
  <2>4. PICK n \in 1..Len(chunks) :
            chunks[n].page_no = text[k].page_no /\ Contains(chunks[n].text, run)
    BY <2>3 DEF Chunked
  <2>5. Len(rows) = Len(chunks) /\ Len(chunks) \in Nat
    <3>1. Len(chunks) \in Nat
      BY DEF SplitInv
    <3>. QED
      BY <3>1 DEF RowsInv
  <2>6. /\ rows[n].text = chunks[n].text /\ rows[n].page_no = chunks[n].page_no
        /\ rows[n].embedding = vectors[n] /\ vectors[n] = chunks[n].text
    BY DEF RowsInv
  <2>. QED
    BY <2>4, <2>5, <2>6
<1>. QED
  BY <1>1, <1>2, <1>3, PTL DEF SplitSpec

-------------------------------------------------------------------------------
(* FrameReader: what is in the buffer is the beginning of the frame the reader *)
(* is at, and a boundary is found in it when that frame is whole, at its end.  *)

\* A frame without the line endings that close it.
Body(f) ==
    IF f = "ping" THEN <<<<"comment">>>> ELSE <<<<"event", f>>>> \o eol \o Halves(f)

LEMMA Joined2 ==
    ASSUME NEW S, NEW a \in Seq(S), NEW b \in Seq(S)
    PROVE  /\ a \o b \in Seq(S) /\ Len(a \o b) = Len(a) + Len(b)
           /\ Len(a) \in Nat /\ Len(b) \in Nat
           /\ \A m \in 1..Len(a) : (a \o b)[m] = a[m]
           /\ \A m \in 1..Len(b) : (a \o b)[Len(a) + m] = b[m]
  OBVIOUS

LEMMA EolIs ==
    ASSUME eol \in Eols
    PROVE  /\ eol \in Seq(Symbol) /\ CR # LF
           /\ \/ Len(eol) = 1 /\ eol[1] \in {CR, LF}
              \/ Len(eol) = 2 /\ eol[1] = CR /\ eol[2] = LF
<1>1. eol \in {<<CR, LF>>, <<LF>>, <<CR>>}
  BY ReaderAssumption
<1>2. CR # LF
  BY DEF CR, LF
<1>3. CR \in Symbol /\ LF \in Symbol
  BY DEF Symbol
<1>4. CASE eol = <<CR, LF>>
  BY <1>2, <1>3, <1>4
<1>5. CASE eol = <<LF>>
  BY <1>2, <1>3, <1>5
<1>6. CASE eol = <<CR>>
  BY <1>2, <1>3, <1>6
<1>. QED
  BY <1>1, <1>4, <1>5, <1>6

\* The kinds of symbols there are.
LEMMA Kinds ==
    /\ CR[1] = "CR" /\ LF[1] = "LF" /\ <<"comment">>[1] = "comment"
    /\ \A f : <<"event", f>>[1] = "event" /\ <<"event", f>>[2] = f
    /\ \A f : <<"open", f>>[1] = "open" /\ <<"close", f>>[1] = "close"
  BY DEF CR, LF

LEMMA BodyIs ==
    ASSUME eol \in Eols, NEW f \in Event \cup {"ping"}
    PROVE  /\ Body(f) \in Seq(Symbol)
           /\ f = "ping" => Len(Body(f)) = 1 /\ Body(f)[1] = <<"comment">>
           /\ f # "ping" =>
                /\ Len(Body(f)) = 3 + Len(eol)
                /\ Body(f)[1] = <<"event", f>>
                /\ \A i \in 1..Len(eol) : Body(f)[1 + i] = eol[i]
                /\ Body(f)[2 + Len(eol)] = <<"open", f>>
                /\ Body(f)[3 + Len(eol)] = <<"close", f>>
<1>1. CASE f = "ping"
  <2>1. <<"comment">> \in Symbol
    BY DEF Symbol
  <2>. QED
    BY <1>1, <2>1 DEF Body
<1>2. CASE f # "ping"
  <2>1. <<"event", f>> \in Symbol /\ <<"open", f>> \in Symbol /\ <<"close", f>> \in Symbol
    BY <1>2 DEF Symbol
  <2>. DEFINE head == <<<<"event", f>>>>
              front == head \o eol
  <2>2. head \in Seq(Symbol) /\ Len(head) = 1 /\ head[1] = <<"event", f>>
    BY <2>1
  <2>3. /\ Halves(f) \in Seq(Symbol) /\ Len(Halves(f)) = 2
        /\ Halves(f)[1] = <<"open", f>> /\ Halves(f)[2] = <<"close", f>>
    BY <2>1 DEF Halves
  <2>4. eol \in Seq(Symbol) /\ Len(eol) \in Nat
    BY EolIs
  <2>. HIDE DEF head
  <2>5. /\ front \in Seq(Symbol) /\ Len(front) = 1 + Len(eol) /\ front[1] = <<"event", f>>
        /\ \A i \in 1..Len(eol) : front[1 + i] = eol[i]
    <3>1. /\ head \o eol \in Seq(Symbol) /\ Len(head \o eol) = Len(head) + Len(eol)
          /\ \A m \in 1..Len(head) : (head \o eol)[m] = head[m]
          /\ \A m \in 1..Len(eol) : (head \o eol)[Len(head) + m] = eol[m]
      BY <2>2, <2>4, Joined2
    <3>. QED
      BY <2>2, <2>4, <3>1
  <2>. HIDE DEF front
  <2>6. /\ front \o Halves(f) \in Seq(Symbol) /\ Len(front \o Halves(f)) = 3 + Len(eol)
        /\ \A m \in 1..(1 + Len(eol)) : (front \o Halves(f))[m] = front[m]
        /\ \A m \in 1..2 : (front \o Halves(f))[1 + Len(eol) + m] = Halves(f)[m]
    <3>1. /\ front \o Halves(f) \in Seq(Symbol)
          /\ Len(front \o Halves(f)) = Len(front) + Len(Halves(f))
          /\ \A m \in 1..Len(front) : (front \o Halves(f))[m] = front[m]
          /\ \A m \in 1..Len(Halves(f)) : (front \o Halves(f))[Len(front) + m] = Halves(f)[m]
      BY <2>3, <2>5, Joined2
    <3>. QED
      BY <2>3, <2>4, <2>5, <3>1
  <2>7. Body(f) = front \o Halves(f)
    BY <1>2 DEF Body, front, head
  <2>8. Body(f)[1] = front[1] /\ \A i \in 1..Len(eol) : Body(f)[1 + i] = front[1 + i]
    <3>1. 1 \in 1..(1 + Len(eol)) /\ \A i \in 1..Len(eol) : 1 + i \in 1..(1 + Len(eol))
      BY <2>4
    <3>2. \A m \in 1..(1 + Len(eol)) : Body(f)[m] = front[m]
      BY <2>6, <2>7
    <3>. QED
      BY Zenon, <3>1, <3>2
  <2>9. Body(f)[1 + Len(eol) + 1] = <<"open", f>> /\ Body(f)[1 + Len(eol) + 2] = <<"close", f>>
    BY <2>3, <2>6, <2>7
  <2>. QED
    BY <1>2, <2>4, <2>5, <2>6, <2>7, <2>8, <2>9
<1>. QED
  BY <1>1, <1>2

LEMMA EncodedIs ==
    ASSUME eol \in Eols, NEW f \in Event \cup {"ping"}
    PROVE  /\ Encoded(f) \in Seq(Symbol) /\ Len(Encoded(f)) = Len(Body(f)) + 2 * Len(eol)
           /\ Len(Body(f)) \in Nat \ {0} /\ Len(eol) \in Nat \ {0}
           /\ \A i \in 1..Len(Body(f)) : Encoded(f)[i] = Body(f)[i]
           /\ \A i \in 1..Len(eol) : /\ Encoded(f)[Len(Body(f)) + i] = eol[i]
                                     /\ Encoded(f)[Len(Body(f)) + Len(eol) + i] = eol[i]
<1>1. Encoded(f) = (Body(f) \o eol) \o eol
  BY DEF Encoded, Body
<1>2. Body(f) \in Seq(Symbol) /\ Len(Body(f)) \in Nat \ {0}
  BY BodyIs, EolIs
<1>3. eol \in Seq(Symbol) /\ Len(eol) \in Nat \ {0}
  BY EolIs
<1>. DEFINE front == Body(f) \o eol
<1>4. /\ front \in Seq(Symbol) /\ Len(front) = Len(Body(f)) + Len(eol)
      /\ \A i \in 1..Len(Body(f)) : front[i] = Body(f)[i]
      /\ \A i \in 1..Len(eol) : front[Len(Body(f)) + i] = eol[i]
  BY <1>2, <1>3, Joined2
<1>. HIDE DEF front
<1>5. /\ front \o eol \in Seq(Symbol) /\ Len(front \o eol) = Len(front) + Len(eol)
      /\ \A i \in 1..Len(front) : (front \o eol)[i] = front[i]
      /\ \A i \in 1..Len(eol) : (front \o eol)[Len(front) + i] = eol[i]
  <2>1. front \in Seq(Symbol) /\ eol \in Seq(Symbol)
    BY <1>3, <1>4
  <2>. QED
    BY <2>1, Joined2
<1>6. Encoded(f) = front \o eol
  BY <1>1 DEF front
<1>7. \A i \in 1..Len(Body(f)) : Encoded(f)[i] = Body(f)[i]
  BY <1>2, <1>3, <1>4, <1>5, <1>6
<1>8. \A i \in 1..Len(eol) : Encoded(f)[Len(Body(f)) + i] = eol[i]
  <2>. TAKE i \in 1..Len(eol)
  <2>1. Len(Body(f)) + i \in 1..Len(front)
    BY <1>2, <1>3, <1>4
  <2>. QED
    BY <1>4, <1>5, <1>6, <2>1
<1>9. \A i \in 1..Len(eol) : Encoded(f)[Len(Body(f)) + Len(eol) + i] = eol[i]
  BY <1>2, <1>3, <1>4, <1>5, <1>6
<1>10. Encoded(f) \in Seq(Symbol)
  BY <1>5, <1>6
<1>11. Len(Encoded(f)) = Len(Body(f)) + 2 * Len(eol)
  <2>1. Len(Encoded(f)) = (Len(Body(f)) + Len(eol)) + Len(eol)
    BY <1>4, <1>5, <1>6
  <2>. QED
    BY <1>2, <1>3, <2>1
<1>12. \A i \in 1..Len(eol) : /\ Encoded(f)[Len(Body(f)) + i] = eol[i]
                              /\ Encoded(f)[Len(Body(f)) + Len(eol) + i] = eol[i]
  BY Zenon, <1>8, <1>9
<1>. QED
  BY Zenon, <1>2, <1>3, <1>7, <1>10, <1>11, <1>12

\* Boundaries by their symbols.
LEMMA IsPair ==
    ASSUME NEW t \in Seq(Symbol), Len(t) = 2, NEW x \in Symbol, NEW y \in Symbol
    PROVE  t = <<x, y>> <=> t[1] = x /\ t[2] = y
<1>1. t = <<x, y>> => t[1] = x /\ t[2] = y
  OBVIOUS
<1>2. t[1] = x /\ t[2] = y => t = <<x, y>>
  <2>. SUFFICES ASSUME t[1] = x, t[2] = y PROVE t = <<x, y>>
    OBVIOUS
  <2>1. <<x, y>> \in Seq(Symbol) /\ Len(<<x, y>>) = 2 /\ \A i \in 1..2 : t[i] = <<x, y>>[i]
    OBVIOUS
  <2>. QED
    BY <2>1
<1>. QED
  BY <1>1, <1>2

LEMMA IsQuad ==
    ASSUME NEW t \in Seq(Symbol), Len(t) = 4, NEW x \in Symbol, NEW y \in Symbol
    PROVE  t = <<x, y, x, y>> <=> t[1] = x /\ t[2] = y /\ t[3] = x /\ t[4] = y
<1>1. t = <<x, y, x, y>> => t[1] = x /\ t[2] = y /\ t[3] = x /\ t[4] = y
  OBVIOUS
<1>2. t[1] = x /\ t[2] = y /\ t[3] = x /\ t[4] = y => t = <<x, y, x, y>>
  <2>. SUFFICES ASSUME t[1] = x, t[2] = y, t[3] = x, t[4] = y PROVE t = <<x, y, x, y>>
    OBVIOUS
  <2>1. /\ <<x, y, x, y>> \in Seq(Symbol) /\ Len(<<x, y, x, y>>) = 4
        /\ \A i \in 1..4 : t[i] = <<x, y, x, y>>[i]
    OBVIOUS
  <2>. QED
    BY <2>1
<1>. QED
  BY <1>1, <1>2

LEMMA AtPair ==
    ASSUME NEW s \in Seq(Symbol), NEW i \in 1..Len(s),
           NEW x \in Symbol, NEW y \in Symbol
    PROVE  At(s, i, <<x, y>>) <=> i + 1 <= Len(s) /\ s[i] = x /\ s[i + 1] = y
<1>1. CASE i + 1 <= Len(s)
  <2>. DEFINE t == SubSeq(s, i, i + 1)
  <2>1. t \in Seq(Symbol) /\ Len(t) = 2 /\ t[1] = s[i] /\ t[2] = s[i + 1]
    BY <1>1, SliceOf
  <2>2. Len(<<x, y>>) = 2 /\ i + Len(<<x, y>>) - 1 = i + 1
    OBVIOUS
  <2>3. t = <<x, y>> <=> s[i] = x /\ s[i + 1] = y
    <3>. HIDE DEF t
    <3>1. t = <<x, y>> <=> t[1] = x /\ t[2] = y
      BY <2>1, IsPair
    <3>. QED
      BY <2>1, <3>1
  <2>. QED
    BY <1>1, <2>2, <2>3 DEF At
<1>2. CASE ~(i + 1 <= Len(s))
  BY <1>2 DEF At
<1>. QED
  BY <1>1, <1>2

LEMMA AtQuad ==
    ASSUME NEW s \in Seq(Symbol), NEW i \in 1..Len(s),
           NEW x \in Symbol, NEW y \in Symbol
    PROVE  At(s, i, <<x, y, x, y>>) <=>
             i + 3 <= Len(s) /\ s[i] = x /\ s[i + 1] = y /\ s[i + 2] = x /\ s[i + 3] = y
<1>1. CASE i + 3 <= Len(s)
  <2>. DEFINE t == SubSeq(s, i, i + 3)
  <2>1. t \in Seq(Symbol) /\ Len(t) = 4 /\ \A m \in 1..4 : t[m] = s[i + m - 1]
    BY <1>1, SliceOf
  <2>2. Len(<<x, y, x, y>>) = 4 /\ i + Len(<<x, y, x, y>>) - 1 = i + 3
    OBVIOUS
  <2>3. t[1] = s[i] /\ t[2] = s[i + 1] /\ t[3] = s[i + 2] /\ t[4] = s[i + 3]
    BY <2>1
  <2>4. t = <<x, y, x, y>> <=> s[i] = x /\ s[i + 1] = y /\ s[i + 2] = x /\ s[i + 3] = y
    <3>. HIDE DEF t
    <3>1. t = <<x, y, x, y>> <=> t[1] = x /\ t[2] = y /\ t[3] = x /\ t[4] = y
      BY <2>1, IsQuad
    <3>. QED
      BY <2>3, <3>1
  <2>. QED
    BY <1>1, <2>2, <2>4 DEF At
<1>2. CASE ~(i + 3 <= Len(s))
  BY <1>2 DEF At
<1>. QED
  BY <1>1, <1>2

LEMMA BoundariesAre ==
    ASSUME NEW s \in Seq(Symbol), NEW i
    PROVE  i \in Boundaries(s) <=>
             /\ i \in 1..Len(s)
             /\ \/ i + 3 <= Len(s) /\ s[i] = CR /\ s[i + 1] = LF /\ s[i + 2] = CR /\ s[i + 3] = LF
                \/ i + 1 <= Len(s) /\ s[i] = LF /\ s[i + 1] = LF
                \/ i + 1 <= Len(s) /\ s[i] = CR /\ s[i + 1] = CR
<1>1. CR \in Symbol /\ LF \in Symbol
  BY DEF Symbol
<1>2. i \in Boundaries(s) <=> i \in 1..Len(s) /\ \E t \in Pairs : At(s, i, t)
  BY Zenon DEF Boundaries
<1>3. (\E t \in Pairs : At(s, i, t)) <=>
          \/ At(s, i, <<CR, LF, CR, LF>>) \/ At(s, i, <<LF, LF>>) \/ At(s, i, <<CR, CR>>)
  BY Zenon DEF Pairs
<1>4. CASE i \in 1..Len(s)
  <2>1. At(s, i, <<CR, LF, CR, LF>>) <=>
          i + 3 <= Len(s) /\ s[i] = CR /\ s[i + 1] = LF /\ s[i + 2] = CR /\ s[i + 3] = LF
    BY <1>1, <1>4, AtQuad
  <2>2. At(s, i, <<LF, LF>>) <=> i + 1 <= Len(s) /\ s[i] = LF /\ s[i + 1] = LF
    BY <1>1, <1>4, AtPair
  <2>3. At(s, i, <<CR, CR>>) <=> i + 1 <= Len(s) /\ s[i] = CR /\ s[i + 1] = CR
    BY <1>1, <1>4, AtPair
  <2>. QED
    BY Zenon, <1>2, <1>3, <1>4, <2>1, <2>2, <2>3
<1>. QED
  BY Zenon, <1>2, <1>4

\* What begins like a frame has no boundary before it has the whole of it, and
\* then it has one at the end of the body.
BeginsAs(s, f) == \A i \in 1..Len(s) : i <= Len(Encoded(f)) => s[i] = Encoded(f)[i]

LEMMA NoneInTheBody ==
    ASSUME eol \in Eols, NEW f \in Event \cup {"ping"}, NEW s \in Seq(Symbol), BeginsAs(s, f),
           NEW i \in Boundaries(s)
    PROVE  i > Len(Body(f))
<1>. SUFFICES ASSUME i <= Len(Body(f)) PROVE FALSE
  BY BodyIs, EolIs, BoundariesAre
<1>1. i \in 1..Len(s) /\ i + 1 <= Len(s) /\ s[i] \in {CR, LF}
  BY BoundariesAre
<1>2. Len(Body(f)) \in Nat /\ Len(Encoded(f)) \in Nat /\ Len(Encoded(f)) >= Len(Body(f)) + 2
  BY EncodedIs
<1>3. s[i] = Body(f)[i]
  <2>1. s[i] = Encoded(f)[i]
    BY <1>1, <1>2 DEF BeginsAs
  <2>. QED
    BY <1>1, <2>1, EncodedIs
<1>4. \A g : <<"comment">> \notin {CR, LF} /\ <<"event", g>> \notin {CR, LF}
             /\ <<"open", g>> \notin {CR, LF} /\ <<"close", g>> \notin {CR, LF}
  BY Kinds DEF CR, LF
<1>5. f # "ping"
  BY <1>1, <1>3, <1>4, BodyIs
<1>6. i \in 2..(1 + Len(eol))
  <2>1. Len(Body(f)) = 3 + Len(eol) /\ Len(eol) \in Nat
    BY <1>5, BodyIs, EolIs
  <2>2. i # 1 /\ i # 2 + Len(eol) /\ i # 3 + Len(eol)
    <3>1. /\ Body(f)[1] = <<"event", f>> /\ Body(f)[2 + Len(eol)] = <<"open", f>>
          /\ Body(f)[3 + Len(eol)] = <<"close", f>>
      BY <1>5, BodyIs
    <3>. QED
      BY Zenon, <1>1, <1>3, <1>4, <3>1
  <2>. QED
    <3>1. i \in Nat /\ i >= 1 /\ i <= 3 + Len(eol)
      BY <1>1, <2>1
    <3>. QED
      BY <2>1, <2>2, <3>1
<1>7. i + 1 <= Len(Body(f)) /\ s[i + 1] = Body(f)[i + 1]
  <2>1. i + 1 <= Len(Body(f)) /\ i + 1 \in 1..Len(Body(f)) /\ i + 1 \in 1..Len(s)
    BY <1>1, <1>5, <1>6, BodyIs, EolIs
  <2>2. s[i + 1] = Encoded(f)[i + 1]
    BY <1>2, <2>1 DEF BeginsAs
  <2>. QED
    BY <2>1, <2>2, EncodedIs
<1>8. s[i] = eol[i - 1]
  <2>1. Len(eol) \in Nat
    BY EolIs
  <2>2. i - 1 \in 1..Len(eol) /\ 1 + (i - 1) = i
    BY <1>6, <2>1
  <2>3. \A j \in 1..Len(eol) : Body(f)[1 + j] = eol[j]
    BY <1>5, BodyIs
  <2>. QED
    BY <1>3, <2>2, <2>3
<1>9. CASE i = 1 + Len(eol)
  <2>1. s[i + 1] = <<"open", f>>
    BY <1>5, <1>7, <1>9, BodyIs, EolIs
  <2>2. s[i + 1] \in {CR, LF}
    BY BoundariesAre
  <2>. QED
    BY <1>4, <2>1, <2>2
<1>10. CASE i # 1 + Len(eol)
  <2>1. Len(eol) = 2 /\ i = 2 /\ eol[1] = CR /\ eol[2] = LF /\ CR # LF
    <3>1. Len(eol) # 1
      <4>. SUFFICES ASSUME Len(eol) = 1 PROVE FALSE
        OBVIOUS
      <4>1. i \in 2..(1 + 1) /\ i # 1 + 1
        BY <1>6, <1>10
      <4>. QED
        BY <4>1
    <3>2. Len(eol) = 2 /\ eol[1] = CR /\ eol[2] = LF /\ CR # LF
      BY <3>1, EolIs
    <3>. QED
      BY <1>6, <1>10, <3>2
  <2>2. s[3] = LF
    BY <1>5, <1>7, <2>1, BodyIs
  <2>3. s[2] = CR
    BY <1>8, <2>1
  <2>4. 5 <= Len(s) /\ s[4] = CR
    BY <2>1, <2>2, <2>3, BoundariesAre
  <2>5. s[4] = <<"open", f>>
    <3>1. Len(Body(f)) = 5 /\ Body(f)[4] = <<"open", f>>
      BY <1>5, <2>1, BodyIs
    <3>2. s[4] = Encoded(f)[4]
      BY <1>2, <2>4, <3>1 DEF BeginsAs
    <3>3. Encoded(f)[4] = Body(f)[4]
      <4>1. 4 \in 1..Len(Body(f))
        BY <3>1
      <4>. QED
        BY <4>1, EncodedIs
    <3>. QED
      BY <3>1, <3>2, <3>3
  <2>. QED
    BY <1>4, <2>4, <2>5
<1>. QED
  BY <1>9, <1>10

LEMMA NoneBeforeTheEnd ==
    ASSUME eol \in Eols, NEW f \in Event \cup {"ping"}, NEW s \in Seq(Symbol), BeginsAs(s, f),
           Len(s) < Len(Encoded(f))
    PROVE  Boundaries(s) = {}
<1>. SUFFICES ASSUME NEW i \in Boundaries(s) PROVE FALSE
  OBVIOUS
<1>1. /\ Len(Encoded(f)) = Len(Body(f)) + 2 * Len(eol)
      /\ Len(Body(f)) \in Nat /\ Len(s) \in Nat /\ i \in Nat /\ i + 1 <= Len(s)
  BY EncodedIs, BoundariesAre
<1>2. i > Len(Body(f))
  BY NoneInTheBody
<1>3. CASE Len(eol) = 1
  BY <1>1, <1>2, <1>3
<1>4. CASE Len(eol) = 2
  <2>1. i = Len(Body(f)) + 1 \/ i = Len(Body(f)) + 2
    BY <1>1, <1>2, <1>4
  <2>2. ~(i + 3 <= Len(s))
    BY <1>1, <1>2, <1>4
  <2>3. \A m \in 1..Len(s) : s[m] = Encoded(f)[m]
    BY <1>1, <1>4 DEF BeginsAs
  <2>4. s[i] = Encoded(f)[i] /\ s[i + 1] = Encoded(f)[i + 1]
    BY <1>1, <1>2, <2>3
  <2>5. 1 \in 1..Len(eol) /\ 2 \in 1..Len(eol) /\ eol[1] = CR /\ eol[2] = LF /\ CR # LF
    BY <1>4, EolIs
  <2>6. /\ Encoded(f)[Len(Body(f)) + 1] = CR /\ Encoded(f)[Len(Body(f)) + 2] = LF
        /\ Encoded(f)[Len(Body(f)) + 2 + 1] = CR
    BY <1>4, <2>5, EncodedIs
  <2>7. s[i] # s[i + 1]
    <3>1. CASE i = Len(Body(f)) + 1
      <4>1. i + 1 = Len(Body(f)) + 2
        BY <1>1, <3>1
      <4>. QED
        BY <2>4, <2>5, <2>6, <3>1, <4>1
    <3>2. CASE i = Len(Body(f)) + 2
      BY <2>4, <2>5, <2>6, <3>2
    <3>. QED
      BY <2>1, <3>1, <3>2
  <2>. QED
    BY <2>2, <2>7, BoundariesAre
<1>. QED
  BY <1>3, <1>4, EolIs

LEMMA OneAtTheEnd ==
    ASSUME eol \in Eols, NEW f \in Event \cup {"ping"}, NEW s \in Seq(Symbol), BeginsAs(s, f),
           Len(s) >= Len(Encoded(f))
    PROVE  /\ First(Boundaries(s)) = Len(Body(f)) + 1
           /\ BoundaryLength(s, Len(Body(f)) + 1) = 2 * Len(eol)
           /\ Boundaries(s) # {}
<1>. DEFINE b == Len(Body(f)) + 1
<1>1. /\ Len(Encoded(f)) = Len(Body(f)) + 2 * Len(eol) /\ Len(Encoded(f)) \in Nat
      /\ b \in Nat \ {0} /\ Len(s) \in Nat /\ Len(eol) \in Nat
  BY EncodedIs
<1>2. \A i \in 1..(2 * Len(eol)) : s[Len(Body(f)) + i] = Encoded(f)[Len(Body(f)) + i]
  BY <1>1 DEF BeginsAs
<1>3. b \in Boundaries(s) /\ BoundaryLength(s, b) = 2 * Len(eol)
  <2>0. CR \in Symbol /\ LF \in Symbol
    BY DEF Symbol
  <2>1. CASE Len(eol) = 1
    <3>1. 1 \in 1..Len(eol) /\ eol[1] \in {CR, LF} /\ CR # LF
      BY <2>1, EolIs
    <3>2. Encoded(f)[Len(Body(f)) + 1] = eol[1] /\ Encoded(f)[Len(Body(f)) + 1 + 1] = eol[1]
      BY <2>1, <3>1, EncodedIs
    <3>3. s[b] = eol[1] /\ s[b + 1] = eol[1]
      <4>1. /\ Len(Body(f)) + 1 + 1 = Len(Body(f)) + 2
            /\ b = Len(Body(f)) + 1 /\ b + 1 = Len(Body(f)) + 2
        BY <1>1
      <4>2. 1 \in 1..(2 * Len(eol)) /\ 2 \in 1..(2 * Len(eol))
        BY <2>1
      <4>3. /\ s[Len(Body(f)) + 1] = Encoded(f)[Len(Body(f)) + 1]
            /\ s[Len(Body(f)) + 2] = Encoded(f)[Len(Body(f)) + 2]
        BY <1>2, <4>2
      <4>. QED
        BY <3>2, <4>1, <4>3
    <3>4. b \in 1..Len(s) /\ b + 1 <= Len(s)
      BY <1>1, <2>1
    <3>5. b \in Boundaries(s)
      BY <3>1, <3>3, <3>4, BoundariesAre
    <3>6. ~At(s, b, <<CR, LF, CR, LF>>)
      BY <2>0, <3>1, <3>3, <3>4, AtQuad
    <3>. QED
      BY <2>1, <3>5, <3>6 DEF BoundaryLength
  <2>2. CASE Len(eol) = 2
    <3>1. 1 \in 1..Len(eol) /\ 2 \in 1..Len(eol) /\ eol[1] = CR /\ eol[2] = LF
      BY <2>2, EolIs
    <3>2. /\ Encoded(f)[Len(Body(f)) + 1] = CR /\ Encoded(f)[Len(Body(f)) + 2] = LF
          /\ Encoded(f)[Len(Body(f)) + 2 + 1] = CR /\ Encoded(f)[Len(Body(f)) + 2 + 2] = LF
      BY <2>2, <3>1, EncodedIs
    <3>3. s[b] = CR /\ s[b + 1] = LF /\ s[b + 2] = CR /\ s[b + 3] = LF
      <4>1. /\ Len(Body(f)) + 2 + 1 = Len(Body(f)) + 3 /\ Len(Body(f)) + 2 + 2 = Len(Body(f)) + 4
            /\ b + 1 = Len(Body(f)) + 2 /\ b + 2 = Len(Body(f)) + 3 /\ b + 3 = Len(Body(f)) + 4
        BY <1>1
      <4>2. \A i \in 1..4 : s[Len(Body(f)) + i] = Encoded(f)[Len(Body(f)) + i]
        BY <1>2, <2>2
      <4>. QED
        BY <3>2, <4>1, <4>2
    <3>4. b \in 1..Len(s) /\ b + 3 <= Len(s)
      BY <1>1, <2>2
    <3>5. b \in Boundaries(s)
      BY <3>3, <3>4, BoundariesAre
    <3>6. At(s, b, <<CR, LF, CR, LF>>)
      BY <2>0, <3>3, <3>4, AtQuad
    <3>. QED
      BY <2>2, <3>5, <3>6 DEF BoundaryLength
  <2>. QED
    BY <2>1, <2>2, EolIs
<1>4. \A i \in Boundaries(s) : i \in Nat /\ b <= i
  <2>. TAKE i \in Boundaries(s)
  <2>1. i > Len(Body(f)) /\ i \in Nat /\ Len(Body(f)) \in Nat
    BY NoneInTheBody, BoundariesAre, EncodedIs
  <2>. QED
    BY <2>1
<1>5. First(Boundaries(s)) = b
  <2>1. First(Boundaries(s)) \in Boundaries(s) /\ \A j \in Boundaries(s) : First(Boundaries(s)) <= j
    BY Zenon, <1>3, <1>4 DEF First
  <2>. QED
    BY <1>1, <1>3, <1>4, <2>1
<1>. QED
  BY <1>3, <1>5

-------------------------------------------------------------------------------
(* What is parsed of a frame, or of the beginning of one.                     *)

LEMMA LastOfOne == ASSUME NEW i \in Nat PROVE Last({i}) = i
  BY DEF Last

\* A text cut down to none of its places, to one, and to two neighbours.
LEMMA OnlyNone == ASSUME NEW s PROVE Only(s, {}) = <<>>
<1>1. Cardinality({}) = 0
  BY FS_EmptySet
<1>. QED
  BY <1>1 DEF Only

LEMMA NoneBelow == ASSUME NEW d \in Nat PROVE {j \in {d} : j < d} = {}
  OBVIOUS

LEMMA OnlyOne == ASSUME NEW s, NEW d \in Nat PROVE Only(s, {d}) = <<s[d]>>
<1>. DEFINE nth(m) == CHOOSE i \in {d} : Cardinality({j \in {d} : j < i}) = m - 1
<1>1. Cardinality({d}) = 1 /\ Cardinality({j \in {d} : j < d}) = 0
  BY NoneBelow, FS_EmptySet, FS_Singleton
<1>2. nth(1) = d
  <2>1. Cardinality({j \in {d} : j < d}) = 1 - 1
    BY <1>1
  <2>. QED
    BY <2>1
<1>3. Only(s, {d}) = [m \in 1..1 |-> s[nth(m)]]
  BY <1>1 DEF Only
<1>. HIDE DEF nth
<1>. QED
  BY <1>2, <1>3

LEMMA OnlyTwo == ASSUME NEW s, NEW d \in Nat PROVE Only(s, {d, d + 1}) = <<s[d], s[d + 1]>>
<1>. DEFINE places == {d, d + 1}
            below(i) == {j \in places : j < i}
            nth(m) == CHOOSE i \in places : Cardinality(below(i)) = m - 1
<1>1. below(d) = {} /\ below(d + 1) = {d}
  OBVIOUS
<1>2. Cardinality(below(d)) = 0 /\ Cardinality(below(d + 1)) = 1
  BY <1>1, FS_EmptySet, FS_Singleton
<1>3. Cardinality(places) = 2
  <2>1. IsFiniteSet({d}) /\ Cardinality({d}) = 1
    BY FS_Singleton
  <2>2. d + 1 \notin {d} /\ places = {d} \cup {d + 1}
    OBVIOUS
  <2>. QED
    BY <2>1, <2>2, FS_AddElement
<1>4. Only(s, {d, d + 1}) = [m \in 1..Cardinality(places) |-> s[nth(m)]]
  BY Zenon DEF Only
<1>. HIDE DEF below
<1>5. nth(1) = d /\ nth(2) = d + 1
  <2>1. Cardinality(below(d)) = 1 - 1 /\ Cardinality(below(d + 1)) # 1 - 1
        /\ Cardinality(below(d)) # 2 - 1 /\ Cardinality(below(d + 1)) = 2 - 1
    BY <1>2
  <2>. QED
    BY Zenon, <2>1
<1>. HIDE DEF nth, places
<1>. QED
  BY <1>3, <1>4, <1>5

\* What is read of the first symbols of a frame.
Piecewise(f, n) ==
    IF f = "ping" \/ n < 2 + Len(eol) THEN <<>>
    ELSE IF n = 2 + Len(eol) THEN <<[event |-> f, data |-> <<Halves(f)[1]>>]>>
    ELSE <<[event |-> f, data |-> Halves(f)]>>

LEMMA KindOf ==
    ASSUME eol \in Eols, NEW f \in Event \cup {"ping"}, NEW i \in 1..Len(Encoded(f))
    PROVE  LET k == Encoded(f)[i][1] IN
           IF f = "ping" THEN k \notin {"event", "open", "close"}
           ELSE /\ k = "event" <=> i = 1
                /\ k \in {"open", "close"} <=> i \in {2 + Len(eol), 3 + Len(eol)}
<1>. DEFINE E == Encoded(f)
            B == Len(Body(f))
            n == Len(eol)
<1>1. B \in Nat \ {0} /\ n \in Nat \ {0} /\ Len(E) = B + 2 * n
  BY EncodedIs
<1>2. \A j \in 1..n : eol[j][1] \in {"CR", "LF"}
  BY EolIs, Kinds
<1>3. CASE i > B
  <2>1. \/ i - B \in 1..n /\ E[i] = eol[i - B]
        \/ i - B - n \in 1..n /\ E[i] = eol[i - B - n]
    <3>1. CASE i <= B + n
      <4>1. i - B \in 1..n /\ B + (i - B) = i
        BY <1>1, <1>3, <3>1
      <4>. QED
        BY <4>1, EncodedIs
    <3>2. CASE i > B + n
      <4>1. i - B - n \in 1..n /\ B + n + (i - B - n) = i
        BY <1>1, <1>3, <3>2
      <4>. QED
        BY <4>1, EncodedIs
    <3>. QED
      BY <1>1, <3>1, <3>2
  <2>2. E[i][1] \in {"CR", "LF"}
    BY <1>2, <2>1
  <2>3. f # "ping" => B = 3 + n
    BY BodyIs
  <2>. QED
    BY <1>1, <1>3, <2>2, <2>3
<1>4. CASE i <= B
  <2>1. E[i] = Body(f)[i]
    BY <1>1, <1>4, EncodedIs
  <2>2. CASE f = "ping"
    <3>1. i = 1 /\ Body(f)[1] = <<"comment">>
      <4>1. B = 1 /\ Body(f)[1] = <<"comment">>
        BY <2>2, BodyIs
      <4>. QED
        BY <1>4, <4>1
    <3>. QED
      BY <2>1, <2>2, <3>1, Kinds
  <2>3. CASE f # "ping"
    <3>1. B = 3 + n
      BY <2>3, BodyIs
    <3>2. CASE i = 1
      <4>1. E[i][1] = "event"
        BY <2>1, <2>3, <3>2, BodyIs, Kinds
      <4>. QED
        BY <1>1, <2>3, <3>2, <4>1
    <3>3. CASE i \in 2..(1 + n)
      <4>1. i - 1 \in 1..n /\ 1 + (i - 1) = i
        BY <1>1, <3>3
      <4>2. E[i] = eol[i - 1]
        BY <2>1, <2>3, <4>1, BodyIs
      <4>. QED
        BY <1>1, <1>2, <2>3, <3>3, <4>1, <4>2
    <3>4. CASE i = 2 + n
      <4>1. E[i][1] = "open"
        BY <2>1, <2>3, <3>4, BodyIs, Kinds
      <4>. QED
        BY <1>1, <2>3, <3>4, <4>1
    <3>5. CASE i = 3 + n
      <4>1. E[i][1] = "close"
        BY <2>1, <2>3, <3>5, BodyIs, Kinds
      <4>. QED
        BY <1>1, <2>3, <3>5, <4>1
    <3>. QED
      BY <1>1, <1>4, <3>1, <3>2, <3>3, <3>4, <3>5
  <2>. QED
    BY <2>2, <2>3
<1>. QED
  BY <1>1, <1>3, <1>4

LEMMA ParsedIs ==
    ASSUME eol \in Eols, NEW f \in Event \cup {"ping"}, NEW s \in Seq(Symbol), BeginsAs(s, f),
           Len(s) <= Len(Encoded(f))
    PROVE  Parsed(s) = Piecewise(f, Len(s))
<1>. DEFINE D == Symbols(s, {"open", "close"})
            n == Len(eol)
<1>1. n \in Nat \ {0} /\ Len(s) \in Nat /\ Len(Encoded(f)) \in Nat
  BY EncodedIs
<1>2. \A i \in 1..Len(s) : i \in 1..Len(Encoded(f)) /\ s[i] = Encoded(f)[i]
  BY <1>1 DEF BeginsAs
<1>3. CASE f = "ping"
  <2>1. D = {}
    BY <1>2, <1>3, KindOf DEF Symbols
  <2>2. DataOf(s) = <<>>
    BY <2>1, OnlyNone DEF DataOf
  <2>. QED
    BY <1>3, <2>2 DEF Parsed, Piecewise
<1>4. CASE f # "ping"
  <2>0. \A i \in 1..Len(s) : /\ s[i][1] \in {"event"} <=> i = 1
                             /\ s[i][1] \in {"open", "close"} <=> i \in {2 + n, 3 + n}
    BY <1>2, <1>4, KindOf
  <2>1. D = {2 + n, 3 + n} \cap (1..Len(s))
    BY <1>1, <2>0 DEF Symbols
  <2>2. /\ Encoded(f)[1] = <<"event", f>> /\ Encoded(f)[2 + n] = Halves(f)[1]
        /\ Encoded(f)[3 + n] = Halves(f)[2] /\ Halves(f) = <<Halves(f)[1], Halves(f)[2]>>
    <3>1. Len(Body(f)) = 3 + n /\ Body(f)[1] = <<"event", f>>
          /\ Body(f)[2 + n] = <<"open", f>> /\ Body(f)[3 + n] = <<"close", f>>
      BY <1>4, BodyIs
    <3>2. 1 \in 1..Len(Body(f)) /\ 2 + n \in 1..Len(Body(f)) /\ 3 + n \in 1..Len(Body(f))
      BY <1>1, <3>1
    <3>3. /\ Encoded(f)[1] = Body(f)[1] /\ Encoded(f)[2 + n] = Body(f)[2 + n]
          /\ Encoded(f)[3 + n] = Body(f)[3 + n]
      BY <3>2, EncodedIs
    <3>. QED
      BY <3>1, <3>3 DEF Halves
  <2>3. CASE Len(s) < 2 + n
    <3>1. D = {}
      BY <1>1, <2>1, <2>3
    <3>2. DataOf(s) = <<>>
      BY <3>1, OnlyNone DEF DataOf
    <3>. QED
      BY <2>3, <3>2 DEF Parsed, Piecewise
  <2>4. ASSUME Len(s) >= 2 + n PROVE NameOf(s) = f
    <3>1. Symbols(s, {"event"}) = {1}
      BY <1>1, <2>0, <2>4 DEF Symbols
    <3>2. Last({1}) = 1
      BY LastOfOne
    <3>3. s[1] = <<"event", f>>
      BY <1>1, <1>2, <2>2, <2>4
    <3>4. NameOf(s) = s[1][2]
      BY <3>1, <3>2 DEF NameOf
    <3>. QED
      BY <3>3, <3>4, Kinds
  <2>5. CASE Len(s) = 2 + n
    <3>1. D = {2 + n}
      BY <1>1, <2>1, <2>5
    <3>2. s[2 + n] = Halves(f)[1]
      BY <1>1, <1>2, <2>2, <2>5
    <3>3. DataOf(s) = <<Halves(f)[1]>>
      BY <1>1, <3>1, <3>2, OnlyOne DEF DataOf
    <3>4. NameOf(s) = f /\ DataOf(s) # <<>>
      BY <1>1, <2>4, <2>5, <3>3
    <3>5. Parsed(s) = <<[event |-> f, data |-> <<Halves(f)[1]>>]>>
      BY <3>3, <3>4 DEF Parsed
    <3>. QED
      BY <1>1, <1>4, <2>5, <3>5 DEF Piecewise
  <2>6. CASE Len(s) > 2 + n
    <3>1. D = {2 + n, 2 + n + 1}
      BY <1>1, <2>1, <2>6
    <3>2. s[2 + n] = Halves(f)[1] /\ s[2 + n + 1] = Halves(f)[2]
      <4>1. 2 + n \in 1..Len(s) /\ 3 + n \in 1..Len(s) /\ 2 + n + 1 = 3 + n
        BY <1>1, <2>6
      <4>. QED
        BY <1>2, <2>2, <4>1
    <3>3. DataOf(s) = Halves(f)
      <4>1. 2 + n \in Nat
        BY <1>1
      <4>2. Only(s, {2 + n, 2 + n + 1}) = <<s[2 + n], s[2 + n + 1]>>
        BY <4>1, OnlyTwo
      <4>. QED
        BY <2>2, <3>1, <3>2, <4>2 DEF DataOf
    <3>4. NameOf(s) = f /\ Halves(f) # <<>>
      BY <1>1, <2>4, <2>6 DEF Halves
    <3>5. Parsed(s) = <<[event |-> f, data |-> Halves(f)]>>
      BY <3>3, <3>4 DEF Parsed
    <3>. QED
      BY <1>1, <1>4, <2>6, <3>5 DEF Piecewise
  <2>. QED
    BY <1>1, <2>3, <2>5, <2>6
<1>. QED
  BY <1>3, <1>4

-------------------------------------------------------------------------------
(* The reader by steps.                                                       *)

LEMMA StartsAre ==
    ASSUME FramesInv, NEW k \in 0..Len(frames)
    PROVE  /\ Len(frames) \in Nat /\ Len(stream) \in Nat
           /\ StartOf(k + 1) \in Nat /\ StartOf(k + 1) <= Len(stream)
           /\ \A m \in 1..k : m \in 1..Len(frames) /\ ends[m] \in Nat /\ ends[m] <= StartOf(k + 1)
<1>1. Len(frames) \in Nat /\ Len(stream) \in Nat /\ \A m \in 1..Len(frames) : ends[m] \in Nat
  BY DEF FramesInv
<1>2. StartOf(k + 1) = IF k = 0 THEN 0 ELSE ends[k]
  BY DEF StartOf
<1>3. Len(stream) = IF Len(frames) = 0 THEN 0 ELSE ends[Len(frames)]
  BY <1>1 DEF FramesInv, StartOf
<1>4. \A m, n \in 1..Len(frames) : m < n => ends[m] < ends[n]
  BY DEF FramesInv
<1>5. \A m \in 1..k : m \in 1..Len(frames) /\ ends[m] <= StartOf(k + 1)
  BY <1>1, <1>2, <1>4
<1>6. StartOf(k + 1) <= Len(stream)
  BY <1>1, <1>2, <1>3, <1>4
<1>. QED
  BY <1>1, <1>2, <1>5, <1>6

LEMMA FrameIs ==
    ASSUME FramesInv, NEW k \in 0..(Len(frames) - 1)
    PROVE  /\ k \in 0..Len(frames) /\ k + 1 \in 0..Len(frames) /\ k + 1 \in 1..Len(frames)
           /\ frames[k + 1] \in Event \cup {"ping"}
           /\ Len(Encoded(frames[k + 1])) \in Nat \ {0}
           /\ StartOf(k + 1 + 1) = ends[k + 1]
           /\ StartOf(k + 1 + 1) = StartOf(k + 1) + Len(Encoded(frames[k + 1]))
           /\ \A i \in 1..Len(Encoded(frames[k + 1])) :
                stream[StartOf(k + 1) + i] = Encoded(frames[k + 1])[i]
<1>1. Len(frames) \in Nat /\ k + 1 \in 1..Len(frames) /\ k + 1 + 1 # 1
  BY DEF FramesInv
<1>2. frames[k + 1] \in Event \cup {"ping"}
  BY <1>1 DEF FramesInv
<1>3. Len(Encoded(frames[k + 1])) \in Nat \ {0}
  BY <1>2, EncodedIs DEF FramesInv
<1>4. StartOf(k + 1 + 1) = ends[k + 1]
  BY <1>1 DEF StartOf
<1>. QED
  BY <1>1, <1>2, <1>3, <1>4 DEF FramesInv

LEMMA BufferIs ==
    ASSUME FramesInv, arrived \in 0..Len(stream), NEW k \in 0..Len(frames), HasRead(k)
    PROVE  /\ buffer \in Seq(Symbol) /\ Len(buffer) = arrived - StartOf(k + 1)
           /\ Len(buffer) \in Nat /\ arrived \in Nat
           /\ \A i \in 1..Len(buffer) : buffer[i] = stream[StartOf(k + 1) + i]
<1>1. StartOf(k + 1) \in Nat /\ stream \in Seq(Symbol) /\ arrived \in Nat /\ arrived <= Len(stream)
  BY StartsAre DEF FramesInv
<1>2. buffer = SubSeq(stream, StartOf(k + 1) + 1, arrived) /\ StartOf(k + 1) <= arrived
  BY DEF HasRead
<1>3. CASE StartOf(k + 1) = arrived
  <2>1. buffer = <<>>
    BY <1>1, <1>2, <1>3
  <2>. QED
    BY <1>1, <1>3, <2>1
<1>4. CASE StartOf(k + 1) < arrived
  <2>1. StartOf(k + 1) + 1 \in Nat \ {0} /\ StartOf(k + 1) + 1 <= arrived
    BY <1>1, <1>4
  <2>2. /\ buffer \in Seq(Symbol) /\ Len(buffer) = arrived - (StartOf(k + 1) + 1) + 1
        /\ \A m \in 1..(arrived - (StartOf(k + 1) + 1) + 1) :
              buffer[m] = stream[StartOf(k + 1) + 1 + m - 1]
    BY <1>1, <1>2, <2>1, SliceOf
  <2>3. Len(buffer) = arrived - StartOf(k + 1) /\ Len(buffer) \in Nat
    BY <1>1, <1>4, <2>2
  <2>4. \A i \in 1..Len(buffer) : buffer[i] = stream[StartOf(k + 1) + i]
    <3>. TAKE i \in 1..Len(buffer)
    <3>1. /\ i \in 1..(arrived - (StartOf(k + 1) + 1) + 1)
          /\ StartOf(k + 1) + 1 + i - 1 = StartOf(k + 1) + i
      BY <1>1, <2>3
    <3>. QED
      BY <2>2, <3>1
  <2>. QED
    BY <1>1, <2>2, <2>3, <2>4
<1>. QED
  BY <1>1, <1>2, <1>3, <1>4

LEMMA BufferBegins ==
    ASSUME FramesInv, arrived \in 0..Len(stream), NEW k \in 0..(Len(frames) - 1), HasRead(k)
    PROVE  BeginsAs(buffer, frames[k + 1])
<1>1. \A i \in 1..Len(buffer) : i \in Nat /\ buffer[i] = stream[StartOf(k + 1) + i]
  BY BufferIs, FrameIs
<1>. QED
  BY <1>1, FrameIs DEF BeginsAs

LEMMA NothingLeft ==
    ASSUME FramesInv, arrived \in 0..Len(stream), HasRead(Len(frames))
    PROVE  buffer = <<>>
<1>1. Len(frames) \in 0..Len(frames) /\ StartOf(Len(frames) + 1) = Len(stream)
  BY DEF FramesInv
<1>2. buffer \in Seq(Symbol) /\ Len(buffer) = 0
  BY <1>1, BufferIs DEF HasRead
<1>. QED
  BY <1>2

\* Counting events.
LEMMA SentIs ==
    ASSUME FramesInv, NEW k \in 0..Len(frames)
    PROVE  /\ IsFiniteSet(Sent(k)) /\ Cardinality(Sent(k)) \in Nat
           /\ Sent(0) = {} /\ Cardinality(Sent(0)) = 0
           /\ k < Len(frames) =>
                Cardinality(Sent(k + 1)) =
                    Cardinality(Sent(k)) + (IF frames[k + 1] = "ping" THEN 0 ELSE 1)
<1>1. k \in Nat /\ Len(frames) \in Nat
  BY DEF FramesInv
<1>2. IsFiniteSet(1..k) /\ Sent(k) \subseteq 1..k
  BY <1>1, FS_Interval DEF Sent
<1>3. IsFiniteSet(Sent(k)) /\ Cardinality(Sent(k)) \in Nat
  BY <1>2, FS_Subset, FS_CardinalityType
<1>4. Sent(0) = {} /\ Cardinality(Sent(0)) = 0
  <2>1. Sent(0) = {}
    BY DEF Sent
  <2>. QED
    BY <2>1, FS_EmptySet
<1>5. ASSUME k < Len(frames)
      PROVE  Cardinality(Sent(k + 1)) =
                    Cardinality(Sent(k)) + (IF frames[k + 1] = "ping" THEN 0 ELSE 1)
  <2>1. k + 1 \notin Sent(k)
    BY <1>1 DEF Sent
  <2>2. CASE frames[k + 1] = "ping"
    <3>1. Sent(k + 1) = Sent(k)
      BY <1>1, <2>2 DEF Sent
    <3>. QED
      BY <1>3, <2>2, <3>1
  <2>3. CASE frames[k + 1] # "ping"
    <3>1. Sent(k + 1) = Sent(k) \cup {k + 1}
      BY <1>1, <2>3 DEF Sent
    <3>. QED
      BY <1>3, <2>1, <2>3, <3>1, FS_AddElement
  <2>. QED
    BY <2>2, <2>3
<1>. QED
  BY <1>3, <1>4, <1>5

LEMMA ReadStarts == ReadInit => ReadInv
<1>. SUFFICES ASSUME ReadInit PROVE ReadInv
  OBVIOUS
<1>1. /\ eol \in Eols /\ frames = <<>> /\ stream = <<>> /\ ends = <<>> /\ arrived = 0
      /\ buffer = <<>> /\ events = <<>> /\ reading = "open"
  BY DEF ReadInit
<1>2. Len(frames) = 0 /\ Len(ends) = 0 /\ Len(stream) = 0 /\ Len(events) = 0
  BY <1>1
<1>3. StartOf(0 + 1) = 0
  BY DEF StartOf
<1>4. FramesInv
  BY <1>1, <1>2, <1>3 DEF FramesInv
<1>5. HasRead(0)
  <2>1. Cardinality(Sent(0)) = 0
    BY <1>2, <1>4, SentIs
  <2>2. SubSeq(stream, 0 + 1, arrived) = <<>>
    BY <1>1
  <2>. QED
    BY <1>1, <1>2, <1>3, <2>1, <2>2 DEF HasRead
<1>6. InOrder
  BY <1>2 DEF InOrder
<1>. QED
  BY <1>1, <1>2, <1>4, <1>5, <1>6 DEF ReadInv

LEMMA FramesKept ==
    ASSUME FramesInv, UNCHANGED <<eol, frames, stream, ends>>
    PROVE  /\ FramesInv' /\ \A n : StartOf(n)' = StartOf(n) /\ Sent(n)' = Sent(n)
<1>1. \A n : StartOf(n)' = StartOf(n)
  BY DEF StartOf
<1>2. \A n : Sent(n)' = Sent(n)
  BY DEF Sent
<1>3. \A f : Encoded(f)' = Encoded(f)
  BY DEF Encoded
<1>4. FramesInv'
  BY <1>1, <1>3 DEF FramesInv
<1>. QED
  BY <1>1, <1>2, <1>4

LEMMA SendKeeps ==
    ASSUME ReadInv, NEW f \in Event \cup {"ping"}, Send(f)
    PROVE  ReadInv'
<1>. DEFINE L == Len(frames)
            E == Encoded(f)
<1>1. /\ frames' = Append(frames, f) /\ stream' = stream \o E
      /\ ends' = Append(ends, Len(stream) + Len(E))
      /\ UNCHANGED <<eol, arrived, buffer, events, reading>>
  BY DEF Send
<1>2. /\ FramesInv /\ eol \in Eols /\ L \in Nat /\ frames \in Seq(Event \cup {"ping"})
      /\ stream \in Seq(Symbol) /\ Len(stream) \in Nat /\ ends \in Seq(Nat) /\ Len(ends) = L
      /\ Len(stream) = StartOf(L + 1)
  <2>1. FramesInv
    BY DEF ReadInv
  <2>2. /\ eol \in Eols /\ frames \in Seq(Event \cup {"ping"}) /\ stream \in Seq(Symbol)
        /\ ends \in Seq(Nat) /\ Len(ends) = L /\ Len(stream) = StartOf(L + 1)
    BY <2>1 DEF FramesInv
  <2>3. L \in Nat /\ Len(stream) \in Nat
    BY <2>2
  <2>. QED
    BY <2>1, <2>2, <2>3
<1>3. E \in Seq(Symbol) /\ Len(E) \in Nat \ {0}
  BY <1>2, EncodedIs
<1>4. /\ stream' \in Seq(Symbol) /\ Len(stream') = Len(stream) + Len(E)
      /\ \A m \in 1..Len(stream) : stream'[m] = stream[m]
      /\ \A m \in 1..Len(E) : stream'[Len(stream) + m] = E[m]
  <2>. HIDE DEF E
  <2>1. /\ stream \o E \in Seq(Symbol) /\ Len(stream \o E) = Len(stream) + Len(E)
        /\ \A m \in 1..Len(stream) : (stream \o E)[m] = stream[m]
        /\ \A m \in 1..Len(E) : (stream \o E)[Len(stream) + m] = E[m]
    <3>1. stream \in Seq(Symbol) /\ E \in Seq(Symbol)
      BY <1>2, <1>3
    <3>. QED
      BY <3>1, Joined2
  <2>. QED
    BY <1>1, <2>1
<1>5. /\ frames' \in Seq(Event \cup {"ping"}) /\ Len(frames') = L + 1
      /\ \A m \in 1..L : frames'[m] = frames[m]
      /\ frames'[L + 1] = f
  BY <1>1, <1>2
<1>6. /\ ends' \in Seq(Nat) /\ Len(ends') = L + 1
      /\ \A m \in 1..L : ends'[m] = ends[m]
      /\ ends'[L + 1] = Len(stream) + Len(E)
  BY <1>1, <1>2, <1>3
<1>7. \A n \in 1..(L + 1) : StartOf(n)' = StartOf(n)
  <2>. TAKE n \in 1..(L + 1)
  <2>1. StartOf(n)' = IF n = 1 THEN 0 ELSE ends'[n - 1]
    BY DEF StartOf
  <2>2. n # 1 => n - 1 \in 1..L
    BY <1>2
  <2>. QED
    BY <1>6, <2>1, <2>2 DEF StartOf
<1>8. StartOf(Len(frames) + 1)' = Len(stream) + Len(E)
  <2>1. L + 1 + 1 # 1 /\ L + 1 + 1 - 1 = L + 1
    BY <1>2
  <2>2. StartOf(Len(frames) + 1)' = ends'[L + 1]
    <3>1. StartOf(Len(frames) + 1)'
              = IF Len(frames') + 1 = 1 THEN 0 ELSE ends'[Len(frames') + 1 - 1]
      BY DEF StartOf
    <3>. QED
      BY <1>5, <2>1, <3>1
  <2>. QED
    BY <1>6, <2>2
<1>9. \A g : Encoded(g)' = Encoded(g)
  BY <1>1 DEF Encoded
<1>10. \A m \in 1..L : ends[m] \in Nat /\ ends[m] <= Len(stream)
  <2>1. L \in 0..L
    BY <1>2
  <2>. QED
    BY <1>2, <2>1, StartsAre
<1>11. FramesInv'
  <2>1. Len(stream)' = StartOf(Len(frames) + 1)'
    BY <1>4, <1>8
  <2>2. ASSUME NEW n \in 1..(L + 1)
        PROVE  /\ ends'[n] = StartOf(n)' + Len(Encoded(frames[n]))'
               /\ \A i \in 1..Len(Encoded(frames[n]))' :
                     stream'[StartOf(n)' + i] = Encoded(frames[n])'[i]
    <3>1. CASE n = L + 1
      <4>1. StartOf(n)' = Len(stream) /\ Encoded(frames[n])' = E
        <5>1. Encoded(frames[n])' = Encoded(f)
          BY <1>1, <1>5, <3>1 DEF Encoded
        <5>. QED
          BY <1>2, <1>7, <3>1, <5>1
      <4>. QED
        BY <1>2, <1>3, <1>4, <1>6, <3>1, <4>1
    <3>2. CASE n # L + 1
      <4>1. n \in 1..L /\ n \in 1..(L + 1)
        BY <1>2, <3>2
      <4>2. Encoded(frames[n])' = Encoded(frames[n])
        BY <1>1, <1>5, <4>1 DEF Encoded
      <4>3. StartOf(n)' = StartOf(n) /\ ends'[n] = ends[n]
        BY <1>6, <1>7, <4>1
      <4>4. /\ ends[n] = StartOf(n) + Len(Encoded(frames[n]))
            /\ \A i \in 1..Len(Encoded(frames[n])) :
                  stream[StartOf(n) + i] = Encoded(frames[n])[i]
        BY <1>2, <4>1 DEF FramesInv
      <4>5. StartOf(n) \in Nat /\ Len(Encoded(frames[n])) \in Nat
        <5>1. n - 1 \in 0..L /\ n - 1 + 1 = n
          BY <1>2, <4>1
        <5>2. StartOf(n) \in Nat
          BY <1>2, <5>1, StartsAre
        <5>3. frames[n] \in Event \cup {"ping"}
          BY <1>2, <4>1
        <5>. QED
          BY <1>2, <5>2, <5>3, EncodedIs
      <4>6. \A i \in 1..Len(Encoded(frames[n])) : StartOf(n) + i \in 1..Len(stream)
        BY <1>2, <1>10, <4>1, <4>4, <4>5
      <4>. QED
        BY <1>4, <4>2, <4>3, <4>4, <4>6
    <3>. QED
      BY <3>1, <3>2
  <2>3. ASSUME NEW m \in 1..(L + 1), NEW n \in 1..(L + 1), m < n
        PROVE  ends'[m] < ends'[n]
    <3>1. m \in 1..L
      BY <1>2, <2>3
    <3>2. CASE n = L + 1
      BY <1>2, <1>3, <1>6, <1>10, <3>1, <3>2
    <3>3. CASE n # L + 1
      <4>1. n \in 1..L
        BY <1>2, <3>3
      <4>2. \A p, q \in 1..L : p < q => ends[p] < ends[q]
        BY <1>2 DEF FramesInv
      <4>3. ends[m] < ends[n]
        BY <2>3, <3>1, <4>1, <4>2
      <4>. QED
        BY <1>6, <3>1, <4>1, <4>3
    <3>. QED
      BY <3>2, <3>3
  <2>. QED
    BY <1>1, <1>2, <1>4, <1>5, <1>6, <2>1, <2>2, <2>3 DEF FramesInv
<1>12. \A n \in 0..L : Sent(n)' = Sent(n)
  BY <1>2, <1>5 DEF Sent
<1>13. arrived \in 0..Len(stream) /\ (arrived \in 0..Len(stream))'
  BY <1>1, <1>2, <1>3, <1>4 DEF ReadInv
<1>14. InOrder'
  <2>. SUFFICES ASSUME NEW n \in 1..Len(events)
                PROVE  \E m \in Sent(Len(frames))' :
                          /\ Cardinality(Sent(m))' = n
                          /\ \/ Intact(events[n], frames[m])'
                             \/ /\ Torn(events[n], frames[m])'
                                /\ n = Len(events)' /\ reading' = "ended" /\ arrived' < Len(stream)'
    BY <1>1 DEF InOrder
  <2>1. PICK m \in Sent(L) :
                          /\ Cardinality(Sent(m)) = n
                          /\ \/ Intact(events[n], frames[m])
                             \/ /\ Torn(events[n], frames[m])
                                /\ n = Len(events) /\ reading = "ended" /\ arrived < Len(stream)
    BY DEF ReadInv, InOrder
  <2>2. m \in 1..L /\ m \in 0..L /\ frames[m] # "ping"
    BY <1>2, <2>1 DEF Sent
  <2>3. m \in Sent(Len(frames))'
    BY <1>2, <1>5, <2>2 DEF Sent
  <2>4. frames'[m] = frames[m] /\ Sent(m)' = Sent(m)
    BY <1>5, <1>12, <2>2
  <2>5. Cardinality(Sent(m))' = n
    BY <2>1, <2>4
  <2>6. /\ Intact(events[n], frames[m]) => Intact(events[n], frames[m])'
        /\ Torn(events[n], frames[m]) => Torn(events[n], frames[m])'
    BY <1>1, <2>4 DEF Intact, Torn, Halves
  <2>7. arrived < Len(stream) => arrived' < Len(stream)'
    BY <1>1, <1>2, <1>3, <1>4, <1>13
  <2>. QED
    BY <1>1, <2>1, <2>3, <2>5, <2>6, <2>7
<1>15. ASSUME reading' # "ended" PROVE \E k \in 0..Len(frames)' : HasRead(k)'
  <2>1. PICK k \in 0..L : HasRead(k)
    BY <1>1, <1>15 DEF ReadInv
  <2>2. k + 1 \in 1..(L + 1) /\ k \in 0..Len(frames)'
    BY <1>2, <1>5
  <2>3. /\ StartOf(k + 1) <= arrived /\ buffer = SubSeq(stream, StartOf(k + 1) + 1, arrived)
        /\ Len(events) = Cardinality(Sent(k))
    BY <2>1 DEF HasRead
  <2>4. StartOf(k + 1)' = StartOf(k + 1) /\ Sent(k)' = Sent(k)
    BY <1>7, <1>12, <2>2
  <2>5. SubSeq(stream', StartOf(k + 1) + 1, arrived) = SubSeq(stream, StartOf(k + 1) + 1, arrived)
    <3>1. StartOf(k + 1) \in Nat /\ arrived \in Nat /\ arrived <= Len(stream)
      BY <1>2, <1>13, StartsAre
    <3>. DEFINE a == StartOf(k + 1) + 1
    <3>2. a \in Nat \ {0}
      BY <3>1
    <3>. HIDE DEF a
    <3>3. \A t \in Seq(Symbol) : arrived < a => SubSeq(t, a, arrived) = <<>>
      BY <3>1, <3>2
    <3>4. ASSUME a <= arrived PROVE SubSeq(stream', a, arrived) = SubSeq(stream, a, arrived)
      <4>1. /\ SubSeq(stream, a, arrived) \in Seq(Symbol)
            /\ Len(SubSeq(stream, a, arrived)) = arrived - a + 1
            /\ \A m \in 1..(arrived - a + 1) : SubSeq(stream, a, arrived)[m] = stream[a + m - 1]
        BY <1>2, <3>1, <3>2, <3>4, SliceOf
      <4>2. arrived <= Len(stream')
        BY <1>2, <1>3, <1>4, <3>1
      <4>3. /\ SubSeq(stream', a, arrived) \in Seq(Symbol)
            /\ Len(SubSeq(stream', a, arrived)) = arrived - a + 1
            /\ \A m \in 1..(arrived - a + 1) : SubSeq(stream', a, arrived)[m] = stream'[a + m - 1]
        BY <1>4, <3>1, <3>2, <3>4, <4>2, SliceOf
      <4>4. \A m \in 1..(arrived - a + 1) : stream'[a + m - 1] = stream[a + m - 1]
        <5>1. \A m \in 1..(arrived - a + 1) : a + m - 1 \in 1..Len(stream)
          BY <1>2, <3>1, <3>2
        <5>. QED
          BY <1>4, <5>1
      <4>. QED
        BY <4>1, <4>3, <4>4
    <3>5. SubSeq(stream', a, arrived) = SubSeq(stream, a, arrived)
      BY <1>2, <1>4, <3>1, <3>2, <3>3, <3>4
    <3>. QED
      BY <3>5 DEF a
  <2>. QED
    BY <1>1, <2>2, <2>3, <2>4, <2>5 DEF HasRead
<1>. QED
  BY <1>1, <1>11, <1>13, <1>14, <1>15 DEF ReadInv

LEMMA OthersKeep ==
    ASSUME ReadInv, UNCHANGED <<eol, frames, stream, ends, arrived, events, buffer>>,
           reading = "ended" => reading' = "ended"
    PROVE  ReadInv'
<1>1. FramesInv' /\ \A n : StartOf(n)' = StartOf(n) /\ Sent(n)' = Sent(n)
  BY FramesKept DEF ReadInv
<1>2. InOrder'
  BY <1>1 DEF ReadInv, InOrder, Intact, Torn, Halves
<1>3. \A k : HasRead(k)' <=> HasRead(k)
  BY <1>1 DEF HasRead
<1>. QED
  BY <1>1, <1>2, <1>3 DEF ReadInv

\* An event that came out stays where it is, and one more comes behind it.
LEMMA OrderGoesOn ==
    ASSUME ReadInv, reading # "ended", UNCHANGED frames,
           NEW n \in 1..Len(events), events'[n] = events[n]
    PROVE  \E m \in Sent(Len(frames))' :
              Cardinality(Sent(m))' = n /\ Intact(events'[n], frames'[m])
<1>1. PICK m \in Sent(Len(frames)) : Cardinality(Sent(m)) = n /\ Intact(events[n], frames[m])
  BY DEF ReadInv, InOrder
<1>2. m \in Sent(Len(frames))'
  BY DEF Sent
<1>3. Cardinality(Sent(m))' = Cardinality(Sent(m))
  BY DEF Sent
<1>. QED
  BY <1>1, <1>2, <1>3

LEMMA NoneAdded ==
    ASSUME ReadInv, reading # "ended", UNCHANGED <<frames, events>>
    PROVE  InOrder'
<1>. SUFFICES ASSUME NEW n \in 1..Len(events)
              PROVE  \E m \in Sent(Len(frames))' :
                        Cardinality(Sent(m))' = n /\ Intact(events'[n], frames'[m])
  BY DEF InOrder, Intact, Halves
<1>. QED
  BY OrderGoesOn

LEMMA OneAdded ==
    ASSUME ReadInv, reading # "ended", UNCHANGED frames,
           NEW k \in 0..(Len(frames) - 1), HasRead(k), frames[k + 1] # "ping",
           NEW x \in [event : Event, data : Seq(Symbol)], events' = events \o <<x>>,
           \/ Intact(x, frames[k + 1])
           \/ Torn(x, frames[k + 1]) /\ reading' = "ended" /\ (arrived < Len(stream))'
    PROVE  InOrder' /\ events' \in Seq([event : Event, data : Seq(Symbol)])
                    /\ Len(events') = Cardinality(Sent(k + 1))
<1>1. /\ FramesInv /\ Len(frames) \in Nat
      /\ events \in Seq([event : Event, data : Seq(Symbol)]) /\ Len(events) \in Nat
  BY DEF ReadInv, FramesInv
<1>. DEFINE Came == [event : Event, data : Seq(Symbol)]
<1>2. /\ events' \in Seq(Came) /\ Len(events') = Len(events) + 1
      /\ \A n \in 1..Len(events) : events'[n] = events[n]
      /\ events'[Len(events) + 1] = x
  <2>. HIDE DEF Came
  <2>1. events \in Seq(Came) /\ x \in Came
    BY <1>1 DEF Came
  <2>. QED
    BY <2>1
<1>3. Cardinality(Sent(k + 1)) = Len(events) + 1
  <2>1. k \in 0..Len(frames) /\ k < Len(frames)
    BY <1>1
  <2>. QED
    BY <1>1, <2>1, SentIs DEF HasRead
<1>4. InOrder'
  <2>. SUFFICES ASSUME NEW n \in 1..(Len(events) + 1)
                PROVE  \E m \in Sent(Len(frames))' :
                          /\ Cardinality(Sent(m))' = n
                          /\ \/ Intact(events[n], frames[m])'
                             \/ /\ Torn(events[n], frames[m])'
                                /\ n = Len(events') /\ reading' = "ended"
                                /\ (arrived < Len(stream))'
    BY <1>2 DEF InOrder
  <2>1. CASE n # Len(events) + 1
    <3>1. n \in 1..Len(events)
      BY <1>1, <2>1
    <3>2. PICK m \in Sent(Len(frames))' :
              Cardinality(Sent(m))' = n /\ Intact(events'[n], frames'[m])
      BY <1>2, <3>1, OrderGoesOn
    <3>. QED
      BY <3>2 DEF Intact, Halves
  <2>2. CASE n = Len(events) + 1
    <3>1. k + 1 \in Sent(Len(frames))'
      BY <1>1 DEF Sent
    <3>2. Cardinality(Sent(k + 1))' = n
      <4>1. Sent(k + 1)' = Sent(k + 1)
        BY DEF Sent
      <4>. QED
        BY <1>3, <2>2, <4>1
    <3>3. /\ Intact(x, frames[k + 1]) => Intact(events[n], frames[k + 1])'
          /\ Torn(x, frames[k + 1]) => Torn(events[n], frames[k + 1])'
      BY <1>2, <2>2 DEF Intact, Torn, Halves
    <3>. QED
      BY <1>2, <2>2, <3>1, <3>2, <3>3
  <2>. QED
    BY <2>1, <2>2
<1>. QED
  BY <1>2, <1>3, <1>4

\* Slices that follow one another, and slices of slices.
LEMMA SlicesJoin ==
    ASSUME NEW S, NEW s \in Seq(S), NEW a \in Nat \ {0}, NEW b \in Nat, NEW c \in Nat,
           a <= b + 1, b < c, c <= Len(s)
    PROVE  SubSeq(s, a, b) \o SubSeq(s, b + 1, c) = SubSeq(s, a, c)
<1>1. /\ SubSeq(s, b + 1, c) \in Seq(S) /\ Len(SubSeq(s, b + 1, c)) = c - b
      /\ \A m \in 1..(c - b) : SubSeq(s, b + 1, c)[m] = s[b + m]
  <2>1. b + 1 \in Nat \ {0} /\ b + 1 <= c /\ c - (b + 1) + 1 = c - b
    OBVIOUS
  <2>2. /\ SubSeq(s, b + 1, c) \in Seq(S) /\ Len(SubSeq(s, b + 1, c)) = c - (b + 1) + 1
        /\ \A m \in 1..(c - (b + 1) + 1) : SubSeq(s, b + 1, c)[m] = s[b + 1 + m - 1]
    BY <2>1, SliceOf
  <2>3. \A m \in 1..(c - b) : b + 1 + m - 1 = b + m
    OBVIOUS
  <2>. QED
    BY <2>1, <2>2, <2>3
<1>2. CASE a = b + 1
  <2>1. SubSeq(s, a, b) = <<>>
    BY <1>2
  <2>. QED
    BY <1>1, <1>2, <2>1
<1>3. CASE a <= b
  <2>. DEFINE t == SubSeq(s, a, b)
              u == SubSeq(s, b + 1, c)
              v == SubSeq(s, a, c)
  <2>1. /\ t \in Seq(S) /\ Len(t) = b - a + 1 /\ \A m \in 1..(b - a + 1) : t[m] = s[a + m - 1]
    BY <1>3, SliceOf
  <2>2. /\ v \in Seq(S) /\ Len(v) = c - a + 1 /\ \A m \in 1..(c - a + 1) : v[m] = s[a + m - 1]
    BY <1>3, SliceOf
  <2>3. /\ u \in Seq(S) /\ Len(u) = c - b /\ \A m \in 1..(c - b) : u[m] = s[b + m]
    BY <1>1
  <2>. HIDE DEF t, u, v
  <2>4. /\ t \o u \in Seq(S) /\ Len(t \o u) = Len(t) + Len(u)
        /\ \A m \in 1..Len(t) : (t \o u)[m] = t[m]
        /\ \A m \in 1..Len(u) : (t \o u)[Len(t) + m] = u[m]
    <3>1. t \in Seq(S) /\ u \in Seq(S)
      BY <2>1, <2>3
    <3>. QED
      BY <3>1, Joined2
  <2>5. Len(t \o u) = Len(v)
    BY <1>3, <2>1, <2>2, <2>3, <2>4
  <2>6. \A m \in 1..Len(v) : (t \o u)[m] = v[m]
    <3>. TAKE m \in 1..Len(v)
    <3>1. CASE m <= b - a + 1
      BY <1>3, <2>1, <2>2, <2>4, <3>1
    <3>2. CASE m > b - a + 1
      <4>. DEFINE j == m - (b - a + 1)
      <4>1. j \in 1..Len(u) /\ Len(t) + j = m /\ b + j = a + m - 1
        BY <1>3, <2>1, <2>2, <2>3, <3>2
      <4>. HIDE DEF j
      <4>2. (t \o u)[m] = u[j] /\ u[j] = s[a + m - 1]
        BY <2>3, <2>4, <4>1
      <4>3. v[m] = s[a + m - 1]
        BY <2>2
      <4>. QED
        BY <4>2, <4>3
    <3>3. m <= b - a + 1 \/ m > b - a + 1
      BY <2>2
    <3>. QED
      BY <3>1, <3>2, <3>3
  <2>7. t \o u = v
    <3>. DEFINE w == t \o u
    <3>1. w \in Seq(S) /\ Len(w) = Len(v) /\ \A m \in 1..Len(v) : w[m] = v[m]
      BY <2>4, <2>5, <2>6
    <3>. HIDE DEF w
    <3>2. w = v
      BY <2>2, <3>1
    <3>. QED
      BY <3>2 DEF w
  <2>. QED
    BY <2>7 DEF t, u, v
<1>. QED
  BY <1>2, <1>3

LEMMA SliceOfSlice ==
    ASSUME NEW S, NEW s \in Seq(S), NEW a \in Nat \ {0}, NEW b \in Nat, b <= Len(s), a <= b,
           NEW c \in Nat, c <= b - a + 1
    PROVE  SubSeq(SubSeq(s, a, b), c + 1, b - a + 1) = SubSeq(s, a + c, b)
<1>. DEFINE t == SubSeq(s, a, b)
<1>1. t \in Seq(S) /\ Len(t) = b - a + 1 /\ \A m \in 1..(b - a + 1) : t[m] = s[a + m - 1]
  BY SliceOf
<1>. HIDE DEF t
<1>2. CASE c = b - a + 1
  <2>1. a + c = b + 1 /\ c + 1 > b - a + 1
    BY <1>2
  <2>2. SubSeq(t, c + 1, b - a + 1) = <<>> /\ SubSeq(s, a + c, b) = <<>>
    BY <1>1, <2>1
  <2>. QED
    BY <2>2 DEF t
<1>3. CASE c < b - a + 1
  <2>. DEFINE u == SubSeq(t, c + 1, b - a + 1)
              v == SubSeq(s, a + c, b)
  <2>1. c + 1 \in Nat \ {0} /\ c + 1 <= b - a + 1 /\ b - a + 1 \in Nat /\ b - a + 1 <= Len(t)
        /\ b - a + 1 - (c + 1) + 1 = b - a - c + 1
    BY <1>1, <1>3
  <2>2. /\ u \in Seq(S) /\ Len(u) = b - a - c + 1
        /\ \A m \in 1..(b - a - c + 1) : u[m] = t[c + 1 + m - 1]
    <3>1. /\ u \in Seq(S) /\ Len(u) = b - a + 1 - (c + 1) + 1
          /\ \A m \in 1..(b - a + 1 - (c + 1) + 1) : u[m] = t[c + 1 + m - 1]
      BY <1>1, <2>1, SliceOf
    <3>. QED
      BY <2>1, <3>1
  <2>3. a + c \in Nat \ {0} /\ a + c <= b /\ b - (a + c) + 1 = b - a - c + 1
    BY <1>3
  <2>4. /\ v \in Seq(S) /\ Len(v) = b - a - c + 1
        /\ \A m \in 1..(b - a - c + 1) : v[m] = s[a + c + m - 1]
    <3>1. /\ v \in Seq(S) /\ Len(v) = b - (a + c) + 1
          /\ \A m \in 1..(b - (a + c) + 1) : v[m] = s[a + c + m - 1]
      BY <2>3, SliceOf
    <3>. QED
      BY <2>3, <3>1
  <2>5. \A m \in 1..(b - a - c + 1) : u[m] = v[m]
    <3>. TAKE m \in 1..(b - a - c + 1)
    <3>1. c + 1 + m - 1 \in 1..(b - a + 1) /\ a + (c + 1 + m - 1) - 1 = a + c + m - 1
      BY <1>3
    <3>. QED
      BY <1>1, <2>2, <2>4, <3>1
  <2>. HIDE DEF u, v
  <2>6. u = v
    BY <2>2, <2>4, <2>5
  <2>. QED
    BY <2>6 DEF u, v, t
<1>. QED
  BY <1>2, <1>3

LEMMA ReadKeepsIt == ReadInv /\ Read => ReadInv'
<1>. SUFFICES ASSUME ReadInv, Read PROVE ReadInv'
  OBVIOUS
<1>1. PICK n \in (arrived + 1)..Len(stream) :
          buffer' = buffer \o SubSeq(stream, arrived + 1, n) /\ arrived' = n
  BY DEF Read, Accumulated
<1>2. reading = "open" /\ UNCHANGED <<eol, frames, stream, ends, events, reading>>
  BY DEF Read
<1>3. FramesInv /\ arrived \in 0..Len(stream)
  BY DEF ReadInv
<1>4. FramesInv' /\ \A i : StartOf(i)' = StartOf(i) /\ Sent(i)' = Sent(i)
  BY <1>2, <1>3, FramesKept
<1>5. PICK k \in 0..Len(frames) : HasRead(k)
  BY <1>2 DEF ReadInv
<1>. DEFINE a == StartOf(k + 1)
<1>6. /\ a \in Nat /\ a <= arrived /\ arrived \in Nat /\ n \in Nat /\ arrived < n
      /\ n <= Len(stream) /\ stream \in Seq(Symbol) /\ Len(stream) \in Nat
      /\ buffer = SubSeq(stream, a + 1, arrived)
  BY <1>3, <1>5, StartsAre DEF FramesInv, HasRead
<1>. HIDE DEF a
<1>7. buffer' = SubSeq(stream, a + 1, n)
  <2>1. a + 1 \in Nat \ {0} /\ a + 1 <= arrived + 1
    BY <1>6
  <2>2. SubSeq(stream, a + 1, arrived) \o SubSeq(stream, arrived + 1, n) = SubSeq(stream, a + 1, n)
    BY <1>6, <2>1, SlicesJoin
  <2>. QED
    BY <1>1, <1>6, <2>2
<1>8. HasRead(k)'
  <2>1. a = StartOf(k + 1) /\ a = StartOf(k + 1)' /\ Sent(k)' = Sent(k)
    BY <1>4 DEF a
  <2>2. a <= n /\ Len(events) = Cardinality(Sent(k))
    BY <1>5, <1>6 DEF HasRead
  <2>3. buffer' = SubSeq(stream', a + 1, arrived') /\ a <= arrived'
    BY <1>1, <1>2, <1>7, <2>2
  <2>4. Len(events') = Cardinality(Sent(k)')
    BY <1>2, <2>1, <2>2
  <2>. QED
    BY <2>1, <2>3, <2>4 DEF HasRead
<1>9. InOrder'
  BY <1>2, NoneAdded
<1>. QED
  BY <1>1, <1>2, <1>4, <1>6, <1>8, <1>9 DEF ReadInv

LEMMA ExtractKeeps == ReadInv /\ Extract => ReadInv'
<1>. SUFFICES ASSUME ReadInv, Extract PROVE ReadInv'
  OBVIOUS
<1>. DEFINE i == First(Boundaries(buffer))
<1>1. /\ reading = "open" /\ Boundaries(buffer) # {}
      /\ events' = events \o Parsed(SubSeq(buffer, 1, i - 1))
      /\ buffer' = SubSeq(buffer, i + BoundaryLength(buffer, i), Len(buffer))
      /\ UNCHANGED <<eol, frames, stream, ends, arrived, reading>>
  BY DEF Extract
<1>2. FramesInv /\ arrived \in 0..Len(stream) /\ eol \in Eols /\ Len(frames) \in Nat
  BY DEF ReadInv, FramesInv
<1>3. FramesInv' /\ \A n : StartOf(n)' = StartOf(n) /\ Sent(n)' = Sent(n)
  BY <1>1, <1>2, FramesKept
<1>4. PICK k \in 0..(Len(frames) - 1) : HasRead(k)
  <2>1. PICK k \in 0..Len(frames) : HasRead(k)
    BY <1>1 DEF ReadInv
  <2>2. k # Len(frames)
    <3>. SUFFICES ASSUME k = Len(frames) PROVE FALSE
      OBVIOUS
    <3>1. buffer = <<>>
      BY <1>2, <2>1, NothingLeft
    <3>2. Boundaries(buffer) = {}
      BY <3>1 DEF Boundaries
    <3>. QED
      BY <1>1, <3>2
  <2>. QED
    BY <1>2, <2>1, <2>2
<1>. DEFINE f == frames[k + 1]
            a == StartOf(k + 1)
            B == Len(Body(f))
            E == Len(Encoded(f))
<1>5. /\ k \in 0..Len(frames) /\ k + 1 \in 0..Len(frames) /\ k + 1 \in 1..Len(frames)
      /\ f \in Event \cup {"ping"} /\ E \in Nat \ {0}
      /\ StartOf(k + 1 + 1) = ends[k + 1] /\ StartOf(k + 1 + 1) = a + E
  BY <1>2, <1>4, FrameIs
<1>6. BeginsAs(buffer, f)
  BY <1>2, <1>4, BufferBegins
<1>7. /\ buffer \in Seq(Symbol)
      /\ Len(buffer) = arrived - a /\ Len(buffer) \in Nat /\ arrived \in Nat
      /\ buffer = SubSeq(stream, a + 1, arrived) /\ Len(events) = Cardinality(Sent(k))
  BY <1>2, <1>4, <1>5, BufferIs DEF HasRead
<1>8. a \in Nat /\ stream \in Seq(Symbol) /\ arrived <= Len(stream) /\ Len(stream) \in Nat
  BY <1>2, <1>5, StartsAre DEF FramesInv
<1>. HIDE DEF i, f, a
<1>9. E <= Len(buffer)
  <2>1. E \in Nat /\ Len(buffer) \in Nat /\ ~(Len(buffer) < E) => E <= Len(buffer)
    OBVIOUS
  <2>2. ~(Len(buffer) < Len(Encoded(f)))
    BY <1>1, <1>2, <1>5, <1>6, <1>7, NoneBeforeTheEnd
  <2>. QED
    BY <1>5, <1>7, <2>1, <2>2
<1>10. i = B + 1 /\ BoundaryLength(buffer, i) = 2 * Len(eol)
  BY <1>2, <1>5, <1>6, <1>7, <1>9, OneAtTheEnd DEF i
<1>11. B \in Nat \ {0} /\ Len(eol) \in Nat \ {0} /\ E = B + 2 * Len(eol)
  BY <1>2, <1>5, EncodedIs
<1>12. buffer' = SubSeq(stream, a + E + 1, arrived)
  <2>1. i + BoundaryLength(buffer, i) = E + 1
    BY <1>10, <1>11
  <2>2. buffer' = SubSeq(buffer, E + 1, Len(buffer))
    BY <1>1, <2>1
  <2>3. /\ a + 1 \in Nat \ {0} /\ a + 1 <= arrived /\ E <= arrived - (a + 1) + 1
        /\ Len(buffer) = arrived - (a + 1) + 1 /\ a + 1 + E = a + E + 1
    BY <1>5, <1>7, <1>8, <1>9
  <2>4. SubSeq(SubSeq(stream, a + 1, arrived), E + 1, arrived - (a + 1) + 1)
            = SubSeq(stream, a + 1 + E, arrived)
    BY <1>5, <1>7, <1>8, <2>3, SliceOfSlice
  <2>. QED
    BY <1>7, <2>2, <2>3, <2>4
<1>. DEFINE s == SubSeq(buffer, 1, i - 1)
<1>13. Parsed(s) = IF f = "ping" THEN <<>> ELSE <<[event |-> f, data |-> Halves(f)]>>
  <2>1. i - 1 = B /\ 1 <= B /\ B <= Len(buffer) /\ B <= E /\ B - 1 + 1 = B
    BY <1>7, <1>9, <1>10, <1>11
  <2>2. s \in Seq(Symbol) /\ Len(s) = B /\ \A m \in 1..B : s[m] = buffer[m]
    <3>0. s = SubSeq(buffer, 1, B)
      BY <2>1
    <3>. HIDE DEF s
    <3>1. /\ SubSeq(buffer, 1, B) \in Seq(Symbol) /\ Len(SubSeq(buffer, 1, B)) = B - 1 + 1
          /\ \A m \in 1..(B - 1 + 1) : SubSeq(buffer, 1, B)[m] = buffer[1 + m - 1]
      <4>1. 1 \in Nat \ {0} /\ B \in Nat
        BY <1>11
      <4>2. buffer \in Seq(Symbol) /\ 1 <= B /\ B <= Len(buffer)
        BY <1>7, <2>1
      <4>. HIDE DEF B
      <4>. QED
        BY <4>1, <4>2, SliceOf
    <3>. QED
      BY <1>11, <2>1, <3>0, <3>1
  <2>. HIDE DEF s
  <2>3. BeginsAs(s, f)
    <3>1. \A m \in 1..Len(s) : m \in 1..Len(buffer) /\ s[m] = buffer[m]
      BY <1>7, <1>11, <2>1, <2>2
    <3>. QED
      BY <1>6, <3>1 DEF BeginsAs
  <2>4. Parsed(s) = Piecewise(f, B)
    BY <1>2, <1>5, <2>1, <2>2, <2>3, ParsedIs
  <2>5. f # "ping" => B = 3 + Len(eol)
    BY <1>2, <1>5, BodyIs
  <2>6. f # "ping" => ~(B < 2 + Len(eol)) /\ B # 2 + Len(eol)
    BY <1>11, <2>5
  <2>. QED
    BY <2>4, <2>6 DEF Piecewise
<1>. HIDE DEF s
<1>14. events' = events \o Parsed(s)
  BY <1>1 DEF s
<1>15. /\ InOrder' /\ events' \in Seq([event : Event, data : Seq(Symbol)])
       /\ Len(events') = Cardinality(Sent(k + 1))
  <2>1. events \in Seq([event : Event, data : Seq(Symbol)])
    BY DEF ReadInv
  <2>2. CASE f = "ping"
    <3>1. events' = events
      BY <1>13, <1>14, <2>1, <2>2
    <3>2. Cardinality(Sent(k + 1)) = Cardinality(Sent(k))
      <4>1. k < Len(frames) /\ Cardinality(Sent(k)) \in Nat
        BY <1>2, <1>4, <1>5, SentIs
      <4>. QED
        BY <1>2, <1>5, <2>2, <4>1, SentIs DEF f
    <3>. QED
      BY <1>1, <1>7, <2>1, <3>1, <3>2, NoneAdded
  <2>3. CASE f # "ping"
    <3>. DEFINE x == [event |-> f, data |-> Halves(f)]
    <3>1. x \in [event : Event, data : Seq(Symbol)]
      <4>1. f \in Event
        BY <1>5, <2>3
      <4>2. <<"open", f>> \in Symbol /\ <<"close", f>> \in Symbol
        BY <4>1 DEF Symbol
      <4>3. Halves(f) \in Seq(Symbol)
        BY <4>2 DEF Halves
      <4>. QED
        BY <4>1, <4>3
    <3>2. Intact(x, frames[k + 1])
      BY DEF Intact, f
    <3>3. events' = events \o <<x>>
      BY <1>13, <1>14, <2>3
    <3>. HIDE DEF x
    <3>4. frames[k + 1] # "ping"
      BY <2>3 DEF f
    <3>. QED
      BY <1>1, <1>4, <3>1, <3>2, <3>3, <3>4, OneAdded
  <2>. QED
    BY <2>2, <2>3
<1>16. HasRead(k + 1)'
  <2>1. StartOf(k + 1 + 1)' = a + E /\ a + E <= arrived
    BY <1>3, <1>5, <1>7, <1>8, <1>9
  <2>2. Len(events') = Cardinality(Sent(k + 1)')
    BY <1>3, <1>15
  <2>3. buffer' = SubSeq(stream', a + E + 1, arrived')
    BY <1>1, <1>12
  <2>. QED
    BY <1>1, <2>1, <2>2, <2>3 DEF HasRead
<1>. QED
  BY <1>1, <1>2, <1>3, <1>5, <1>15, <1>16 DEF ReadInv

LEMMA EndsKeeps == ReadInv /\ Ends => ReadInv'
<1>. SUFFICES ASSUME ReadInv, Ends PROVE ReadInv'
  OBVIOUS
<1>1. /\ reading = "open" /\ Boundaries(buffer) = {} /\ events' = events \o Parsed(buffer)
      /\ reading' = "ended" /\ UNCHANGED <<eol, frames, stream, ends, arrived>>
  BY DEF Ends
<1>2. FramesInv /\ arrived \in 0..Len(stream) /\ eol \in Eols /\ Len(frames) \in Nat
  BY DEF ReadInv, FramesInv
<1>3. FramesInv'
  BY <1>1, <1>2, FramesKept
<1>4. events \in Seq([event : Event, data : Seq(Symbol)])
  BY DEF ReadInv
<1>5. ASSUME Parsed(buffer) = <<>>
      PROVE  InOrder' /\ events' \in Seq([event : Event, data : Seq(Symbol)])
  <2>1. events' = events
    BY <1>1, <1>4, <1>5
  <2>. QED
    BY <1>1, <1>4, <2>1, NoneAdded
<1>6. PICK k \in 0..Len(frames) : HasRead(k)
  BY <1>1 DEF ReadInv
<1>7. CASE k = Len(frames)
  <2>1. buffer = <<>>
    BY <1>2, <1>6, <1>7, NothingLeft
  <2>2. Symbols(buffer, {"open", "close"}) = {}
    BY <2>1 DEF Symbols
  <2>3. Parsed(buffer) = <<>>
    BY <2>2, OnlyNone DEF Parsed, DataOf
  <2>. QED
    BY <1>1, <1>2, <1>3, <1>5, <2>3 DEF ReadInv
<1>8. CASE k # Len(frames)
  <2>. DEFINE f == frames[k + 1]
  <2>1. k \in 0..(Len(frames) - 1)
    BY <1>2, <1>6, <1>8
  <2>2. /\ k + 1 \in 1..Len(frames) /\ k + 1 \in 0..Len(frames) /\ f \in Event \cup {"ping"}
        /\ Len(Encoded(f)) \in Nat /\ StartOf(k + 1 + 1) = StartOf(k + 1) + Len(Encoded(f))
    BY <1>2, <2>1, FrameIs
  <2>3. BeginsAs(buffer, f)
    BY <1>2, <1>6, <2>1, BufferBegins
  <2>4. buffer \in Seq(Symbol) /\ Len(buffer) = arrived - StartOf(k + 1) /\ Len(buffer) \in Nat
        /\ arrived \in Nat
    BY <1>2, <1>6, BufferIs
  <2>. HIDE DEF f
  <2>5. Len(buffer) < Len(Encoded(f))
    BY <1>1, <1>2, <2>2, <2>3, <2>4, OneAtTheEnd
  <2>6. arrived < Len(stream)
    <3>1. StartOf(k + 1 + 1) <= Len(stream) /\ StartOf(k + 1) \in Nat /\ Len(stream) \in Nat
      BY <1>2, <1>6, <2>2, StartsAre
    <3>. QED
      BY <2>2, <2>4, <2>5, <3>1
  <2>7. Parsed(buffer) = Piecewise(f, Len(buffer))
    BY <1>2, <2>2, <2>3, <2>4, <2>5, ParsedIs
  <2>8. InOrder' /\ events' \in Seq([event : Event, data : Seq(Symbol)])
    <3>1. CASE Parsed(buffer) = <<>>
      BY <1>5, <3>1
    <3>2. CASE Parsed(buffer) # <<>>
      <4>1. f # "ping" /\ f \in Event
        BY <2>2, <2>7, <3>2 DEF Piecewise
      <4>2. <<"open", f>> \in Symbol /\ <<"close", f>> \in Symbol
        BY <4>1 DEF Symbol
      <4>3. Halves(f) \in Seq(Symbol) /\ <<Halves(f)[1]>> \in Seq(Symbol)
        BY <4>2 DEF Halves
      <4>4. PICK x \in [event : Event, data : Seq(Symbol)] :
                Parsed(buffer) = <<x>> /\ (Intact(x, f) \/ Torn(x, f))
        <5>. DEFINE whole == [event |-> f, data |-> Halves(f)]
                    torn == [event |-> f, data |-> <<Halves(f)[1]>>]
        <5>1. Parsed(buffer) \in {<<whole>>, <<torn>>}
          BY <2>7, <3>2 DEF Piecewise
        <5>2. /\ whole \in [event : Event, data : Seq(Symbol)]
              /\ torn \in [event : Event, data : Seq(Symbol)]
          BY <4>1, <4>3
        <5>3. Intact(whole, f) /\ Torn(torn, f)
          BY DEF Intact, Torn
        <5>. HIDE DEF whole, torn
        <5>. QED
          BY <5>1, <5>2, <5>3
      <4>5. events' = events \o <<x>>
        BY <1>1, <4>4
      <4>6. (arrived < Len(stream))'
        BY <1>1, <2>6
      <4>7. frames[k + 1] # "ping" /\ (Intact(x, frames[k + 1]) \/ Torn(x, frames[k + 1]))
        BY <4>1, <4>4 DEF f
      <4>8. reading # "ended"
        BY <1>1
      <4>. QED
        BY <1>1, <1>6, <2>1, <4>5, <4>6, <4>7, <4>8, OneAdded
    <3>. QED
      BY <3>1, <3>2
  <2>. QED
    BY <1>1, <1>2, <1>3, <2>8 DEF ReadInv
<1>. QED
  BY <1>7, <1>8

LEMMA ReadInvKeeps == ReadInv /\ [ReadNext]_readVars => ReadInv'
<1>. SUFFICES ASSUME ReadInv, [ReadNext]_readVars PROVE ReadInv'
  OBVIOUS
<1>1. CASE \E f \in Event \cup {"ping"} : Send(f)
  BY <1>1, SendKeeps
<1>2. CASE Read
  BY <1>2, ReadKeepsIt
<1>3. CASE Extract
  BY <1>3, ExtractKeeps
<1>4. CASE Ends
  BY <1>4, EndsKeeps
<1>5. CASE Broken
  <2>1. reading = "open" /\ reading' = "broken"
    BY <1>5 DEF Broken
  <2>2. UNCHANGED <<eol, frames, stream, ends, arrived, events, buffer>>
    BY <1>5 DEF Broken
  <2>. QED
    BY <2>1, <2>2, OthersKeep
<1>6. CASE UNCHANGED readVars
  <2>1. UNCHANGED <<eol, frames, stream, ends, arrived, events, buffer>> /\ reading' = reading
    BY <1>6 DEF readVars
  <2>. QED
    BY <2>1, OthersKeep
<1>. QED
  BY <1>1, <1>2, <1>3, <1>4, <1>5, <1>6 DEF ReadNext

\* Between two reads the frames that have wholly arrived are those done with.
LEMMA NoneHeldBack ==
    ASSUME ReadInv, reading = "open", Boundaries(buffer) = {}
    PROVE  Len(events) = Cardinality(Sent(Cardinality(WhollyArrived)))
<1>1. FramesInv /\ arrived \in 0..Len(stream) /\ eol \in Eols /\ Len(frames) \in Nat
  BY DEF ReadInv, FramesInv
<1>2. PICK k \in 0..Len(frames) : HasRead(k)
  BY DEF ReadInv
<1>3. /\ StartOf(k + 1) \in Nat /\ arrived \in Nat /\ StartOf(k + 1) <= arrived
      /\ \A m \in 1..k : m \in 1..Len(frames) /\ ends[m] \in Nat /\ ends[m] <= StartOf(k + 1)
      /\ \A m \in 1..Len(frames) : ends[m] \in Nat
  <2>1. /\ StartOf(k + 1) \in Nat
        /\ \A m \in 1..k : m \in 1..Len(frames) /\ ends[m] \in Nat /\ ends[m] <= StartOf(k + 1)
    BY <1>1, <1>2, StartsAre
  <2>2. arrived \in Nat /\ StartOf(k + 1) <= arrived
    <3>1. Len(stream) \in Nat
      BY <1>1, <1>2, StartsAre
    <3>. QED
      BY <1>1, <1>2, <3>1 DEF HasRead
  <2>3. \A m \in 1..Len(frames) : ends[m] \in Nat
    BY <1>1 DEF FramesInv
  <2>. QED
    BY <2>1, <2>2, <2>3
<1>4. ASSUME k # Len(frames) PROVE arrived < ends[k + 1]
  <2>. DEFINE f == frames[k + 1]
  <2>1. k \in 0..(Len(frames) - 1)
    BY <1>1, <1>2, <1>4
  <2>2. /\ f \in Event \cup {"ping"} /\ Len(Encoded(f)) \in Nat
        /\ ends[k + 1] = StartOf(k + 1) + Len(Encoded(f))
    BY <1>1, <2>1, FrameIs
  <2>3. BeginsAs(buffer, f)
    BY <1>1, <1>2, <2>1, BufferBegins
  <2>4. buffer \in Seq(Symbol) /\ Len(buffer) = arrived - StartOf(k + 1) /\ Len(buffer) \in Nat
    BY <1>1, <1>2, BufferIs
  <2>. HIDE DEF f
  <2>5. Len(buffer) < Len(Encoded(f))
    BY <1>1, <2>2, <2>3, <2>4, OneAtTheEnd
  <2>. QED
    BY <1>3, <2>2, <2>4, <2>5
<1>5. \A m \in 1..Len(frames) : m > k => arrived < ends[m]
  <2>. TAKE m \in 1..Len(frames)
  <2>. HAVE m > k
  <2>1. k # Len(frames) /\ k + 1 \in 1..Len(frames) /\ (m = k + 1 \/ k + 1 < m)
    BY <1>1, <1>2
  <2>2. ends[k + 1] <= ends[m] /\ ends[m] \in Nat /\ ends[k + 1] \in Nat
    <3>1. k + 1 < m => ends[k + 1] < ends[m]
      BY <1>1, <2>1 DEF FramesInv
    <3>. QED
      BY <1>3, <2>1, <3>1
  <2>. QED
    BY <1>3, <1>4, <2>1, <2>2
<1>6. WhollyArrived = 1..k
  BY <1>1, <1>2, <1>3, <1>5 DEF WhollyArrived
<1>7. Cardinality(1..k) = k
  BY <1>2, FS_Interval
<1>. QED
  BY <1>2, <1>6, <1>7 DEF HasRead

\* However a stream is cut into chunks, and wherever it ends or breaks, the
\* reader yields the events that were sent, in their order, none later than its
\* frame is complete, and at most the last one torn (readEvents of sse.ts).
THEOREM ReaderKeepsStep == ReadSpec => []ReadInStep
<1>1. ReadInv => ReadInStep
  BY NoneHeldBack DEF ReadInv, ReadInStep
<1>. QED
  BY <1>1, ReadStarts, ReadInvKeeps, PTL DEF ReadSpec

-------------------------------------------------------------------------------
(* RankFusion: by the place the loop has come to, a chunk's score is the sum   *)
(* of the shares of its places in the rankings, and the sort loses nobody.    *)

\* Fractions with positive denominators.
Fraction == Nat \X (Nat \ {0})

\* They are in a linear order.
LEMMA AboveOrder ==
    ASSUME NEW a \in Fraction, NEW b \in Fraction, NEW c \in Fraction
    PROVE  /\ ~Above(a, a)
           /\ Above(a, b) => ~Above(b, a)
           /\ ~Above(b, a) /\ ~Above(c, b) => ~Above(c, a)
           /\ Above(a, b) /\ ~Above(c, b) => Above(a, c)
           /\ ~Above(b, a) /\ Above(b, c) => Above(a, c)
<1>. DEFINE p == a[1]
            q == a[2]
            r == b[1]
            s == b[2]
            t == c[1]
            u == c[2]
<1>1. /\ p \in Nat /\ r \in Nat /\ t \in Nat
      /\ q \in Nat \ {0} /\ s \in Nat \ {0} /\ u \in Nat \ {0}
  BY DEF Fraction
<1>2. /\ Above(a, b) <=> p * s > r * q
      /\ Above(b, a) <=> r * q > p * s
      /\ Above(c, b) <=> t * s > r * u
      /\ Above(b, c) <=> r * u > t * s
      /\ Above(c, a) <=> t * q > p * u
      /\ Above(a, c) <=> p * u > t * q
      /\ ~Above(a, a)
  BY <1>1 DEF Above
<1>. HIDE DEF p, q, r, s, t, u
<1>3. /\ p * s \in Nat /\ r * q \in Nat /\ t * s \in Nat /\ r * u \in Nat
      /\ t * q \in Nat /\ p * u \in Nat
  BY <1>1
<1>4. /\ (p * s) * u = (p * u) * s /\ (r * q) * u = (r * u) * q /\ (t * s) * q = (t * q) * s
      /\ (p * s) * u \in Nat /\ (r * q) * u \in Nat /\ (t * s) * q \in Nat
  BY <1>1
<1>5. /\ r * q <= p * s => (r * q) * u <= (p * s) * u
      /\ r * q < p * s => (r * q) * u < (p * s) * u
      /\ t * s <= r * u => (t * s) * q <= (r * u) * q
      /\ t * s < r * u => (t * s) * q < (r * u) * q
  BY <1>1, <1>3, Cancels
<1>6. /\ (t * q) * s <= (p * u) * s => t * q <= p * u
      /\ (t * q) * s < (p * u) * s => t * q < p * u
  BY <1>1, <1>3, Cancels
<1>7. ~Above(b, a) /\ ~Above(c, b) => ~Above(c, a)
  BY <1>2, <1>3, <1>4, <1>5, <1>6
<1>8. Above(a, b) /\ ~Above(c, b) => Above(a, c)
  BY <1>2, <1>3, <1>4, <1>5, <1>6
<1>9. ~Above(b, a) /\ Above(b, c) => Above(a, c)
  BY <1>2, <1>3, <1>4, <1>5, <1>6
<1>. QED
  BY <1>2, <1>3, <1>7, <1>8, <1>9

\* Two shares of the least kind outweigh the greatest alone.
LEMMA TwoOutweighOne ==
    ASSUME NEW k \in Nat, NEW x \in Nat \ {0}, NEW y \in Nat \ {0}, NEW z \in Nat,
           x <= 2 * k + 1, y <= 2 * k + 1, k + 1 <= z
    PROVE  (y + x) * z > 1 * (x * y)
<1>. DEFINE w == 2 * k + 1
            v == k + 1
<1>1. w \in Nat /\ v \in Nat /\ 2 * v = w + 1 /\ x <= w /\ y <= w /\ v <= z
  OBVIOUS
<1>. HIDE DEF w, v
<1>2. (w - x) \in Nat /\ (w - x) * y \in Nat /\ (w - x) * y = w * y - x * y
  BY <1>1
<1>3. (w - y) \in Nat /\ (w - y) * x \in Nat /\ (w - y) * x = w * x - x * y
  BY <1>1
<1>4. (z - v) \in Nat /\ (z - v) * (y + x) \in Nat
      /\ (z - v) * (y + x) = (y + x) * z - (y * v + x * v)
  BY <1>1
<1>5. 2 * (y * v + x * v) = (2 * v) * y + (2 * v) * x /\ (w + 1) * y = w * y + y
      /\ (w + 1) * x = w * x + x /\ y * v \in Nat /\ x * v \in Nat /\ w * x \in Nat /\ w * y \in Nat
      /\ x * y \in Nat /\ (y + x) * z \in Nat
  BY <1>1
<1>6. (2 * v) * y = w * y + y /\ (2 * v) * x = w * x + x
  BY <1>1, <1>5
<1>7. 2 * (y * v + x * v) > 2 * (x * y)
  BY <1>2, <1>3, <1>5, <1>6
<1>. QED
  BY <1>4, <1>5, <1>7

\* Better places in one ranking and no worse in the other weigh more.
LEMMA BetterWeighsMore ==
    ASSUME NEW x \in Nat \ {0}, NEW y \in Nat \ {0}, NEW s \in Nat \ {0}, NEW t \in Nat \ {0},
           x <= s, y <= t, x < s \/ y < t
    PROVE  (y + x) * (s * t) > (t + s) * (x * y)
<1>. DEFINE a == x * s
            b == y * t
<1>1. a \in Nat \ {0} /\ b \in Nat \ {0}
  <2>1. a > 0 /\ b > 0 /\ a \in Nat /\ b \in Nat
    BY Product
  <2>. QED
    BY <2>1
<1>2. (y + x) * (s * t) = b * s + a * t /\ (t + s) * (x * y) = b * x + a * y
  OBVIOUS
<1>. HIDE DEF a, b
<1>3. /\ x * b <= s * b /\ (x < s => x * b < s * b)
      /\ y * a <= t * a /\ (y < t => y * a < t * a)
  BY <1>1, Cancels
<1>4. /\ b * s = s * b /\ b * x = x * b /\ a * t = t * a /\ a * y = y * a
      /\ s * b \in Nat /\ x * b \in Nat /\ t * a \in Nat /\ y * a \in Nat
  BY <1>1, Product
<1>. QED
  BY <1>2, <1>3, <1>4

LEMMA AtMostIs == AtMost \in Nat /\ AtMost <= Candidates
<1>1. Cardinality(Passage) \in Nat
  BY FusionAssumption, FS_CardinalityType
<1>. QED
  BY <1>1, FusionAssumption DEF AtMost

\* A ranking names no chunk twice.
LEMMA HitsAre ==
    ASSUME HitsInv, NEW n \in 1..Len(hits)
    PROVE  /\ hits[n] \in Seq(Passage) /\ Len(hits[n]) \in Nat /\ Len(hits[n]) <= Candidates
           /\ \A i \in 1..Len(hits[n]) : hits[n][i] \in Passage
           /\ \A i, j \in 1..Len(hits[n]) : hits[n][i] = hits[n][j] => i = j
<1>1. hits[n] \in UNION {Rankings(m) : m \in 0..AtMost}
  BY DEF HitsInv
<1>2. PICK m \in 0..AtMost : hits[n] \in Rankings(m)
  BY <1>1
<1>3. m \in Nat /\ m <= Candidates /\ hits[n] \in [1..m -> Passage]
      /\ \A i, j \in 1..m : hits[n][i] = hits[n][j] => i = j
  BY <1>2, AtMostIs, FusionAssumption DEF Rankings
<1>4. hits[n] \in Seq(Passage) /\ Len(hits[n]) = m
  BY <1>3
<1>. QED
  BY <1>3, <1>4

LEMMA PlaceOf ==
    ASSUME NEW r \in Seq(Passage), NEW i \in 1..Len(r),
           \A j, k \in 1..Len(r) : r[j] = r[k] => j = k
    PROVE  In(r[i], r) /\ PlaceIn(r[i], r) = i
  BY DEF In, PlaceIn

LEMMA PlaceBounds ==
    ASSUME HitsInv, NEW n \in 1..Len(hits), NEW c
    PROVE  LET p == PlaceIn(c, hits[n])
           IN  p \in Nat \ {0} /\ p <= Candidates + 1 /\ (In(c, hits[n]) <=> p <= Candidates)
<1>1. /\ Len(hits[n]) \in Nat /\ Len(hits[n]) <= Candidates /\ Candidates \in Nat
  BY HitsAre, FusionAssumption
<1>2. CASE In(c, hits[n])
  <2>1. PlaceIn(c, hits[n]) \in 1..Len(hits[n])
    BY <1>2 DEF In, PlaceIn
  <2>. QED
    BY <1>1, <1>2, <2>1
<1>3. CASE ~In(c, hits[n])
  BY <1>1, <1>3 DEF PlaceIn
<1>. QED
  BY <1>2, <1>3

\* What the next chunk of the loop is, and where it stands.
LEMMA NextComes ==
    ASSUME HitsInv, Len(hits) = 2, at < Len(Both), at' = at + 1, UNCHANGED hits
    PROVE  LET c == Both[at + 1]
           IN  /\ c \in Passage
               /\ \E m, n \in {1, 2} :
                    /\ m # n /\ ~Come(c, m) /\ PlaceIn(c, hits[m]) = Place(at + 1)
                    /\ \A d : Come(d, m)' <=> Come(d, m) \/ d = c
                    /\ \A d : Come(d, n)' <=> Come(d, n)
<1>. DEFINE c == Both[at + 1]
            first == hits[1]
            second == hits[2]
<1>1. /\ first \in Seq(Passage) /\ Len(first) \in Nat
      /\ \A i, j \in 1..Len(first) : first[i] = first[j] => i = j
      /\ second \in Seq(Passage) /\ Len(second) \in Nat
      /\ \A i, j \in 1..Len(second) : second[i] = second[j] => i = j
      /\ at \in Nat
  BY HitsAre DEF HitsInv
<1>2. /\ Len(Both) = Len(first) + Len(second)
      /\ at + 1 \in 1..Len(Both)
      /\ c = IF at + 1 <= Len(first) THEN first[at + 1] ELSE second[at + 1 - Len(first)]
  BY <1>1 DEF Both
<1>3. /\ \A d : Come(d, 1) <=> \E i \in 1..Len(first) : first[i] = d /\ i <= at
      /\ \A d : Come(d, 1)' <=> \E i \in 1..Len(first) : first[i] = d /\ i <= at + 1
      /\ \A d : Come(d, 2) <=> \E i \in 1..Len(second) : second[i] = d /\ i + Len(first) <= at
      /\ \A d : Come(d, 2)' <=>
            \E i \in 1..Len(second) : second[i] = d /\ i + Len(first) <= at + 1
  <2>1. \A d, p : /\ Past(hits, p, d, 1) <=> \E i \in 1..Len(first) : first[i] = d /\ i + 0 <= p
                  /\ Past(hits, p, d, 2) <=>
                        \E i \in 1..Len(second) : second[i] = d /\ i + Len(first) <= p
    BY DEF Past
  <2>2. \A i \in 1..Len(first) : i + 0 = i
    BY <1>1
  <2>3. \A d, n : /\ Come(d, n) <=> Past(hits, at, d, n)
                  /\ Come(d, n)' <=> Past(hits, at + 1, d, n)
    BY DEF Come
  <2>. QED
    BY <2>1, <2>2, <2>3
<1>. HIDE DEF c, first, second
<1>4. CASE at + 1 <= Len(first)
  <2>1. c = first[at + 1] /\ at + 1 \in 1..Len(first) /\ c \in Passage
    BY <1>1, <1>2, <1>4
  <2>2. PlaceIn(c, first) = at + 1 /\ Place(at + 1) = at + 1
    BY <1>1, <1>4, <2>1, PlaceOf DEF Place, first
  <2>3. \A d : Come(d, 1)' <=> Come(d, 1) \/ d = c
    BY <1>1, <1>3, <2>1
  <2>4. ~Come(c, 1)
    BY <1>1, <1>3, <2>1
  <2>5. \A d : Come(d, 2)' <=> Come(d, 2)
    BY <1>1, <1>3, <1>4
  <2>. QED
    BY <2>1, <2>2, <2>3, <2>4, <2>5 DEF first, c
<1>5. CASE at + 1 > Len(first)
  <2>. DEFINE i == at + 1 - Len(first)
  <2>1. c = second[i] /\ i \in 1..Len(second) /\ c \in Passage /\ i + Len(first) = at + 1
    BY <1>1, <1>2, <1>5
  <2>2. PlaceIn(c, second) = i /\ Place(at + 1) = i
    BY <1>1, <1>5, <2>1, PlaceOf DEF Place, first
  <2>. HIDE DEF i
  <2>3. \A d : Come(d, 2)' <=> Come(d, 2) \/ d = c
    BY <1>1, <1>3, <2>1
  <2>4. ~Come(c, 2)
    BY <1>1, <1>3, <2>1
  <2>5. \A d : Come(d, 1)' <=> Come(d, 1)
    BY <1>1, <1>3, <1>5
  <2>. QED
    BY <2>1, <2>2, <2>3, <2>4, <2>5 DEF second, c
<1>. QED
  BY <1>1, <1>4, <1>5

\* Before the loop nothing has come.
LEMMA NoneCome ==
    ASSUME HitsInv, at = 0, NEW n \in {1, 2}, NEW c
    PROVE  ~Come(c, n)
<1>. SUFFICES ASSUME Come(c, n) PROVE FALSE
  OBVIOUS
<1>1. n = 2 => Len(hits[1]) \in Nat
  BY HitsAre DEF Come, HitsInv
<1>2. Len(hits[n]) \in Nat
  BY HitsAre DEF Come, HitsInv
<1>. QED
  BY <1>1, <1>2 DEF Come, Past

\* A search adds its ranking, and nothing else.
LEMMA SearchStep ==
    ASSUME FusionInv, Len(hits) < 2, NEW n \in 0..AtMost, NEW r \in Rankings(n),
           hits' = Append(hits, r), UNCHANGED <<at, fused, seen, found>>
    PROVE  FusionInv'
<1>1. at = 0 /\ found = <<>> /\ at' = 0 /\ found' = <<>>
  BY DEF FusionInv, HitsInv
<1>2. HitsInv'
  <2>. DEFINE All == UNION {Rankings(m) : m \in 0..AtMost}
  <2>1. r \in All /\ hits \in Seq(All)
    BY DEF FusionInv, HitsInv
  <2>. HIDE DEF All
  <2>2. hits' \in Seq(All) /\ Len(hits') = Len(hits) + 1
    BY <2>1
  <2>3. Len(hits) \in Nat
    BY <2>1
  <2>. QED
    BY <1>1, <2>2, <2>3 DEF HitsInv, All
<1>3. \A c, m : m \in {1, 2} => ~Come(c, m) /\ ~Come(c, m)'
  <2>1. \A c, m : m \in {1, 2} => ~Come(c, m)
    BY <1>1, NoneCome DEF FusionInv
  <2>2. ASSUME NEW c, NEW m \in {1, 2}, Come(c, m)'
        PROVE  FALSE
    <3>1. /\ hits' \in Seq(UNION {Rankings(k) : k \in 0..AtMost}) /\ m \in 1..Len(hits')
      BY <1>2, <2>2 DEF HitsInv, Come, Past
    <3>2. \A k \in 1..Len(hits') : Len(hits'[k]) \in Nat
      <4>. SUFFICES ASSUME NEW k \in 1..Len(hits') PROVE Len(hits'[k]) \in Nat
        OBVIOUS
      <4>1. PICK l \in 0..AtMost : hits'[k] \in Rankings(l)
        BY <3>1
      <4>2. hits'[k] \in [1..l -> Passage] /\ l \in Nat
        BY <4>1, AtMostIs DEF Rankings
      <4>. QED
        BY <4>2
    <3>. QED
      BY <1>1, <2>2, <3>1, <3>2 DEF Come, Past
  <2>. QED
    BY <2>1, <2>2
<1>4. SeenInv'
  BY <1>3 DEF FusionInv, SeenInv, In
<1>5. \A c : Score(c) = <<0, 1>> /\ Score(c)' = <<0, 1>>
  BY <1>3 DEF Score
<1>6. fused' = [c \in Passage |-> Score(c)']
  BY <1>5 DEF FusionInv
<1>. QED
  BY <1>1, <1>2, <1>4, <1>6 DEF FusionInv

\* One more share.
LEMMA FuseStep ==
    ASSUME FusionInv, FuseNext
    PROVE  FusionInv'
<1>. PICK c : c = Both[at + 1]
  OBVIOUS
<1>1. /\ HitsInv /\ Len(hits) = 2 /\ at < Len(Both) /\ at' = at + 1 /\ UNCHANGED hits
      /\ at \in Nat /\ found = <<>> /\ found' = <<>>
  BY DEF FusionInv, HitsInv, FuseNext
<1>2. PICK m, n \in {1, 2} :
        /\ m # n /\ ~Come(c, m) /\ PlaceIn(c, hits[m]) = Place(at + 1) /\ c \in Passage
        /\ \A d : Come(d, m)' <=> Come(d, m) \/ d = c
        /\ \A d : Come(d, n)' <=> Come(d, n)
  BY <1>1, NextComes
<1>3. /\ fused' = [fused EXCEPT ![c] = Sums(@, Share(Place(at + 1)))]
      /\ seen' = IF In(c, seen) THEN seen ELSE Append(seen, c)
  BY DEF FuseNext, In
<1>4. HitsInv'
  <2>1. Both' = Both
    BY <1>1 DEF Both
  <2>2. Len(Both) \in Nat
    BY <1>1, HitsAre DEF Both
  <2>3. at' \in Nat /\ at' <= Len(Both)'
    BY <1>1, <2>1, <2>2
  <2>4. hits' = hits /\ Len(hits') = 2
    BY <1>1
  <2>. QED
    BY <1>1, <2>3, <2>4 DEF HitsInv
<1>5. SeenInv'
  <2>1. /\ seen \in Seq(Passage)
        /\ \A i, j \in 1..Len(seen) : seen[i] = seen[j] => i = j
        /\ \A d \in Passage : In(d, seen) <=> Come(d, 1) \/ Come(d, 2)
    BY DEF FusionInv, SeenInv
  <2>2. \A d : Come(d, 1)' \/ Come(d, 2)' <=> Come(d, 1) \/ Come(d, 2) \/ d = c
    BY <1>2
  <2>3. CASE In(c, seen)
    BY <1>3, <2>1, <2>2, <2>3 DEF SeenInv, In
  <2>4. CASE ~In(c, seen)
    <3>1. /\ seen' \in Seq(Passage) /\ Len(seen') = Len(seen) + 1 /\ Len(seen) \in Nat
          /\ \A i \in 1..Len(seen) : seen'[i] = seen[i] /\ seen[i] # c
          /\ seen'[Len(seen) + 1] = c
      BY <1>2, <1>3, <2>1, <2>4 DEF In
    <3>2. \A i, j \in 1..Len(seen') : seen'[i] = seen'[j] => i = j
      BY <2>1, <3>1
    <3>3. \A d : In(d, seen)' <=> In(d, seen) \/ d = c
      BY <3>1 DEF In
    <3>. QED
      BY <2>1, <2>2, <3>1, <3>2, <3>3 DEF SeenInv
  <2>. QED
    BY <2>3, <2>4
<1>6. \A d \in Passage : d # c => Score(d)' = Score(d)
  <2>1. \A d : d # c => (Come(d, 1)' <=> Come(d, 1)) /\ (Come(d, 2)' <=> Come(d, 2))
    BY <1>2
  <2>2. \A d : PlaceIn(d, hits[1])' = PlaceIn(d, hits[1])
               /\ PlaceIn(d, hits[2])' = PlaceIn(d, hits[2])
    BY <1>1
  <2>. QED
    BY <2>1, <2>2 DEF Score
<1>7. Score(c)' = Sums(Score(c), Share(Place(at + 1)))
  <2>1. \A d : PlaceIn(d, hits[1])' = PlaceIn(d, hits[1])
               /\ PlaceIn(d, hits[2])' = PlaceIn(d, hits[2])
    BY <1>1
  <2>2. PlaceIn(c, hits[1]) \in Nat /\ PlaceIn(c, hits[2]) \in Nat /\ K \in Nat
    BY <1>1, PlaceBounds, FusionAssumption
  <2>3. \A p \in Nat : Sums(<<0, 1>>, Share(p)) = Share(p)
    BY <2>2 DEF Sums, Share
  <2>4. \A p, q \in Nat : Sums(Share(p), Share(q)) = Sums(Share(q), Share(p))
    BY <2>2 DEF Sums, Share
  <2>. DEFINE x == Share(PlaceIn(c, hits[1]))
              y == Share(PlaceIn(c, hits[2]))
  <2>5. /\ Score(c) = IF Come(c, 1) THEN IF Come(c, 2) THEN Sums(x, y) ELSE x
                                    ELSE IF Come(c, 2) THEN y ELSE <<0, 1>>
        /\ Score(c)' = IF Come(c, 1)' THEN IF Come(c, 2)' THEN Sums(x, y) ELSE x
                                      ELSE IF Come(c, 2)' THEN y ELSE <<0, 1>>
    BY <2>1 DEF Score
  <2>6. Sums(<<0, 1>>, x) = x /\ Sums(<<0, 1>>, y) = y /\ Sums(x, y) = Sums(y, x)
    BY <2>2, <2>3, <2>4
  <2>. HIDE DEF x, y
  <2>7. CASE m = 1 /\ n = 2
    <3>1. Come(c, 1)' /\ ~Come(c, 1) /\ (Come(c, 2)' <=> Come(c, 2))
      BY <1>2, <2>7
    <3>2. Share(Place(at + 1)) = x
      BY <1>2, <2>7 DEF x
    <3>3. Score(c)' = (IF Come(c, 2) THEN Sums(x, y) ELSE x)
          /\ Score(c) = IF Come(c, 2) THEN y ELSE <<0, 1>>
      BY <2>5, <3>1
    <3>. QED
      BY <2>6, <3>2, <3>3
  <2>8. CASE m = 2 /\ n = 1
    <3>1. Come(c, 2)' /\ ~Come(c, 2) /\ (Come(c, 1)' <=> Come(c, 1))
      BY <1>2, <2>8
    <3>2. Share(Place(at + 1)) = y
      BY <1>2, <2>8 DEF y
    <3>3. Score(c)' = (IF Come(c, 1) THEN Sums(x, y) ELSE y)
          /\ Score(c) = IF Come(c, 1) THEN x ELSE <<0, 1>>
      BY <2>5, <3>1
    <3>. QED
      BY <2>6, <3>2, <3>3
  <2>. QED
    BY <1>2, <2>7, <2>8
<1>8. fused' = [d \in Passage |-> Score(d)']
  <2>1. fused = [d \in Passage |-> Score(d)]
    BY DEF FusionInv
  <2>2. fused' = [d \in Passage |-> IF d = c THEN Sums(fused[c], Share(Place(at + 1)))
                                    ELSE fused[d]]
    BY <1>3, <2>1
  <2>3. c \in Passage /\ fused[c] = Score(c) /\ \A d \in Passage : fused[d] = Score(d)
    BY <1>2, <2>1
  <2>4. \A d \in Passage : Score(d)' = IF d = c THEN Sums(fused[c], Share(Place(at + 1)))
                                      ELSE fused[d]
    BY <1>6, <1>7, <2>3
  <2>. QED
    BY <2>2, <2>4
<1>. QED
  BY <1>1, <1>4, <1>5, <1>8 DEF FusionInv

\* What the invariant says is about the rankings, the place and the scores alone.
LEMMA LoopStays ==
    ASSUME FusionInv, UNCHANGED <<hits, at, fused, seen>>
    PROVE  /\ HitsInv' /\ SeenInv' /\ fused' = [c \in Passage |-> Score(c)']
           /\ Both' = Both /\ Ordered(fused, seen)' = Ordered(fused, seen)
<1>1. Both' = Both
  BY DEF Both
<1>2. \A c, n : Come(c, n)' <=> Come(c, n)
  BY DEF Come, Past
<1>3. \A c : In(c, seen)' <=> In(c, seen)
  BY DEF In
<1>4. \A c : Score(c)' = Score(c)
  <2>1. \A c : PlaceIn(c, hits[1])' = PlaceIn(c, hits[1])
               /\ PlaceIn(c, hits[2])' = PlaceIn(c, hits[2])
    OBVIOUS
  <2>. QED
    BY <1>2, <2>1 DEF Score
<1>6. Ordered(fused, seen)' = Ordered(fused, seen)
  OBVIOUS
<1>7. HitsInv'
  BY <1>1 DEF FusionInv, HitsInv
<1>8. SeenInv'
  BY <1>2, <1>3 DEF FusionInv, SeenInv
<1>9. fused' = [c \in Passage |-> Score(c)']
  BY <1>4 DEF FusionInv
<1>. QED
  BY <1>1, <1>6, <1>7, <1>8, <1>9

LEMMA FusionNextInv ==
    ASSUME FusionInv, [FusionNext]_fusionVars
    PROVE  FusionInv'
<1>1. CASE SearchVector
  <2>1. PICK r \in Rankings(AtMost) : hits' = <<r>>
    BY <1>1 DEF SearchVector
  <2>2. hits' = Append(hits, r) /\ Len(hits) < 2 /\ AtMost \in 0..AtMost
        /\ UNCHANGED <<at, fused, seen, found>>
    BY <1>1, <2>1, AtMostIs DEF SearchVector
  <2>. QED
    BY <2>1, <2>2, SearchStep
<1>2. CASE SearchKeyword
  <2>1. PICK n \in 0..AtMost : \E r \in Rankings(n) : hits' = Append(hits, r)
    BY <1>2 DEF SearchKeyword
  <2>2. Len(hits) < 2 /\ UNCHANGED <<at, fused, seen, found>>
    BY <1>2 DEF SearchKeyword
  <2>. QED
    BY <2>1, <2>2, SearchStep
<1>3. CASE FuseNext
  BY <1>3, FuseStep
<1>4. CASE Answer
  <2>1. /\ UNCHANGED <<hits, at, fused, seen>> /\ Len(hits) = 2 /\ at = Len(Both)
        /\ found' = SubSeq(Ordered(fused, seen), 1, IF TopK < Len(seen) THEN TopK ELSE Len(seen))
    BY <1>4 DEF Answer
  <2>. QED
    BY <2>1, LoopStays DEF FusionInv
<1>5. CASE UNCHANGED fusionVars
  BY <1>5, LoopStays DEF fusionVars, FusionInv
<1>. QED
  BY <1>1, <1>2, <1>3, <1>4, <1>5 DEF FusionNext

LEMMA FusionInitInv == FusionInit => FusionInv
<1>. SUFFICES ASSUME FusionInit PROVE FusionInv
  OBVIOUS
<1>1. HitsInv
  BY DEF FusionInit, HitsInv
<1>2. \A c, n : n \in {1, 2} => ~Come(c, n)
  BY DEF FusionInit, Come, Past
<1>. QED
  BY <1>1, <1>2 DEF FusionInit, FusionInv, SeenInv, Score, In

\* The scores at the end of the loop are fractions.
LEMMA ScoresAre ==
    ASSUME FusionInv, Len(hits) = 2, at = Len(Both)
    PROVE  /\ \A c, n : n \in {1, 2} => (Come(c, n) <=> In(c, hits[n]))
           /\ \A c \in Passage : fused[c] = Score(c) /\ fused[c] \in Fraction
<1>1. Len(hits[1]) \in Nat /\ Len(hits[2]) \in Nat /\ hits[1] \in Seq(Passage)
      /\ hits[2] \in Seq(Passage)
  BY HitsAre DEF FusionInv
<1>2. at = Len(hits[1]) + Len(hits[2])
  BY <1>1 DEF Both
<1>3. \A c, n : n \in {1, 2} => (Come(c, n) <=> In(c, hits[n]))
  BY <1>1, <1>2 DEF Come, Past, In
<1>4. \A c : PlaceIn(c, hits[1]) \in Nat \ {0} /\ PlaceIn(c, hits[2]) \in Nat \ {0}
             /\ K \in Nat \ {0}
  BY PlaceBounds, FusionAssumption DEF FusionInv
<1>5. ASSUME NEW c PROVE Score(c) \in Fraction
  <2>. DEFINE x == K + PlaceIn(c, hits[1])
              y == K + PlaceIn(c, hits[2])
  <2>1. x \in Nat \ {0} /\ y \in Nat \ {0}
    BY <1>4
  <2>2. Share(PlaceIn(c, hits[1])) = <<1, x>> /\ Share(PlaceIn(c, hits[2])) = <<1, y>>
    BY DEF Share
  <2>. HIDE DEF x, y
  <2>3. x * y \in Nat \ {0}
    <3>1. x * y \in Nat /\ x * y > 0
      BY <2>1, Product
    <3>. QED
      BY <3>1
  <2>4. Sums(<<1, x>>, <<1, y>>) \in Fraction
    BY <2>1, <2>3 DEF Sums, Fraction
  <2>5. <<1, x>> \in Fraction /\ <<1, y>> \in Fraction /\ <<0, 1>> \in Fraction
    BY <2>1 DEF Fraction
  <2>. QED
    BY <2>2, <2>4, <2>5 DEF Score
<1>6. \A c \in Passage : fused[c] = Score(c)
  BY DEF FusionInv
<1>. QED
  BY <1>3, <1>5, <1>6

\* A chunk that should be above has the greater score.
LEMMA AboveInScore ==
    ASSUME FusionInv, Len(hits) = 2, at = Len(Both), NEW c \in Passage, NEW d \in Passage,
           In(d, hits[1]) \/ In(d, hits[2]),
           (InBoth(c) /\ InOne(d)) \/ Dominates(c, d)
    PROVE  (In(c, hits[1]) \/ In(c, hits[2])) /\ Above(fused[c], fused[d])
<1>. DEFINE p(x) == PlaceIn(x, hits[1])
            q(x) == PlaceIn(x, hits[2])
<1>1. \A x : /\ p(x) \in Nat \ {0} /\ p(x) <= Candidates + 1
             /\ q(x) \in Nat \ {0} /\ q(x) <= Candidates + 1
             /\ In(x, hits[1]) <=> p(x) <= Candidates
             /\ In(x, hits[2]) <=> q(x) <= Candidates
  BY PlaceBounds DEF FusionInv
<1>2. K \in Nat \ {0} /\ Candidates \in Nat /\ Candidates <= K + 1
  BY FusionAssumption
<1>3. \A x \in {c, d} : fused[x] =
        IF In(x, hits[1])
        THEN IF In(x, hits[2]) THEN Sums(Share(p(x)), Share(q(x))) ELSE Share(p(x))
        ELSE IF In(x, hits[2]) THEN Share(q(x)) ELSE <<0, 1>>
  BY ScoresAre DEF Score
<1>. DEFINE x1 == K + p(c)
            x2 == K + q(c)
            y1 == K + p(d)
            y2 == K + q(d)
<1>4. /\ Share(p(c)) = <<1, x1>> /\ Share(q(c)) = <<1, x2>>
      /\ Share(p(d)) = <<1, y1>> /\ Share(q(d)) = <<1, y2>>
  BY DEF Share
<1>5. Sums(<<1, x1>>, <<1, x2>>) = <<x2 + x1, x1 * x2>>
      /\ Sums(<<1, y1>>, <<1, y2>>) = <<y2 + y1, y1 * y2>>
  BY <1>1, <1>2 DEF Sums
<1>6. /\ x1 \in Nat \ {0} /\ x2 \in Nat \ {0} /\ y1 \in Nat \ {0} /\ y2 \in Nat \ {0}
      /\ K + 1 <= x1 /\ K + 1 <= x2 /\ K + 1 <= y1 /\ K + 1 <= y2
      /\ (In(c, hits[1]) => x1 <= 2 * K + 1)
      /\ (In(c, hits[2]) => x2 <= 2 * K + 1)
  <2>1. \A n \in Nat \ {0} : K + n \in Nat \ {0} /\ K + 1 <= K + n
                              /\ (n <= Candidates => K + n <= 2 * K + 1)
    BY <1>2
  <2>. HIDE DEF p, q
  <2>. QED
    BY <1>1, <2>1
<1>7. Dominates(c, d) => x1 <= y1 /\ x2 <= y2 /\ (x1 < y1 \/ x2 < y2)
  BY <1>1, <1>2 DEF Dominates
<1>8. Dominates(c, d) => /\ In(d, hits[1]) => In(c, hits[1])
                         /\ In(d, hits[2]) => In(c, hits[2])
  BY <1>1, <1>2 DEF Dominates
<1>9. Dominates(c, d) => /\ (~In(d, hits[1]) /\ ~In(c, hits[1]) => x2 < y2)
                         /\ (~In(d, hits[2]) /\ ~In(c, hits[2]) => x1 < y1)
  <2>1. \A x \in {c, d} : /\ (~In(x, hits[1]) => p(x) = Candidates + 1)
                          /\ (~In(x, hits[2]) => q(x) = Candidates + 1)
    BY DEF PlaceIn
  <2>2. /\ (~In(d, hits[1]) /\ ~In(c, hits[1]) => x1 = y1)
        /\ (~In(d, hits[2]) /\ ~In(c, hits[2]) => x2 = y2)
    BY <2>1
  <2>. HIDE DEF p, q, x1, x2, y1, y2
  <2>. QED
    BY <1>6, <1>7, <2>2
<1>. HIDE DEF x1, x2, y1, y2, p, q
<1>10. CASE InBoth(c) /\ InOne(d)
  <2>1. fused[c] = <<x2 + x1, x1 * x2>>
    BY <1>3, <1>4, <1>5, <1>10 DEF InBoth
  <2>2. fused[d] = <<1, y1>> \/ fused[d] = <<1, y2>>
    <3>1. In(d, hits[1]) /= In(d, hits[2])
      BY <1>10 DEF InOne
    <3>2. fused[d] = Share(p(d)) \/ fused[d] = Share(q(d))
      <4>1. CASE In(d, hits[1]) /\ ~In(d, hits[2])
        BY <1>3, <4>1
      <4>2. CASE ~In(d, hits[1]) /\ In(d, hits[2])
        BY <1>3, <4>2
      <4>. QED
        BY <3>1, <4>1, <4>2 DEF In
    <3>. QED
      BY <1>4, <3>2
  <2>3. (x2 + x1) * y1 > 1 * (x1 * x2) /\ (x2 + x1) * y2 > 1 * (x1 * x2)
    BY <1>2, <1>6, <1>10, TwoOutweighOne DEF InBoth
  <2>. QED
    BY <1>10, <2>1, <2>2, <2>3 DEF Above, InBoth
<1>11. CASE Dominates(c, d) /\ In(d, hits[1]) /\ In(d, hits[2])
  <2>1. fused[c] = <<x2 + x1, x1 * x2>> /\ fused[d] = <<y2 + y1, y1 * y2>>
    BY <1>3, <1>4, <1>5, <1>8, <1>11
  <2>2. (x2 + x1) * (y1 * y2) > (y2 + y1) * (x1 * x2)
    BY <1>6, <1>7, <1>11, BetterWeighsMore
  <2>. QED
    BY <1>8, <1>11, <2>1, <2>2 DEF Above
<1>12. CASE Dominates(c, d) /\ In(d, hits[1]) /\ ~In(d, hits[2]) /\ ~In(c, hits[2])
  <2>1. fused[c] = <<1, x1>> /\ fused[d] = <<1, y1>> /\ x1 < y1
    BY <1>3, <1>4, <1>8, <1>9, <1>12
  <2>. QED
    BY <1>6, <1>8, <1>12, <2>1 DEF Above
<1>13. CASE Dominates(c, d) /\ ~In(d, hits[1]) /\ In(d, hits[2]) /\ ~In(c, hits[1])
  <2>1. fused[c] = <<1, x2>> /\ fused[d] = <<1, y2>> /\ x2 < y2
    BY <1>3, <1>4, <1>8, <1>9, <1>13
  <2>. QED
    BY <1>6, <1>8, <1>13, <2>1 DEF Above
<1>. QED
  BY <1>8, <1>10, <1>11, <1>12, <1>13 DEF InBoth, InOne

\* The sort puts everything after what is before it, and leaves nothing out.
LEMMA OrderedIs ==
    ASSUME FusionInv, Len(hits) = 2, at = Len(Both)
    PROVE  LET L == 1..Len(seen)
           IN  \E rank \in [L -> 0..(Len(seen) - 1)] :
                /\ \A i \in L : Ordered(fused, seen)[rank[i] + 1] = seen[i]
                /\ \A n \in L : \E i \in L : rank[i] = n - 1
                /\ \A i, j \in L : Before(fused, seen, i, j) => rank[i] < rank[j]
<1>. DEFINE L == 1..Len(seen)
            R == {e \in L \X L : Before(fused, seen, e[1], e[2])}
            rank(i) == Rank(L, R, i)
<1>1. /\ seen \in Seq(Passage) /\ Len(seen) \in Nat
      /\ \A i \in L : fused[seen[i]] \in Fraction
  BY ScoresAre DEF FusionInv, SeenInv
<1>2. IsFiniteSet(L) /\ Cardinality(L) = Len(seen)
  <2>1. 1 \in Int /\ Len(seen) \in Int
    BY <1>1
  <2>2. IsFiniteSet(L) /\ Cardinality(L) = IF 1 > Len(seen) THEN 0 ELSE Len(seen) - 1 + 1
    BY <2>1, FS_Interval
  <2>. QED
    BY <1>1, <2>2
<1>3. \A i, j \in L : <<i, j>> \in R <=> Before(fused, seen, i, j)
  OBVIOUS
<1>4. \A i \in L : ~Before(fused, seen, i, i)
  BY <1>1, AboveOrder DEF Before
<1>5. \A i, j \in L : i # j => Before(fused, seen, i, j) \/ Before(fused, seen, j, i)
  BY <1>1 DEF Before
<1>6. ASSUME NEW i \in L, NEW j \in L, NEW k \in L,
             Before(fused, seen, i, j), Before(fused, seen, j, k)
      PROVE  Before(fused, seen, i, k)
  <2>. DEFINE a == fused[seen[i]]
              b == fused[seen[j]]
              c == fused[seen[k]]
  <2>1. a \in Fraction /\ b \in Fraction /\ c \in Fraction
    BY <1>1
  <2>2. /\ Above(a, b) \/ (~Above(b, a) /\ i < j)
        /\ Above(b, c) \/ (~Above(c, b) /\ j < k)
    BY <1>6 DEF Before
  <2>3. Before(fused, seen, i, k) <=> Above(a, c) \/ (~Above(c, a) /\ i < k)
    BY DEF Before
  <2>4. i < j /\ j < k => i < k
    BY <1>1
  <2>. HIDE DEF a, b, c
  <2>5. /\ Above(a, b) => ~Above(b, a)
        /\ Above(b, c) => ~Above(c, b)
        /\ ~Above(b, a) /\ ~Above(c, b) => ~Above(c, a)
        /\ Above(a, b) /\ ~Above(c, b) => Above(a, c)
        /\ ~Above(b, a) /\ Above(b, c) => Above(a, c)
    BY <2>1, AboveOrder
  <2>. QED
    BY <2>2, <2>3, <2>4, <2>5
<1>. HIDE DEF R
<1>7. /\ \A i \in L : rank(i) \in 0..(Len(seen) - 1)
      /\ \A i, j \in L : <<i, j>> \in R => rank(i) < rank(j)
      /\ \A i, j \in L : rank(i) = rank(j) => i = j
      /\ \A n \in 0..(Len(seen) - 1) : \E i \in L : rank(i) = n
  <2>. HIDE DEF L
  <2>1. Linear(L, R)
    BY <1>3, <1>4, <1>5, <1>6 DEF Linear
  <2>2. IsFiniteSet(L)
    BY <1>2
  <2>. QED
    BY <1>2, <2>1, <2>2, Ranks
<1>8. \A i \in L : Cardinality({j \in 1..Len(seen) : Before(fused, seen, j, i)}) = rank(i)
  <2>1. \A i \in L : {j \in L : Before(fused, seen, j, i)} = {j \in L : <<j, i>> \in R}
    BY <1>3
  <2>. QED
    BY <2>1 DEF Rank, Under
<1>. HIDE DEF rank
<1>9. ASSUME NEW i \in L
      PROVE  Ordered(fused, seen)[rank(i) + 1] = seen[i]
  <2>1. rank(i) + 1 \in 1..Len(seen)
    BY <1>1, <1>7
  <2>2. Ordered(fused, seen)[rank(i) + 1] = seen[CHOOSE k \in 1..Len(seen) :
            Cardinality({j \in 1..Len(seen) : Before(fused, seen, j, k)}) = (rank(i) + 1) - 1]
    BY <2>1 DEF Ordered
  <2>3. \A k \in 1..Len(seen) :
            Cardinality({j \in 1..Len(seen) : Before(fused, seen, j, k)}) = (rank(i) + 1) - 1
                <=> k = i
    <3>1. (rank(i) + 1) - 1 = rank(i)
      BY <1>1, <1>7
    <3>. QED
      BY <1>7, <1>8, <3>1
  <2>4. (CHOOSE k \in 1..Len(seen) :
            Cardinality({j \in 1..Len(seen) : Before(fused, seen, j, k)}) = (rank(i) + 1) - 1) = i
    BY <2>3
  <2>. QED
    BY <2>2, <2>4
<1>. DEFINE f == [i \in L |-> rank(i)]
<1>10. f \in [L -> 0..(Len(seen) - 1)]
  BY <1>7
<1>11. \A n \in L : \E i \in L : f[i] = n - 1
  <2>1. \A n \in L : n - 1 \in 0..(Len(seen) - 1)
    BY <1>1
  <2>. QED
    BY <1>7, <2>1
<1>12. \A i, j \in L : Before(fused, seen, i, j) => f[i] < f[j]
  BY <1>3, <1>7
<1>13. \A i \in L : Ordered(fused, seen)[f[i] + 1] = seen[i]
  BY <1>9
<1>. QED
  BY <1>10, <1>11, <1>12, <1>13

\* Fusion puts what both searches rank above what one of them ranks, and the
\* better placed above the worse: for any number of chunks and any constant of
\* the fusion that is no smaller than the number of candidates less one.
THEOREM FusionIsInOrder == FusionSpec => []FusedInOrder
<1>1. FusionInit => FusionInv
  BY FusionInitInv
<1>2. FusionInv /\ [FusionNext]_fusionVars => FusionInv'
  BY FusionNextInv
<1>3. FusionInv => FusedInOrder
  <2>. SUFFICES ASSUME FusionInv, NEW j \in 1..Len(found), NEW c \in Passage,
                       (InBoth(c) /\ InOne(found[j])) \/ Dominates(c, found[j])
                PROVE  \E i \in 1..(j - 1) : found[i] = c
    BY DEF FusedInOrder
  <2>. DEFINE kept == IF TopK < Len(seen) THEN TopK ELSE Len(seen)
              L == 1..Len(seen)
  <2>1. /\ Len(hits) = 2 /\ at = Len(Both) /\ found = SubSeq(Ordered(fused, seen), 1, kept)
    BY DEF FusionInv
  <2>2. seen \in Seq(Passage) /\ Len(seen) \in Nat /\ kept \in Nat /\ kept <= Len(seen)
    BY FusionAssumption DEF FusionInv, SeenInv
  <2>3. Len(found) = kept /\ \A i \in 1..kept : found[i] = Ordered(fused, seen)[i]
    <3>1. Ordered(fused, seen) \in [L -> {Ordered(fused, seen)[n] : n \in L}]
      BY DEF Ordered
    <3>. HIDE DEF kept
    <3>2. /\ Ordered(fused, seen) \in Seq({Ordered(fused, seen)[n] : n \in L})
          /\ Len(Ordered(fused, seen)) = Len(seen)
      BY <2>2, <3>1, SequenceOf
    <3>. QED
      <4>1. /\ Len(SubSeq(Ordered(fused, seen), 1, kept)) = kept
            /\ \A i \in 1..kept :
                    SubSeq(Ordered(fused, seen), 1, kept)[i] = Ordered(fused, seen)[i]
        BY <2>2, <3>2, PrefixOf
      <4>. QED
        BY <2>1, <4>1
  <2>4. PICK rank \in [L -> 0..(Len(seen) - 1)] :
                /\ \A i \in L : Ordered(fused, seen)[rank[i] + 1] = seen[i]
                /\ \A n \in L : \E i \in L : rank[i] = n - 1
                /\ \A i, k \in L : Before(fused, seen, i, k) => rank[i] < rank[k]
    BY <2>1, OrderedIs
  <2>. HIDE DEF kept
  <2>5. j \in L /\ j \in Nat
    BY <2>2, <2>3
  <2>6. PICK a \in L : rank[a] = j - 1
    BY <2>4, <2>5
  <2>7. found[j] = seen[a]
    <3>1. rank[a] + 1 = j
      BY <2>5, <2>6
    <3>. QED
      BY <2>3, <2>4, <3>1
  <2>8. found[j] \in Passage /\ In(found[j], seen)
    BY <2>2, <2>7 DEF In
  <2>9. \A d \in Passage : In(d, seen) <=> In(d, hits[1]) \/ In(d, hits[2])
    BY <2>1, ScoresAre DEF FusionInv, SeenInv
  <2>10. In(c, seen) /\ Above(fused[c], fused[found[j]])
    BY <2>1, <2>8, <2>9, AboveInScore
  <2>11. PICK b \in L : seen[b] = c
    BY <2>10 DEF In
  <2>12. Before(fused, seen, b, a)
    BY <2>7, <2>10, <2>11 DEF Before
  <2>13. rank[b] < rank[a] /\ rank[b] \in Nat /\ Ordered(fused, seen)[rank[b] + 1] = c
    <3>1. rank[b] < rank[a] /\ Ordered(fused, seen)[rank[b] + 1] = seen[b]
      BY <2>4, <2>12
    <3>2. rank[b] \in 0..(Len(seen) - 1)
      BY <2>4
    <3>. QED
      BY <2>2, <2>11, <3>1, <3>2
  <2>14. rank[b] + 1 \in 1..(j - 1) /\ rank[b] + 1 \in 1..kept
    BY <2>2, <2>3, <2>5, <2>6, <2>13
  <2>. QED
    BY <2>3, <2>13, <2>14
<1>. QED
  BY <1>1, <1>2, <1>3, PTL DEF FusionSpec

-------------------------------------------------------------------------------
(* IcsWriter: what a recursive function makes of a text is proved along the   *)
(* text, and that by the least place where it would fail; then that a client  *)
(* undoes what Escape does, and that folding adds nothing it would not undo.  *)

LEMMA Least == ASSUME NEW T \in SUBSET Nat, T # {} PROVE \E x \in T : \A y \in T : x <= y
<1>1. PICK x \in T : \A y \in T : <<y, x>> \notin OpToRel(<, Nat)
  BY NatLessThanWellFounded, WFMin
<1>2. \A y \in T : y \in Nat /\ ~(y < x)
  BY <1>1 DEF OpToRel
<1>. QED
  BY <1>2

LEMMA DataInduction ==
    ASSUME NEW P \in SUBSET Nat, 0 \in P, \A n \in P : n + 1 \in P
    PROVE  P = Nat
<1>. SUFFICES ASSUME Nat \ P # {} PROVE FALSE
  OBVIOUS
<1>1. PICK x \in Nat \ P : \A y \in Nat \ P : x <= y
  BY Least
<1>2. x - 1 \in Nat /\ x - 1 \in P
  BY <1>1
<1>. QED
  BY <1>1, <1>2

\* The n-th value of the recursion in Replaced, from those before it.
Grown(f, s, t, by, n) ==
    IF n = 0 THEN <<>>
    ELSE IF n >= Len(t) /\ SubSeq(s, n - Len(t) + 1, n) = t
         THEN f[n - Len(t)] \o by
         ELSE Append(f[n - 1], s[n])

Alike(s, r, n) == n <= Len(s) /\ n <= Len(r) /\ \A m \in 1..n : s[m] = r[m]
SameBelow(f, g, n)  == \A m \in 0..n : m < n => f[m] = g[m]

Grows(f, s, t, by) == \A n \in 0..Len(s) : f[n] = Grown(f, s, t, by, n)

LEMMA GrownIs ==
    ASSUME NEW S, NEW s \in Seq(S), NEW t \in Seq(S), t # <<>>, NEW by \in Seq(S),
           NEW n \in 0..Len(s), NEW f, \A m \in 0..n : m < n => f[m] \in Seq(S)
    PROVE  Grown(f, s, t, by, n) \in Seq(S)
<1>1. Len(t) \in Nat \ {0} /\ n \in Nat
  OBVIOUS
<1>2. CASE n = 0
  BY <1>2 DEF Grown
<1>3. CASE n # 0 /\ n >= Len(t) /\ SubSeq(s, n - Len(t) + 1, n) = t
  <2>1. n - Len(t) \in 0..n /\ n - Len(t) < n
    BY <1>1, <1>3
  <2>2. f[n - Len(t)] \in Seq(S)
    BY <2>1
  <2>. QED
    BY <1>3, <2>2 DEF Grown
<1>4. CASE n # 0 /\ ~(n >= Len(t) /\ SubSeq(s, n - Len(t) + 1, n) = t)
  <2>1. n - 1 \in 0..n /\ n - 1 < n /\ n \in 1..Len(s)
    BY <1>1, <1>4
  <2>2. f[n - 1] \in Seq(S) /\ s[n] \in S
    BY <2>1
  <2>. QED
    BY <1>4, <2>2 DEF Grown
<1>. QED
  BY <1>2, <1>3, <1>4

LEMMA GrownAgrees ==
    ASSUME NEW S, NEW s \in Seq(S), NEW r \in Seq(S), NEW t \in Seq(S), t # <<>>, NEW by \in Seq(S),
           NEW n \in 0..Len(s), Alike(s, r, n), NEW f, NEW g, SameBelow(f, g, n)
    PROVE  Grown(f, s, t, by, n) = Grown(g, r, t, by, n)
<1>1. Len(t) \in Nat \ {0} /\ n \in Nat
  OBVIOUS
<1>2. CASE n = 0
  BY <1>2 DEF Grown
<1>3. CASE n # 0
  <2>1. n - 1 \in 0..n /\ n - 1 < n /\ n \in 1..n
    BY <1>1, <1>3
  <2>2. f[n - 1] = g[n - 1] /\ s[n] = r[n]
    BY <2>1 DEF Alike, SameBelow
  <2>3. CASE n >= Len(t)
    <3>1. n - Len(t) \in 0..n /\ n - Len(t) < n
      BY <1>1, <2>3
    <3>2. f[n - Len(t)] = g[n - Len(t)]
      BY <3>1 DEF SameBelow
    <3>3. SubSeq(s, n - Len(t) + 1, n) = SubSeq(r, n - Len(t) + 1, n)
      BY <1>1, <2>3 DEF Alike
    <3>. QED
      BY <2>2, <3>2, <3>3 DEF Grown
  <2>4. CASE ~(n >= Len(t))
    BY <1>3, <2>2, <2>4 DEF Grown
  <2>. QED
    BY <2>3, <2>4
<1>. QED
  BY <1>2, <1>3

LEMMA GrowthExists ==
    ASSUME NEW S, NEW s \in Seq(S), NEW t \in Seq(S), t # <<>>, NEW by \in Seq(S)
    PROVE  \E f \in [0..Len(s) -> Seq(S)] : Grows(f, s, t, by)
<1>. DEFINE P == {k \in Nat : k <= Len(s) =>
                    \E f \in [0..k -> Seq(S)] : \A n \in 0..k : f[n] = Grown(f, s, t, by, n)}
<1>0. Len(s) \in Nat /\ P \in SUBSET Nat
  OBVIOUS
<1>1. 0 \in P
  <2>. DEFINE f == [n \in 0..0 |-> <<>>]
  <2>1. f \in [0..0 -> Seq(S)] /\ \A n \in 0..0 : f[n] = Grown(f, s, t, by, n)
    BY DEF Grown
  <2>. QED
    BY <2>1
<1>2. ASSUME NEW k \in P PROVE k + 1 \in P
  <2>0. k + 1 \in Nat
    BY <1>0
  <2>. SUFFICES ASSUME k + 1 <= Len(s)
                PROVE  \E f \in [0..(k + 1) -> Seq(S)] :
                          \A n \in 0..(k + 1) : f[n] = Grown(f, s, t, by, n)
    BY <2>0
  <2>1. PICK f \in [0..k -> Seq(S)] : \A n \in 0..k : f[n] = Grown(f, s, t, by, n)
    BY <1>0, <1>2
  <2>. DEFINE g == [n \in 0..(k + 1) |-> IF n = k + 1 THEN Grown(f, s, t, by, k + 1) ELSE f[n]]
  <2>2. k \in Nat /\ k + 1 \in 0..Len(s)
    BY <1>0
  <2>3. \A n \in 0..k : g[n] = f[n] /\ n \in 0..Len(s)
    BY <2>2
  <2>4. Grown(f, s, t, by, k + 1) \in Seq(S)
    <3>1. \A m \in 0..(k + 1) : m < k + 1 => f[m] \in Seq(S)
      BY <2>2
    <3>. QED
      BY <2>2, <3>1, GrownIs
  <2>5. g \in [0..(k + 1) -> Seq(S)]
    BY <2>2, <2>4
  <2>6. ASSUME NEW n \in 0..(k + 1) PROVE g[n] = Grown(g, s, t, by, n)
    <3>1. g[n] = Grown(f, s, t, by, n)
      BY <2>1, <2>2
    <3>2. n \in 0..Len(s) /\ \A m \in 0..n : m < n => f[m] = g[m]
      BY <2>2
    <3>3. Alike(s, s, n) /\ SameBelow(f, g, n)
      BY <1>0, <3>2 DEF Alike, SameBelow
    <3>. HIDE DEF g
    <3>4. n \in 0..Len(s) /\ t # <<>>
      BY <3>2
    <3>5. Grown(f, s, t, by, n) = Grown(g, s, t, by, n)
      BY <3>4, <3>3, GrownAgrees
    <3>. QED
      BY <3>1, <3>5
  <2>. QED
    BY <2>5, <2>6
<1>. HIDE DEF P
<1>3. P = Nat
  BY <1>0, <1>1, <1>2, DataInduction
<1>4. Len(s) \in P
  BY <1>0, <1>3
<1>5. Len(s) <= Len(s)
  BY <1>0
<1>6. \E f \in [0..Len(s) -> Seq(S)] : \A n \in 0..Len(s) : f[n] = Grown(f, s, t, by, n)
  BY <1>4, <1>5, Zenon DEF P
<1>. QED
  BY <1>6 DEF Grows

LEMMA GrowthsAgree ==
    ASSUME NEW S, NEW s \in Seq(S), NEW r \in Seq(S), NEW t \in Seq(S), t # <<>>, NEW by \in Seq(S),
           Alike(s, r, Len(s)), NEW f, NEW g, Grows(f, s, t, by), Grows(g, r, t, by)
    PROVE  \A n \in 0..Len(s) : f[n] = g[n]
<1>. DEFINE P == {k \in Nat : \A n \in 0..Len(s) : n <= k => f[n] = g[n]}
<1>0. Len(s) \in Nat /\ Len(r) \in Nat /\ P \in SUBSET Nat
  OBVIOUS
<1>1. ASSUME NEW n \in 0..Len(s), SameBelow(f, g, n)
      PROVE  f[n] = g[n]
  <2>1. n \in 0..Len(r) /\ Alike(s, r, n)
    BY <1>0 DEF Alike
  <2>2. f[n] = Grown(f, s, t, by, n) /\ g[n] = Grown(g, r, t, by, n)
    BY <2>1 DEF Grows
  <2>3. Grown(f, s, t, by, n) = Grown(g, r, t, by, n)
    BY <1>1, <2>1, GrownAgrees
  <2>. QED
    BY <2>2, <2>3
<1>2. 0 \in P
  <2>1. 0 \in 0..Len(s) /\ SameBelow(f, g, 0)
    BY <1>0 DEF SameBelow
  <2>2. f[0] = g[0]
    BY <1>1, <2>1
  <2>. QED
    BY <1>0, <2>2
<1>3. ASSUME NEW k \in P PROVE k + 1 \in P
  <2>. SUFFICES ASSUME NEW n \in 0..Len(s), n <= k + 1 PROVE f[n] = g[n]
    OBVIOUS
  <2>1. \A m \in 0..n : m < n => m \in 0..Len(s) /\ m <= k
    BY <1>0
  <2>2. SameBelow(f, g, n)
    BY <1>0, <2>1 DEF SameBelow
  <2>. QED
    BY <1>1, <2>2
<1>. HIDE DEF P
<1>4. P = Nat
  BY <1>0, <1>2, <1>3, DataInduction
<1>. QED
  BY <1>0, <1>4 DEF P

\* Replaced, by its values on the beginnings of the text.
Growth(S, f, s, t, by) ==
    /\ f \in [0..Len(s) -> Seq(S)] /\ Grows(f, s, t, by)
    /\ Replaced(s, t, by) = f[Len(s)]

LEMMA ReplacedIs ==
    ASSUME NEW S, NEW s \in Seq(S), NEW t \in Seq(S), t # <<>>, NEW by \in Seq(S)
    PROVE  \E f : Growth(S, f, s, t, by)
<1>. DEFINE F == CHOOSE f : f = [n \in 0..Len(s) |-> Grown(f, s, t, by, n)]
<1>1. PICK f \in [0..Len(s) -> Seq(S)] : Grows(f, s, t, by)
  BY GrowthExists
<1>2. f = [n \in 0..Len(s) |-> Grown(f, s, t, by, n)]
  BY <1>1 DEF Grows
<1>3. F = [n \in 0..Len(s) |-> Grown(F, s, t, by, n)]
  BY <1>2
<1>4. Replaced(s, t, by) = F[Len(s)]
  BY DEF Replaced, Grown
<1>. HIDE DEF F
<1>5. Grows(F, s, t, by)
  BY <1>3 DEF Grows
<1>6. Len(s) \in 0..Len(s) /\ Alike(s, s, Len(s))
  BY DEF Alike
<1>7. \A n \in 0..Len(s) : f[n] = F[n]
  BY <1>1, <1>5, <1>6, GrowthsAgree
<1>. QED
  BY <1>1, <1>4, <1>6, <1>7 DEF Growth

LEMMA ReplacedOfPrefix ==
    ASSUME NEW S, NEW s \in Seq(S), NEW t \in Seq(S), t # <<>>, NEW by \in Seq(S),
           NEW f, Grows(f, s, t, by), NEW n \in 0..Len(s)
    PROVE  Replaced(SubSeq(s, 1, n), t, by) = f[n]
<1>. DEFINE r == SubSeq(s, 1, n)
<1>1. r \in Seq(S) /\ Len(r) = n /\ Alike(r, s, Len(r))
  BY DEF Alike
<1>. HIDE DEF r
<1>2. PICK g : Growth(S, g, r, t, by)
  BY <1>1, ReplacedIs
<1>3. Grows(g, r, t, by)
  BY <1>2 DEF Growth
<1>4. \A m \in 0..Len(r) : g[m] = f[m]
  BY <1>1, <1>3, GrowthsAgree
<1>. QED
  BY <1>1, <1>2, <1>4 DEF r, Growth

LEMMA PairIs == ASSUME NEW S, NEW a \in S, NEW b \in S PROVE <<a>> \o <<b>> = <<a, b>>
<1>1. <<a>> \in Seq(S) /\ <<b>> \in Seq(S) /\ Len(<<a>>) = 1 /\ Len(<<b>>) = 1
  OBVIOUS
<1>2. <<a>> \o <<b>> \in Seq(S) /\ Len(<<a>> \o <<b>>) = 2
  BY <1>1, ConcatProperties
<1>3. (<<a>> \o <<b>>)[1] = a /\ (<<a>> \o <<b>>)[2] = b
  BY <1>1
<1>4. <<a, b>> \in Seq(S) /\ Len(<<a, b>>) = 2 /\ <<a, b>>[1] = a /\ <<a, b>>[2] = b
  OBVIOUS
<1>5. \A i \in 1..2 : i = 1 \/ i = 2
  OBVIOUS
<1>. QED
  BY <1>2, <1>3, <1>4, <1>5, SeqEqual

EndsWith(r, t) == Len(t) <= Len(r) /\ SubSeq(r, Len(r) - Len(t) + 1, Len(r)) = t

ReplacedStep(s, c, t, by) ==
    /\ EndsWith(Append(s, c), t) =>
           Replaced(Append(s, c), t, by) = Replaced(SubSeq(s, 1, Len(s) + 1 - Len(t)), t, by) \o by
    /\ ~EndsWith(Append(s, c), t) =>
           Replaced(Append(s, c), t, by) = Append(Replaced(s, t, by), c)

LEMMA ReplacedGrows ==
    ASSUME NEW S, NEW s \in Seq(S), NEW c \in S, NEW t \in Seq(S), t # <<>>, NEW by \in Seq(S)
    PROVE  ReplacedStep(s, c, t, by)
<1>. DEFINE r == Append(s, c)
            n == Len(s) + 1
            k == n - Len(t)
<1>1. /\ r \in Seq(S) /\ Len(r) = n /\ r[n] = c
      /\ n \in Nat \ {0} /\ Len(t) \in Nat \ {0} /\ n - Len(t) = k /\ Len(s) = n - 1
  OBVIOUS
<1>2. \A m \in 0..Len(s) : SubSeq(r, 1, m) = SubSeq(s, 1, m)
  OBVIOUS
<1>3. SubSeq(s, 1, Len(s)) = s
  OBVIOUS
<1>. HIDE DEF r, n, k
<1>4. PICK f : Growth(S, f, r, t, by)
  BY <1>1, ReplacedIs
<1>5. Grows(f, r, t, by) /\ Replaced(r, t, by) = f[n]
  BY <1>1, <1>4 DEF Growth
<1>6. f[n] = Grown(f, r, t, by, n)
  BY <1>1, <1>5 DEF Grows
<1>7. ASSUME NEW m \in 0..Len(s) PROVE Replaced(SubSeq(s, 1, m), t, by) = f[m]
  <2>1. m \in 0..Len(r)
    BY <1>1
  <2>2. Replaced(SubSeq(r, 1, m), t, by) = f[m]
    BY <2>1, <1>1, <1>5, ReplacedOfPrefix
  <2>. QED
    BY <2>2, <1>2
<1>8. Replaced(s, t, by) = f[n - 1]
  <2>1. Len(s) \in 0..Len(s)
    BY <1>1
  <2>2. Replaced(SubSeq(s, 1, Len(s)), t, by) = f[Len(s)]
    BY <2>1, <1>7
  <2>. QED
    BY <2>2, <1>1, <1>3
<1>9. CASE EndsWith(r, t)
  <2>1. k \in 0..Len(s)
    BY <1>1, <1>9 DEF k, EndsWith
  <2>2. n # 0 /\ n >= Len(t) /\ SubSeq(r, n - Len(t) + 1, n) = t
    BY <1>1, <1>9 DEF EndsWith
  <2>3. f[n] = f[k] \o by
    BY <1>1, <1>6, <2>2 DEF Grown, k
  <2>4. f[k] = Replaced(SubSeq(s, 1, k), t, by)
    BY <2>1, <1>7
  <2>. QED
    BY <1>5, <1>9, <2>3, <2>4 DEF r, n, k, ReplacedStep
<1>10. CASE ~EndsWith(r, t)
  <2>1. n # 0 /\ ~(n >= Len(t) /\ SubSeq(r, n - Len(t) + 1, n) = t)
    BY <1>1, <1>10 DEF EndsWith
  <2>2. f[n] = Append(f[n - 1], c)
    BY <1>1, <1>6, <2>1 DEF Grown
  <2>. QED
    BY <1>5, <1>8, <1>10, <2>2 DEF r, n, ReplacedStep
<1>. QED
  BY <1>9, <1>10

LEMMA ReplacedStarts ==
    ASSUME NEW S, NEW t \in Seq(S), t # <<>>, NEW by \in Seq(S)
    PROVE  Replaced(<<>>, t, by) = <<>>
<1>1. <<>> \in Seq(S) /\ Len(<<>>) = 0
  OBVIOUS
<1>2. PICK f : Growth(S, f, <<>>, t, by)
  BY <1>1, ReplacedIs
<1>. QED
  BY <1>1, <1>2 DEF Growth, Grows, Grown

LEMMA ReplacedIsText ==
    ASSUME NEW S, NEW s \in Seq(S), NEW t \in Seq(S), t # <<>>, NEW by \in Seq(S)
    PROVE  Replaced(s, t, by) \in Seq(S)
<1>1. PICK f : Growth(S, f, s, t, by)
  BY ReplacedIs
<1>. QED
  BY <1>1 DEF Growth

OneStep(s, c, x, by) ==
    Replaced(Append(s, c), <<x>>, by) =
        IF c = x THEN Replaced(s, <<x>>, by) \o by ELSE Append(Replaced(s, <<x>>, by), c)

LEMMA OneGrows ==
    ASSUME NEW S, NEW s \in Seq(S), NEW c \in S, NEW x \in S, NEW by \in Seq(S)
    PROVE  OneStep(s, c, x, by)
<1>. DEFINE t == <<x>>
            k == Len(s)
            r == Append(s, c)
<1>1. /\ t \in Seq(S) /\ t # <<>> /\ Len(t) = 1 /\ k \in Nat /\ k = Len(s) + 1 - Len(t)
      /\ r \in Seq(S) /\ Len(r) = k + 1 /\ r[k + 1] = c /\ k >= 0
  OBVIOUS
<1>2. SubSeq(s, 1, k) = s
  OBVIOUS
<1>3. SubSeq(r, k + 1, k + 1) = <<c>>
  <2>. HIDE DEF r, k
  <2>1. SubSeq(r, k + 1, k + 1) = <<r[k + 1]>> \o SubSeq(r, k + 2, k + 1)
    BY <1>1, SubSeqRecursiveFirst
  <2>2. SubSeq(r, k + 2, k + 1) = <<>>
    BY <1>1, SubSeqEmpty
  <2>3. <<c>> \o <<>> = <<c>>
    OBVIOUS
  <2>. QED
    BY <1>1, <2>1, <2>2, <2>3
<1>4. <<c>> = t <=> c = x
  OBVIOUS
<1>. HIDE DEF t
<1>6. SubSeq(s, 1, Len(s) + 1 - Len(t)) = s
  BY <1>1, <1>2 DEF k
<1>7. EndsWith(r, t) <=> c = x
  BY <1>1, <1>3, <1>4 DEF EndsWith
<1>8. Replaced(r, t, by) =
          IF c = x
          THEN Replaced(s, t, by) \o by
          ELSE Append(Replaced(s, t, by), c)
  <2>1. ReplacedStep(s, c, t, by)
    BY <1>1, ReplacedGrows
  <2>. QED
    BY <1>6, <1>7, <2>1 DEF ReplacedStep
<1>. QED
  BY <1>8 DEF t, OneStep

Cut(s) == SubSeq(s, 1, Len(s) - 1)
EndsIn(s, x) == s # <<>> /\ s[Len(s)] = x

TwoStep(s, c, x, y, by) ==
    Replaced(Append(s, c), <<x, y>>, by) =
        IF c = y /\ EndsIn(s, x)
        THEN Replaced(Cut(s), <<x, y>>, by) \o by
        ELSE Append(Replaced(s, <<x, y>>, by), c)

LEMMA TwoGrows ==
    ASSUME NEW S, NEW s \in Seq(S), NEW c \in S, NEW x \in S, NEW y \in S, NEW by \in Seq(S)
    PROVE  TwoStep(s, c, x, y, by)
<1>. DEFINE t == <<x, y>>
            k == Len(s) - 1
            r == Append(s, c)
<1>1. /\ t \in Seq(S) /\ t # <<>> /\ Len(t) = 2 /\ k \in Int /\ k = Len(s) + 1 - Len(t)
      /\ r \in Seq(S) /\ Len(r) = k + 2 /\ r[k + 2] = c /\ Len(s) = k + 1
      /\ (k >= 0 => r[k + 1] = s[k + 1])
  OBVIOUS
<1>2. ASSUME k >= 0 PROVE SubSeq(r, k + 1, k + 2) = <<s[k + 1], c>>
  <2>. HIDE DEF r, k
  <2>1. SubSeq(r, k + 1, k + 2) = <<r[k + 1]>> \o SubSeq(r, k + 2, k + 2)
    BY <1>1, <1>2, SubSeqRecursiveFirst
  <2>2. SubSeq(r, k + 2, k + 2) = <<r[k + 2]>> \o SubSeq(r, k + 3, k + 2)
    BY <1>1, <1>2, SubSeqRecursiveFirst
  <2>3. SubSeq(r, k + 3, k + 2) = <<>>
    BY <1>1, <1>2, SubSeqEmpty
  <2>4. s[k + 1] \in S
    BY <1>1, <1>2, ElementOfSeq
  <2>5. <<c>> \o <<>> = <<c>>
    OBVIOUS
  <2>6. \A d \in S : <<d>> \o <<c>> = <<d, c>>
    BY PairIs
  <2>7. <<s[k + 1]>> \o <<c>> = <<s[k + 1], c>>
    BY <2>4, <2>6
  <2>8. SubSeq(r, k + 2, k + 2) = <<c>>
    BY <1>1, <2>2, <2>3, <2>5
  <2>9. r[k + 1] = s[k + 1]
    BY <1>1, <1>2
  <2>. QED
    BY <2>1, <2>7, <2>8, <2>9
<1>3. k >= 0 <=> s # <<>>
  <2>1. Len(s) \in Nat /\ (s = <<>> <=> Len(s) = 0)
    BY EmptySeq
  <2>. QED
    BY <2>1
<1>4. \A d : <<d, c>> = t <=> d = x /\ c = y
  OBVIOUS
<1>5. Cut(s) = SubSeq(s, 1, k)
  BY <1>1 DEF Cut
<1>. HIDE DEF t
<1>6. SubSeq(s, 1, Len(s) + 1 - Len(t)) = Cut(s)
  BY <1>1, <1>5 DEF k
<1>7. EndsWith(r, t) <=> c = y /\ EndsIn(s, x)
  <2>. HIDE DEF k, r
  <2>1. Len(t) <= Len(r) <=> k >= 0
    BY <1>1
  <2>2. Len(r) - Len(t) + 1 = k + 1 /\ Len(r) = k + 2
    BY <1>1
  <2>3. EndsIn(s, x) <=> k >= 0 /\ s[k + 1] = x
    <3>1. Len(s) = k + 1
      BY <1>1
    <3>. QED
      BY <1>3, <3>1 DEF EndsIn
  <2>4. EndsWith(r, t) <=> k >= 0 /\ SubSeq(r, k + 1, k + 2) = t
    <3>1. EndsWith(r, t) <=> Len(t) <= Len(r) /\ SubSeq(r, Len(r) - Len(t) + 1, Len(r)) = t
      BY DEF EndsWith
    <3>. HIDE DEF EndsWith
    <3>. QED
      BY <2>1, <2>2, <3>1
  <2>5. ASSUME k >= 0 PROVE SubSeq(r, k + 1, k + 2) = t <=> s[k + 1] = x /\ c = y
    BY <1>2, <1>4, <2>5
  <2>. HIDE DEF EndsWith, EndsIn
  <2>. QED
    BY <2>3, <2>4, <2>5
<1>8. Replaced(r, t, by) =
          IF c = y /\ EndsIn(s, x)
          THEN Replaced(Cut(s), t, by) \o by
          ELSE Append(Replaced(s, t, by), c)
  <2>1. ReplacedStep(s, c, t, by)
    BY <1>1, ReplacedGrows
  <2>. QED
    BY <1>6, <1>7, <2>1 DEF ReplacedStep
<1>. QED
  BY <1>8 DEF t, TwoStep

LEMMA TextInduction ==
    ASSUME NEW S, NEW P \in SUBSET Seq(S), <<>> \in P, \A s \in P, c \in S : Append(s, c) \in P
    PROVE  P = Seq(S)
<1>. DEFINE N == {k \in Nat : \A s \in Seq(S) : Len(s) = k => s \in P}
<1>1. 0 \in N
  BY EmptySeq
<1>2. ASSUME NEW k \in N PROVE k + 1 \in N
  <2>. SUFFICES ASSUME NEW s \in Seq(S), Len(s) = k + 1 PROVE s \in P
    OBVIOUS
  <2>1. k \in Nat /\ s # <<>>
    BY EmptySeq
  <2>2. PICK r \in Seq(S), c \in S : s = Append(r, c)
    BY <2>1, SequenceEmptyOrAppend
  <2>3. Len(r) = k
    BY <2>1, <2>2
  <2>. QED
    BY <2>2, <2>3
<1>3. N \in SUBSET Nat
  OBVIOUS
<1>. HIDE DEF N
<1>4. N = Nat
  BY <1>1, <1>2, <1>3, DataInduction
<1>5. ASSUME NEW s \in Seq(S) PROVE s \in P
  <2>1. Len(s) \in N
    BY <1>4
  <2>. QED
    BY <2>1 DEF N
<1>. QED
  BY <1>5

USE IcsAssumption

LEMMA TwoMore ==
    ASSUME NEW S, NEW u \in Seq(S), NEW a \in S, NEW b \in S
    PROVE  u \o <<a, b>> = Append(Append(u, a), b) /\ u \o <<a>> = Append(u, a)
<1>. DEFINE r == Append(u, a)
<1>1. r \in Seq(S) /\ <<a>> \in Seq(S) /\ <<b>> \in Seq(S)
  OBVIOUS
<1>2. r = u \o <<a>>
  BY AppendIsConcat
<1>. HIDE DEF r
<1>3. Append(r, b) = r \o <<b>>
  BY <1>1, AppendIsConcat
<1>4. (u \o <<a>>) \o <<b>> = u \o (<<a>> \o <<b>>)
  BY <1>1, ConcatAssociative
<1>5. <<a>> \o <<b>> = <<a, b>>
  BY PairIs
<1>6. Append(r, b) = u \o <<a, b>>
  BY <1>2, <1>3, <1>4, <1>5
<1>. QED
  BY <1>2, <1>6 DEF r

\* One character replaced by two, and by one.
Doubles(u, c, x, a, b) ==
    Replaced(Append(u, c), <<x>>, <<a, b>>) =
        IF c = x THEN Append(Append(Replaced(u, <<x>>, <<a, b>>), a), b)
        ELSE Append(Replaced(u, <<x>>, <<a, b>>), c)

LEMMA Doubled ==
    ASSUME NEW u \in Seq(Char), NEW c \in Char, NEW x \in Char, NEW a \in Char, NEW b \in Char
    PROVE  Doubles(u, c, x, a, b) /\ Replaced(u, <<x>>, <<a, b>>) \in Seq(Char)
<1>1. <<a, b>> \in Seq(Char) /\ <<x>> \in Seq(Char) /\ <<x>> # <<>>
  OBVIOUS
<1>. DEFINE v == Replaced(u, <<x>>, <<a, b>>)
<1>2. v \in Seq(Char)
  BY <1>1, ReplacedIsText
<1>3. OneStep(u, c, x, <<a, b>>)
  BY <1>1, OneGrows
<1>4. v \o <<a, b>> = Append(Append(v, a), b)
  BY <1>2, TwoMore
<1>. QED
  BY <1>2, <1>3, <1>4 DEF Doubles, OneStep

Slashed(s) == Replaced(s, <<"BS">>, <<"BS", "BS">>)
Halted(s)  == Replaced(s, <<"SEMI">>, <<"BS", "SEMI">>)
Paused(s)  == Replaced(s, <<"COMMA">>, <<"BS", "COMMA">>)
Marks(s)   == Stops(Slashed(s))

Marking(u, c) == IF c \in {"BS", "SEMI", "COMMA"} THEN Append(Append(u, "BS"), c) ELSE Append(u, c)

LEMMA CharsAre == {"BS", "SEMI", "COMMA", "CR", "LF", "SP", "n"} \subseteq Char
BY DEF Char, Special

LEMMA MarksGrow ==
    ASSUME NEW s \in Seq(Char), NEW c \in Char
    PROVE  Marks(Append(s, c)) = Marking(Marks(s), c) /\ Marks(s) \in Seq(Char)
<1>. DEFINE u == Slashed(s)
            v == Halted(u)
            w == Paused(v)
<1>1. u \in Seq(Char) /\ Doubles(s, c, "BS", "BS", "BS")
  BY Doubled, CharsAre DEF Slashed
<1>2. Marks(s) = w
  BY DEF Marks, Stops, Halted, Paused
<1>3. v \in Seq(Char) /\ \A d \in Char : Doubles(u, d, "SEMI", "BS", "SEMI")
  BY <1>1, Doubled, CharsAre DEF Halted
<1>4. w \in Seq(Char) /\ \A d \in Char : Doubles(v, d, "COMMA", "BS", "COMMA")
  BY <1>3, Doubled, CharsAre DEF Paused
<1>5. \A r \in Seq(Char), d \in Char : Append(r, d) \in Seq(Char)
  OBVIOUS
<1>6. Slashed(Append(s, c)) = IF c = "BS" THEN Append(Append(u, "BS"), "BS") ELSE Append(u, c)
  BY <1>1 DEF Doubles, Slashed
<1>. HIDE DEF u, v, w
<1>7. \A d \in Char : Halted(Append(u, d)) =
          IF d = "SEMI" THEN Append(Append(v, "BS"), "SEMI") ELSE Append(v, d)
  BY <1>3 DEF Doubles, Halted, v
<1>8. \A d \in Char : Paused(Append(v, d)) =
          IF d = "COMMA" THEN Append(Append(w, "BS"), "COMMA") ELSE Append(w, d)
  BY <1>4 DEF Doubles, Paused, w
<1>9. CASE c = "BS"
  <2>1. Append(u, "BS") \in Seq(Char) /\ Append(v, "BS") \in Seq(Char)
    BY <1>1, <1>3, <1>5, CharsAre
  <2>2. Halted(Append(u, "BS")) = Append(v, "BS") /\ Paused(Append(v, "BS")) = Append(w, "BS")
    BY <1>7, <1>8, CharsAre
  <2>3. Doubles(Append(u, "BS"), "BS", "SEMI", "BS", "SEMI")
    BY <2>1, Doubled, CharsAre
  <2>4. Doubles(Append(v, "BS"), "BS", "COMMA", "BS", "COMMA")
    BY <2>1, Doubled, CharsAre
  <2>5. Halted(Append(Append(u, "BS"), "BS")) = Append(Append(v, "BS"), "BS")
    BY <2>2, <2>3 DEF Doubles, Halted
  <2>6. Paused(Append(Append(v, "BS"), "BS")) = Append(Append(w, "BS"), "BS")
    BY <2>2, <2>4 DEF Doubles, Paused
  <2>. QED
    BY <1>2, <1>4, <1>6, <1>9, <2>5, <2>6 DEF Marks, Stops, Halted, Paused, Marking
<1>10. CASE c = "SEMI"
  <2>1. Append(v, "BS") \in Seq(Char)
    BY <1>3, <1>5, CharsAre
  <2>2. Halted(Append(u, c)) = Append(Append(v, "BS"), "SEMI")
        /\ Paused(Append(v, "BS")) = Append(w, "BS")
    BY <1>7, <1>8, <1>10, CharsAre
  <2>3. Doubles(Append(v, "BS"), "SEMI", "COMMA", "BS", "COMMA")
    BY <2>1, Doubled, CharsAre
  <2>4. Paused(Append(Append(v, "BS"), "SEMI")) = Append(Append(w, "BS"), "SEMI")
    BY <2>2, <2>3 DEF Doubles, Paused
  <2>. QED
    BY <1>2, <1>4, <1>6, <1>10, <2>2, <2>4 DEF Marks, Stops, Halted, Paused, Marking
<1>11. CASE c = "COMMA"
  <2>1. Halted(Append(u, c)) = Append(v, c) /\ Paused(Append(v, c)) = Append(Append(w, "BS"), c)
    BY <1>7, <1>8, <1>11
  <2>. QED
    BY <1>2, <1>4, <1>6, <1>11, <2>1 DEF Marks, Stops, Halted, Paused, Marking
<1>12. CASE c \notin {"BS", "SEMI", "COMMA"}
  <2>1. Halted(Append(u, c)) = Append(v, c) /\ Paused(Append(v, c)) = Append(w, c)
    BY <1>7, <1>8, <1>12
  <2>. QED
    BY <1>2, <1>4, <1>6, <1>12, <2>1 DEF Marks, Stops, Halted, Paused, Marking
<1>. QED
  BY <1>9, <1>10, <1>11, <1>12

Crlfs(s) == Replaced(s, EndOfLine, <<"BS", "n">>)
Lfs(s)    == Replaced(s, <<"LF">>, <<"BS", "n">>)
Crs(s) == Replaced(s, <<"CR">>, <<"BS", "n">>)

LEMMA CutIs == ASSUME NEW S, NEW s \in Seq(S), s # <<>>
               PROVE  Cut(s) \in Seq(S) /\ s[Len(s)] \in S /\ s = Append(Cut(s), s[Len(s)])
<1>1. PICK r \in Seq(S), c \in S : s = Append(r, c)
  BY SequenceEmptyOrAppend
<1>2. Len(s) = Len(r) + 1 /\ s[Len(s)] = c
  BY <1>1
<1>3. Cut(s) = r
  BY <1>1, <1>2 DEF Cut
<1>. QED
  BY <1>1, <1>2, <1>3

LEMMA CrlfsGrow ==
    ASSUME NEW s \in Seq(Char), NEW c \in Char
    PROVE  /\ Crlfs(s) \in Seq(Char)
           /\ Crlfs(Append(s, c)) =
                  IF c = "LF" /\ EndsIn(s, "CR")
                  THEN Append(Append(Crlfs(Cut(s)), "BS"), "n")
                  ELSE Append(Crlfs(s), c)
<1>1. <<"BS", "n">> \in Seq(Char) /\ EndOfLine \in Seq(Char) /\ EndOfLine # <<>>
  BY CharsAre DEF EndOfLine
<1>2. Crlfs(s) \in Seq(Char)
  BY <1>1, ReplacedIsText DEF Crlfs
<1>3. TwoStep(s, c, "CR", "LF", <<"BS", "n">>)
  BY <1>1, TwoGrows, CharsAre
<1>4. Crlfs(Append(s, c)) =
          IF c = "LF" /\ EndsIn(s, "CR") THEN Crlfs(Cut(s)) \o <<"BS", "n">>
          ELSE Append(Crlfs(s), c)
  BY <1>3 DEF TwoStep, Crlfs, EndOfLine
<1>5. ASSUME EndsIn(s, "CR")
      PROVE  Crlfs(Cut(s)) \o <<"BS", "n">> = Append(Append(Crlfs(Cut(s)), "BS"), "n")
  <2>1. Cut(s) \in Seq(Char)
    BY <1>5, CutIs DEF EndsIn
  <2>2. Crlfs(Cut(s)) \in Seq(Char)
    BY <2>1, <1>1, ReplacedIsText DEF Crlfs
  <2>. QED
    BY <2>2, TwoMore, CharsAre
<1>. QED
  BY <1>2, <1>4, <1>5

\* The last two replacements, of one character by two.
LEMMA LfsGrow ==
    ASSUME NEW u \in Seq(Char), NEW c \in Char
    PROVE  /\ Crs(Lfs(u)) \in Seq(Char)
           /\ Crs(Lfs(Append(u, c))) =
                  IF c \in {"CR", "LF"} THEN Append(Append(Crs(Lfs(u)), "BS"), "n")
                  ELSE Append(Crs(Lfs(u)), c)
<1>. DEFINE v == Lfs(u)
            w == Crs(v)
<1>1. v \in Seq(Char) /\ Doubles(u, c, "LF", "BS", "n")
  BY Doubled, CharsAre DEF Lfs
<1>2. w \in Seq(Char) /\ \A d \in Char : Doubles(v, d, "CR", "BS", "n")
  BY <1>1, Doubled, CharsAre DEF Crs
<1>3. Lfs(Append(u, c)) = IF c = "LF" THEN Append(Append(v, "BS"), "n") ELSE Append(v, c)
  BY <1>1 DEF Doubles, Lfs
<1>. HIDE DEF v, w
<1>4. \A d \in Char : Crs(Append(v, d)) =
          IF d = "CR" THEN Append(Append(w, "BS"), "n") ELSE Append(w, d)
  BY <1>2 DEF Doubles, Crs, w
<1>5. CASE c = "LF"
  <2>1. Append(v, "BS") \in Seq(Char)
    BY <1>1, CharsAre
  <2>2. Doubles(Append(v, "BS"), "n", "CR", "BS", "n")
    BY <2>1, Doubled, CharsAre
  <2>3. Crs(Append(v, "BS")) = Append(w, "BS")
    BY <1>4, CharsAre
  <2>4. Crs(Append(Append(v, "BS"), "n")) = Append(Append(w, "BS"), "n")
    BY <2>2, <2>3 DEF Doubles, Crs
  <2>. QED
    BY <1>2, <1>3, <1>5, <2>4 DEF v, w
<1>6. CASE c # "LF"
  BY <1>2, <1>3, <1>4, <1>6 DEF v, w
<1>. QED
  BY <1>5, <1>6

NewLining(u, c) == IF c \in {"CR", "LF"} THEN Append(Append(u, "BS"), "n") ELSE Append(u, c)

LEMMA NewLinesGrow ==
    ASSUME NEW s \in Seq(Char), NEW c \in Char
    PROVE  /\ NewLines(s) \in Seq(Char)
           /\ NewLines(Append(s, c)) =
                  IF c = "LF" /\ EndsIn(s, "CR") THEN NewLines(s) ELSE NewLining(NewLines(s), c)
<1>1. \A r \in Seq(Char) : NewLines(r) = Crs(Lfs(Crlfs(r)))
  BY DEF NewLines, Crs, Lfs, Crlfs
<1>2. \A r \in Seq(Char) : Crlfs(r) \in Seq(Char)
  BY CrlfsGrow, CharsAre
<1>3. \A r \in Seq(Char), d \in Char : Append(r, d) \in Seq(Char)
  OBVIOUS
<1>4. Crlfs(s) \in Seq(Char) /\ Append(s, c) \in Seq(Char)
  BY <1>2, <1>3
<1>5. NewLines(s) \in Seq(Char)
  BY <1>1, <1>4, LfsGrow
<1>6. CASE ~(c = "LF" /\ EndsIn(s, "CR"))
  <2>1. Crlfs(Append(s, c)) = Append(Crlfs(s), c)
    BY <1>6, CrlfsGrow
  <2>2. Crs(Lfs(Append(Crlfs(s), c))) = NewLining(Crs(Lfs(Crlfs(s))), c)
    BY <1>4, LfsGrow DEF NewLining
  <2>. QED
    BY <1>1, <1>4, <1>5, <1>6, <2>1, <2>2
<1>7. CASE c = "LF" /\ EndsIn(s, "CR")
  <2>. DEFINE r == Cut(s)
              j == Crlfs(r)
  <2>1. r \in Seq(Char) /\ s = Append(r, "CR")
    BY <1>7, CutIs DEF EndsIn
  <2>2. j \in Seq(Char) /\ Append(j, "BS") \in Seq(Char)
    BY <1>2, <1>3, <2>1, CharsAre
  <2>3. Crlfs(Append(s, c)) = Append(Append(j, "BS"), "n")
    BY <1>7, CrlfsGrow
  <2>. HIDE DEF r, j
  <2>4. Crlfs(s) = Append(j, "CR")
    <3>1. Crlfs(Append(r, "CR")) = Append(Crlfs(r), "CR")
      BY <2>1, CrlfsGrow, CharsAre
    <3>. QED
      BY <2>1, <3>1 DEF j
  <2>5. Crs(Lfs(Append(j, "CR"))) = Append(Append(Crs(Lfs(j)), "BS"), "n")
    BY <2>2, LfsGrow, CharsAre
  <2>6. Crs(Lfs(Append(j, "BS"))) = Append(Crs(Lfs(j)), "BS")
    BY <2>2, LfsGrow, CharsAre
  <2>7. Crs(Lfs(Append(Append(j, "BS"), "n"))) = Append(Crs(Lfs(Append(j, "BS"))), "n")
    BY <2>2, LfsGrow, CharsAre
  <2>. QED
    BY <1>1, <1>4, <1>5, <1>7, <2>3, <2>4, <2>5, <2>6, <2>7
<1>. QED
  BY <1>6, <1>7

LEMMA MarksEnd ==
    ASSUME NEW s \in Seq(Char)
    PROVE  EndsIn(Marks(s), "CR") <=> EndsIn(s, "CR")
<1>1. \A r \in Seq(Char), d \in Char :
          Append(r, d) \in Seq(Char) /\ (EndsIn(Append(r, d), "CR") <=> d = "CR")
  <2>. SUFFICES ASSUME NEW r \in Seq(Char), NEW d \in Char
                PROVE  Append(r, d) \in Seq(Char) /\ (EndsIn(Append(r, d), "CR") <=> d = "CR")
    OBVIOUS
  <2>. DEFINE q == Append(r, d)
  <2>1. q \in Seq(Char) /\ Len(q) = Len(r) + 1 /\ q[Len(r) + 1] = d /\ Len(r) \in Nat
    OBVIOUS
  <2>. HIDE DEF q
  <2>2. q # <<>>
    BY <2>1, EmptySeq
  <2>3. EndsIn(q, "CR") <=> d = "CR"
    BY <2>1, <2>2 DEF EndsIn
  <2>. QED
    BY <2>1, <2>3 DEF q
<1>2. CASE s = <<>>
  <2>1. Slashed(<<>>) = <<>>
    <3>1. <<"BS">> \in Seq(Char) /\ <<"BS", "BS">> \in Seq(Char) /\ <<"BS">> # <<>>
      BY CharsAre
    <3>. QED
      BY <3>1, ReplacedStarts DEF Slashed
  <2>2. Halted(<<>>) = <<>> /\ Paused(<<>>) = <<>>
    <3>1. <<"SEMI">> \in Seq(Char) /\ <<"BS", "SEMI">> \in Seq(Char)
          /\ <<"COMMA">> \in Seq(Char) /\ <<"BS", "COMMA">> \in Seq(Char)
          /\ <<"SEMI">> # <<>> /\ <<"COMMA">> # <<>>
      BY CharsAre
    <3>. QED
      BY <3>1, ReplacedStarts DEF Halted, Paused
  <2>3. Marks(<<>>) = <<>>
    BY <2>1, <2>2 DEF Marks, Stops, Halted, Paused
  <2>. QED
    BY <1>2, <2>3 DEF EndsIn
<1>3. CASE s # <<>>
  <2>. DEFINE r == Cut(s)
              d == s[Len(s)]
              m == Marks(r)
  <2>1. r \in Seq(Char) /\ d \in Char /\ s = Append(r, d)
    BY <1>3, CutIs
  <2>. HIDE DEF r, d
  <2>2. Marks(s) = Marking(m, d) /\ m \in Seq(Char)
    BY <2>1, MarksGrow
  <2>. HIDE DEF m
  <2>3. Append(m, "BS") \in Seq(Char)
    BY <1>1, <2>2, CharsAre
  <2>4. EndsIn(Marking(m, d), "CR") <=> d = "CR"
    <3>1. EndsIn(Append(m, d), "CR") <=> d = "CR"
      BY <1>1, <2>1, <2>2
    <3>2. EndsIn(Append(Append(m, "BS"), d), "CR") <=> d = "CR"
      BY <1>1, <2>1, <2>3
    <3>. QED
      BY <3>1, <3>2 DEF Marking
  <2>5. EndsIn(Append(r, d), "CR") <=> d = "CR"
    BY <1>1, <2>1
  <2>. QED
    BY <2>1, <2>2, <2>4, <2>5
<1>. QED
  BY <1>2, <1>3

\* What Escape does with the next character: the LF of a CRLF is done already.
Escaping(e, c) ==
    IF c \in {"BS", "SEMI", "COMMA"} THEN Append(Append(e, "BS"), c)
    ELSE IF c \in {"CR", "LF"} THEN Append(Append(e, "BS"), "n")
    ELSE Append(e, c)

LEMMA EscapeGrows ==
    ASSUME NEW s \in Seq(Char), NEW c \in Char
    PROVE  /\ Escape(s) \in Seq(Char)
           /\ Escape(Append(s, c)) =
                  IF c = "LF" /\ EndsIn(s, "CR") THEN Escape(s) ELSE Escaping(Escape(s), c)
<1>. DEFINE m == Marks(s)
            e == NewLines(m)
<1>1. \A r : Escape(r) = NewLines(Marks(r))
  BY DEF Escape, Marks, Slashed
<1>2. m \in Seq(Char) /\ Marks(Append(s, c)) = Marking(m, c)
  BY MarksGrow
<1>3. EndsIn(m, "CR") <=> EndsIn(s, "CR")
  BY MarksEnd
<1>. HIDE DEF m
<1>4. e \in Seq(Char) /\ Escape(s) = e
  BY <1>1, <1>2, NewLinesGrow DEF m
<1>5. Escape(Append(s, c)) = NewLines(Marking(m, c))
  BY <1>1, <1>2
<1>. HIDE DEF e
<1>6. \A d \in Char : NewLines(Append(m, d)) =
          IF d = "LF" /\ EndsIn(m, "CR") THEN e ELSE NewLining(e, d)
  BY <1>2, NewLinesGrow DEF e
<1>7. CASE c \in {"BS", "SEMI", "COMMA"}
  <2>1. Append(m, "BS") \in Seq(Char)
    BY <1>2, CharsAre
  <2>2. NewLines(Append(m, "BS")) = Append(e, "BS")
    BY <1>6, CharsAre DEF NewLining
  <2>3. NewLines(Append(Append(m, "BS"), c)) = Append(Append(e, "BS"), c)
    BY <1>7, <2>1, <2>2, NewLinesGrow DEF NewLining
  <2>. QED
    BY <1>4, <1>5, <1>7, <2>3 DEF Marking, Escaping
<1>8. CASE c \notin {"BS", "SEMI", "COMMA"}
  BY <1>3, <1>4, <1>5, <1>6, <1>8 DEF Marking, Escaping, NewLining
<1>. QED
  BY <1>7, <1>8

LEMMA EscapeStarts == Escape(<<>>) = <<>>
<1>1. /\ <<"BS", "BS">> \in Seq(Char) /\ <<"BS", "SEMI">> \in Seq(Char)
      /\ <<"BS", "COMMA">> \in Seq(Char) /\ <<"BS", "n">> \in Seq(Char)
      /\ <<"BS">> \in Seq(Char) /\ <<"SEMI">> \in Seq(Char) /\ <<"COMMA">> \in Seq(Char)
      /\ <<"CR">> \in Seq(Char) /\ <<"LF">> \in Seq(Char) /\ EndOfLine \in Seq(Char)
      /\ <<"BS">> # <<>> /\ <<"SEMI">> # <<>> /\ <<"COMMA">> # <<>>
      /\ <<"CR">> # <<>> /\ <<"LF">> # <<>> /\ EndOfLine # <<>>
  BY CharsAre DEF EndOfLine
<1>2. /\ Replaced(<<>>, <<"BS">>, <<"BS", "BS">>) = <<>>
      /\ Replaced(<<>>, <<"SEMI">>, <<"BS", "SEMI">>) = <<>>
      /\ Replaced(<<>>, <<"COMMA">>, <<"BS", "COMMA">>) = <<>>
  BY <1>1, ReplacedStarts
<1>3. /\ Replaced(<<>>, EndOfLine, <<"BS", "n">>) = <<>>
      /\ Replaced(<<>>, <<"LF">>, <<"BS", "n">>) = <<>>
      /\ Replaced(<<>>, <<"CR">>, <<"BS", "n">>) = <<>>
  BY <1>1, ReplacedStarts
<1>. QED
  BY <1>2, <1>3 DEF Escape, Stops, NewLines

Unbroken(c) == IF c = "CR" THEN "LF" ELSE c

LEMMA TypedGrows ==
    ASSUME NEW s \in Seq(Char), NEW c \in Char
    PROVE  /\ Typed(s) \in Seq(Char)
           /\ Typed(Append(s, c)) =
                  IF c = "LF" /\ EndsIn(s, "CR") THEN Typed(s) ELSE Append(Typed(s), Unbroken(c))
<1>. DEFINE J(r) == Replaced(r, EndOfLine, <<"LF">>)
            R(r) == Replaced(r, <<"CR">>, <<"LF">>)
<1>1. <<"LF">> \in Seq(Char) /\ <<"CR">> \in Seq(Char) /\ EndOfLine \in Seq(Char)
      /\ <<"CR">> # <<>> /\ EndOfLine # <<>>
  BY CharsAre DEF EndOfLine
<1>2. \A r \in Seq(Char) : J(r) \in Seq(Char) /\ R(r) \in Seq(Char)
  BY <1>1, ReplacedIsText
<1>3. \A r \in Seq(Char), d \in Char :
          R(Append(r, d)) = Append(R(r), Unbroken(d))
  <2>. SUFFICES ASSUME NEW r \in Seq(Char), NEW d \in Char
                PROVE  R(Append(r, d)) = Append(R(r), Unbroken(d))
    OBVIOUS
  <2>1. OneStep(r, d, "CR", <<"LF">>)
    BY <1>1, OneGrows, CharsAre
  <2>2. R(r) \o <<"LF">> = Append(R(r), "LF")
    BY <1>2, TwoMore, CharsAre
  <2>. QED
    BY <2>1, <2>2 DEF OneStep, Unbroken
<1>4. \A r \in Seq(Char), d \in Char :
          J(Append(r, d)) = IF d = "LF" /\ EndsIn(r, "CR") THEN Append(J(Cut(r)), "LF")
                            ELSE Append(J(r), d)
  <2>. SUFFICES ASSUME NEW r \in Seq(Char), NEW d \in Char
                PROVE  J(Append(r, d)) = IF d = "LF" /\ EndsIn(r, "CR") THEN Append(J(Cut(r)), "LF")
                                         ELSE Append(J(r), d)
    OBVIOUS
  <2>1. TwoStep(r, d, "CR", "LF", <<"LF">>)
    BY <1>1, TwoGrows, CharsAre
  <2>2. ASSUME EndsIn(r, "CR") PROVE J(Cut(r)) \o <<"LF">> = Append(J(Cut(r)), "LF")
    <3>1. J(Cut(r)) \in Seq(Char)
      BY <1>2, <2>2, CutIs DEF EndsIn
    <3>. QED
      BY <3>1, TwoMore, CharsAre
  <2>. QED
    BY <2>1, <2>2 DEF TwoStep, EndOfLine
<1>5. \A r \in Seq(Char) : Typed(r) = R(J(r))
  BY DEF Typed
<1>. HIDE DEF J, R
<1>6. Typed(s) \in Seq(Char) /\ Append(s, c) \in Seq(Char) /\ J(s) \in Seq(Char)
  BY <1>2, <1>5
<1>7. CASE ~(c = "LF" /\ EndsIn(s, "CR"))
  <2>1. J(Append(s, c)) = Append(J(s), c)
    BY <1>4, <1>7
  <2>2. R(Append(J(s), c)) = Append(R(J(s)), Unbroken(c))
    BY <1>3, <1>6
  <2>. QED
    BY <1>5, <1>6, <1>7, <2>1, <2>2
<1>8. CASE c = "LF" /\ EndsIn(s, "CR")
  <2>. DEFINE r == Cut(s)
              j == J(r)
  <2>1. r \in Seq(Char) /\ s = Append(r, "CR")
    BY <1>8, CutIs DEF EndsIn
  <2>2. J(Append(s, c)) = Append(j, "LF")
    BY <1>4, <1>8
  <2>. HIDE DEF r
  <2>3. j \in Seq(Char)
    BY <1>2, <2>1
  <2>4. J(Append(r, "CR")) = Append(j, "CR")
    BY <1>4, <2>1, CharsAre
  <2>. HIDE DEF j
  <2>5. R(Append(j, "LF")) = Append(R(j), "LF") /\ R(Append(j, "CR")) = Append(R(j), "LF")
    BY <1>3, <2>3, CharsAre DEF Unbroken
  <2>. QED
    BY <1>5, <1>6, <1>8, <2>1, <2>2, <2>4, <2>5
<1>. QED
  BY <1>7, <1>8

LEMMA TypedStarts == Typed(<<>>) = <<>>
<1>1. <<"LF">> \in Seq(Char) /\ <<"CR">> \in Seq(Char) /\ EndOfLine \in Seq(Char)
      /\ <<"CR">> # <<>> /\ EndOfLine # <<>>
  BY CharsAre DEF EndOfLine
<1>2. Replaced(<<>>, EndOfLine, <<"LF">>) = <<>> /\ Replaced(<<>>, <<"CR">>, <<"LF">>) = <<>>
  BY <1>1, ReplacedStarts
<1>. QED
  BY <1>2 DEF Typed

\* A client that reads an escaped text: what it has, and whether a backslash
\* came last.
Reading(r, c) ==
    IF r[2] THEN <<Append(r[1], IF c = "n" THEN "LF" ELSE c), FALSE>>
    ELSE IF c = "BS" THEN <<r[1], TRUE>>
    ELSE <<Append(r[1], c), FALSE>>

Traces(e, g) == g[0] = <<<<>>, FALSE>> /\ \A p \in 1..Len(e) : g[p] = Reading(g[p - 1], e[p])
Yields(e, g, t) == Traces(e, g) /\ g[Len(e)] = t

LEMMA YieldsOn ==
    ASSUME NEW e \in Seq(Char), NEW c \in Char, NEW t, \E g : Yields(e, g, t)
    PROVE  \E g : Yields(Append(e, c), g, Reading(t, c))
<1>. DEFINE n == Len(e)
            r == Append(e, c)
<1>1. PICK g : Yields(e, g, t)
  OBVIOUS
<1>. DEFINE h == [p \in 0..(n + 1) |-> IF p = n + 1 THEN Reading(t, c) ELSE g[p]]
<1>2. n \in Nat /\ r \in Seq(Char) /\ Len(r) = n + 1 /\ r[n + 1] = c /\ \A p \in 1..n : r[p] = e[p]
  OBVIOUS
<1>3. h[n + 1] = Reading(t, c) /\ \A p \in 0..n : h[p] = g[p]
  BY <1>2
<1>. HIDE DEF h, n, r
<1>4. g[0] = <<<<>>, FALSE>> /\ g[n] = t /\ \A p \in 1..n : g[p] = Reading(g[p - 1], e[p])
  BY <1>1 DEF Yields, Traces, n
<1>5. h[0] = <<<<>>, FALSE>>
  <2>1. 0 \in 0..n
    BY <1>2
  <2>. QED
    BY <1>3, <1>4, <2>1
<1>6. ASSUME NEW p \in 1..(n + 1) PROVE h[p] = Reading(h[p - 1], r[p])
  <2>1. p - 1 \in 0..n
    BY <1>2
  <2>2. h[p - 1] = g[p - 1]
    BY <1>3, <2>1
  <2>3. CASE p = n + 1
    <3>1. p - 1 = n
      BY <1>2, <2>3
    <3>. QED
      BY <1>2, <1>3, <1>4, <2>2, <2>3, <3>1
  <2>4. CASE p # n + 1
    <3>1. p \in 1..n /\ p \in 0..n
      BY <1>2, <2>4
    <3>. QED
      BY <1>2, <1>3, <1>4, <2>2, <3>1
  <2>. QED
    BY <2>3, <2>4
<1>7. Yields(r, h, Reading(t, c))
  BY <1>2, <1>3, <1>5, <1>6 DEF Yields, Traces
<1>. QED
  BY <1>7 DEF r

Unbreaking(e) == \A p \in 1..Len(e) : e[p] \notin {"CR", "LF"}

\* Escaping (_escape) is undone by the client, whatever the text, and leaves no
\* line break in it for a content line to break at.
THEOREM EscapeIsUndone ==
    ASSUME NEW s \in Seq(Char)
    PROVE  /\ Unbreaking(Escape(s))
           /\ \E g : Yields(Escape(s), g, <<Typed(s), FALSE>>)
<1>. DEFINE P == {r \in Seq(Char) : /\ Unbreaking(Escape(r))
                                    /\ \E g : Yields(Escape(r), g, <<Typed(r), FALSE>>)}
<1>1. <<>> \in P
  <2>. DEFINE g == [p \in 0..0 |-> <<<<>>, FALSE>>]
  <2>1. /\ Len(<<>>) = 0 /\ <<>> \in Seq(Char)
        /\ g[0] = <<<<>>, FALSE>>
        /\ \A p \in 1..0 : FALSE
    <3>1. 0 \in 0..0 /\ \A p \in 1..0 : FALSE
      OBVIOUS
    <3>2. g[0] = <<<<>>, FALSE>>
      BY <3>1
    <3>. QED
      BY <3>1, <3>2, EmptySeq
  <2>. HIDE DEF g
  <2>2. Yields(<<>>, g, <<<<>>, FALSE>>)
    BY <2>1 DEF Yields, Traces
  <2>3. Unbreaking(<<>>)
    BY <2>1 DEF Unbreaking
  <2>4. Unbreaking(Escape(<<>>)) /\ Yields(Escape(<<>>), g, <<Typed(<<>>), FALSE>>)
    BY <2>2, <2>3, EscapeStarts, TypedStarts
  <2>. QED
    BY <2>1, <2>4
<1>2. ASSUME NEW r \in P, NEW c \in Char PROVE Append(r, c) \in P
  <2>. DEFINE e == Escape(r)
              t == Typed(r)
  <2>1. r \in Seq(Char) /\ Append(r, c) \in Seq(Char)
    OBVIOUS
  <2>2. Unbreaking(e) /\ \E g : Yields(e, g, <<t, FALSE>>)
    OBVIOUS
  <2>. HIDE DEF P
  <2>3. e \in Seq(Char)
    BY <2>1, EscapeGrows
  <2>4. t \in Seq(Char)
    BY <2>1, TypedGrows
  <2>5. Escape(Append(r, c)) = IF c = "LF" /\ EndsIn(r, "CR") THEN e ELSE Escaping(e, c)
    BY <2>1, EscapeGrows
  <2>6. Typed(Append(r, c)) = IF c = "LF" /\ EndsIn(r, "CR") THEN t ELSE Append(t, Unbroken(c))
    BY <2>1, TypedGrows
  <2>. HIDE DEF e, t
  <2>7. \A u \in Seq(Char), d \in Char :
            Unbreaking(u) /\ d \notin {"CR", "LF"} => Unbreaking(Append(u, d))
    <3>. SUFFICES ASSUME NEW u \in Seq(Char), NEW d \in Char, Unbreaking(u), d \notin {"CR", "LF"}
                  PROVE  Unbreaking(Append(u, d))
      OBVIOUS
    <3>1. \A p \in 1..Len(Append(u, d)) :
              Append(u, d)[p] = d \/ (p \in 1..Len(u) /\ Append(u, d)[p] = u[p])
      OBVIOUS
    <3>. QED
      BY <3>1 DEF Unbreaking
  <2>8. CASE c = "LF" /\ EndsIn(r, "CR")
    BY <2>1, <2>2, <2>5, <2>6, <2>8 DEF P
  <2>9. CASE ~(c = "LF" /\ EndsIn(r, "CR"))
    <3>. DEFINE b == Append(e, "BS")
                d == IF c \in {"CR", "LF"} THEN "n" ELSE c
    <3>1. b \in Seq(Char) /\ d \in Char /\ Unbreaking(b)
      BY <2>2, <2>3, <2>7, CharsAre
    <3>2. Reading(<<t, FALSE>>, "BS") = <<t, TRUE>>
      BY DEF Reading
    <3>3. \E g : Yields(b, g, <<t, TRUE>>)
      <4>1. \E g : Yields(Append(e, "BS"), g, Reading(<<t, FALSE>>, "BS"))
        BY <2>2, <2>3, YieldsOn, CharsAre
      <4>. QED
        BY <3>2, <4>1
    <3>. HIDE DEF b
    <3>4. CASE c \in {"BS", "SEMI", "COMMA", "CR", "LF"}
      <4>1. Escaping(e, c) = Append(b, d)
        BY <3>4 DEF Escaping, b
      <4>2. Reading(<<t, TRUE>>, d) = <<Append(t, Unbroken(c)), FALSE>>
        BY <3>4 DEF Reading, Unbroken
      <4>3. \E g : Yields(Append(b, d), g, Reading(<<t, TRUE>>, d))
        BY <3>1, <3>3, YieldsOn
      <4>4. Unbreaking(Append(b, d))
        BY <2>7, <3>1, <3>4
      <4>. QED
        BY <2>1, <2>5, <2>6, <2>9, <4>1, <4>2, <4>3, <4>4 DEF P
    <3>5. CASE c \notin {"BS", "SEMI", "COMMA", "CR", "LF"}
      <4>1. Escaping(e, c) = Append(e, c)
        BY <3>5 DEF Escaping
      <4>2. Reading(<<t, FALSE>>, c) = <<Append(t, Unbroken(c)), FALSE>>
        BY <3>5 DEF Reading, Unbroken
      <4>3. \E g : Yields(Append(e, c), g, Reading(<<t, FALSE>>, c))
        BY <2>2, <2>3, YieldsOn
      <4>4. Unbreaking(Append(e, c))
        BY <2>2, <2>3, <2>7, <3>5
      <4>. QED
        BY <2>1, <2>5, <2>6, <2>9, <4>1, <4>2, <4>3, <4>4 DEF P
    <3>. QED
      BY <3>4, <3>5
  <2>. QED
    BY <2>8, <2>9
<1>3. P \in SUBSET Seq(Char)
  OBVIOUS
<1>. HIDE DEF P
<1>4. P = Seq(Char)
  BY <1>1, <1>2, <1>3, TextInduction
<1>5. s \in P
  BY <1>4
<1>. QED
  BY <1>5 DEF P

IcsNames  == {"BEGIN", "SUMMARY", "DESCRIPTION", "ORGANIZER", "ATTENDEE", "END"}
IcsSymbol == IcsNames \cup Char
IcsFound  == [name : IcsSymbol, text : Seq(Char)]
IcsClients == [mode : {"eol", "text", "cr", "lost"}, found : Seq(IcsFound),
            escaped : BOOLEAN, octets : Nat]

LEMMA WidthIs == ASSUME NEW c PROVE Width(c) \in Nat /\ Width(c) >= 1 /\ Width(c) <= 4
BY DEF Width

\* What the client has of the line it is in: the text, and whether a backslash
\* came last.
Held(cl) == <<cl.found[Len(cl.found)].text, cl.escaped>>

LEMMA LongerIs ==
    ASSUME NEW f \in Seq(IcsFound), f # <<>>, NEW c \in Char
    PROVE  /\ Longer(f, c) \in Seq(IcsFound) /\ Len(Longer(f, c)) = Len(f)
           /\ \A i \in 1..Len(f) : i # Len(f) => Longer(f, c)[i] = f[i]
           /\ Longer(f, c)[Len(f)].name = f[Len(f)].name
           /\ Longer(f, c)[Len(f)].text = Append(f[Len(f)].text, c)
<1>. DEFINE n == Len(f)
            r == ContentLine(f[n].name, Append(f[n].text, c))
<1>1. n \in 1..Len(f) /\ f[n] \in IcsFound
  BY EmptySeq, ElementOfSeq
<1>2. r \in IcsFound /\ r.name = f[n].name /\ r.text = Append(f[n].text, c)
  BY <1>1 DEF IcsFound, ContentLine
<1>3. Longer(f, c) = [f EXCEPT ![n] = r]
  BY DEF Longer
<1>. HIDE DEF r, n
<1>4. /\ [f EXCEPT ![n] = r] \in Seq(IcsFound) /\ Len([f EXCEPT ![n] = r]) = Len(f)
      /\ \A j \in 1..Len(f) : [f EXCEPT ![n] = r][j] = IF j = n THEN r ELSE f[j]
  BY <1>1, <1>2, ExceptSeq
<1>. QED
  BY <1>1, <1>2, <1>3, <1>4 DEF n

\* The client in a text, at any character but the end of the line.
GoesOn(cl, c, h, n) ==
    /\ h \in IcsClients /\ h.mode = "text" /\ h.octets = cl.octets + Width(c)
    /\ Len(h.found) = n /\ \A i \in 1..n : i # n => h.found[i] = cl.found[i]
    /\ h.found[n].name = cl.found[n].name /\ Held(h) = Reading(Held(cl), c)

LEMMA HandedText ==
    ASSUME NEW cl \in IcsClients, cl.mode = "text", cl.found # <<>>, NEW c \in Char, c # "CR",
           NEW h, h = Handed(cl, c), NEW n, n = Len(cl.found)
    PROVE  GoesOn(cl, c, h, n)
<1>. DEFINE f == cl.found
            o == cl.octets + Width(c)
            d == IF cl.escaped /\ c = "n" THEN "LF" ELSE c
            g == Longer(f, d)
<1>1. f \in Seq(IcsFound) /\ cl.escaped \in BOOLEAN /\ o \in Nat /\ d \in Char
  BY WidthIs, CharsAre DEF IcsClients
<1>2. h = IF ~cl.escaped /\ c = "BS" THEN Client("text", f, TRUE, o)
          ELSE Client("text", g, FALSE, o)
  BY DEF Handed, Understood
<1>3. /\ g \in Seq(IcsFound) /\ Len(g) = n /\ \A i \in 1..n : i # n => g[i] = f[i]
      /\ g[n].name = f[n].name /\ g[n].text = Append(f[n].text, d)
  BY <1>1, LongerIs
<1>4. CASE ~cl.escaped /\ c = "BS"
  <2>1. h.mode = "text" /\ h.found = f /\ h.escaped = TRUE /\ h.octets = o
    BY <1>2, <1>4 DEF Client
  <2>2. h \in IcsClients
    BY <1>1, <1>2, <1>4 DEF Client, IcsClients
  <2>3. Held(h) = Reading(Held(cl), c)
    BY <1>4, <2>1 DEF Held, Reading
  <2>. QED
    BY <2>1, <2>2, <2>3 DEF GoesOn
<1>5. CASE ~(~cl.escaped /\ c = "BS")
  <2>. HIDE DEF g
  <2>1. h.mode = "text" /\ h.found = g /\ h.escaped = FALSE /\ h.octets = o
    BY <1>2, <1>5 DEF Client
  <2>2. h \in IcsClients
    BY <1>1, <1>2, <1>3, <1>5 DEF Client, IcsClients
  <2>3. Held(h) = <<Append(f[n].text, d), FALSE>>
    BY <1>3, <2>1 DEF Held
  <2>4. Reading(Held(cl), c) = <<Append(f[n].text, d), FALSE>>
    BY <1>1, <1>5 DEF Held, Reading
  <2>. QED
    BY <1>3, <2>1, <2>2, <2>3, <2>4 DEF GoesOn
<1>. QED
  BY <1>4, <1>5

\* At a CR, at the LF after it, and at what follows: a space goes on, and
\* anything else begins the next line.
LEMMA HandedReturn ==
    ASSUME NEW cl \in IcsClients, cl.mode = "text", NEW h, h = Handed(cl, "CR")
    PROVE  /\ h \in IcsClients /\ h.mode = "cr" /\ h.found = cl.found
           /\ h.escaped = cl.escaped /\ h.octets = cl.octets
<1>1. h = Client("cr", cl.found, cl.escaped, cl.octets)
  BY DEF Handed
<1>. QED
  BY <1>1 DEF Client, IcsClients

LEMMA HandedFeed ==
    ASSUME NEW cl \in IcsClients, cl.mode = "cr", NEW h, h = Handed(cl, "LF")
    PROVE  /\ h \in IcsClients /\ h.mode = "eol" /\ h.found = cl.found
           /\ h.escaped = cl.escaped /\ h.octets = cl.octets
<1>1. h = Client("eol", cl.found, cl.escaped, cl.octets)
  BY DEF Handed
<1>. QED
  BY <1>1 DEF Client, IcsClients

LEMMA HandedSpace ==
    ASSUME NEW cl \in IcsClients, cl.mode = "eol", cl.found # <<>>, NEW h, h = Handed(cl, "SP")
    PROVE  /\ h \in IcsClients /\ h.mode = "text" /\ h.found = cl.found
           /\ h.escaped = cl.escaped /\ h.octets = 1
<1>1. Width("SP") = 1
  BY DEF Width, Special
<1>2. h = Client("text", cl.found, cl.escaped, 1)
  BY <1>1 DEF Handed
<1>. QED
  BY <1>2 DEF Client, IcsClients

Opens(cl, c, h, n) ==
    /\ h \in IcsClients /\ h.mode = "text" /\ h.octets = Width(c)
    /\ Len(h.found) = n + 1 /\ \A i \in 1..n : h.found[i] = cl.found[i]
    /\ h.found[n + 1].name = c /\ Held(h) = <<<<>>, FALSE>>

LEMMA HandedName ==
    ASSUME NEW cl \in IcsClients, cl.mode = "eol", NEW c \in IcsNames, NEW h, h = Handed(cl, c),
           NEW n, n = Len(cl.found)
    PROVE  Opens(cl, c, h, n)
<1>. DEFINE e == ContentLine(c, <<>>)
            f == Append(cl.found, e)
<1>1. h = Client("text", f, FALSE, Width(c))
  BY DEF Handed, IcsNames
<1>2. e \in IcsFound /\ e.name = c /\ e.text = <<>>
  BY DEF IcsFound, ContentLine, IcsSymbol
<1>. HIDE DEF e
<1>3. cl.found \in Seq(IcsFound)
  BY DEF IcsClients
<1>4. /\ f \in Seq(IcsFound) /\ Len(f) = n + 1 /\ f[n + 1] = e
      /\ \A i \in 1..n : f[i] = cl.found[i]
  BY <1>2, <1>3
<1>. HIDE DEF f
<1>5. h.mode = "text" /\ h.found = f /\ h.escaped = FALSE /\ h.octets = Width(c)
  BY <1>1 DEF Client
<1>6. h \in IcsClients
  BY <1>1, <1>4, WidthIs DEF Client, IcsClients
<1>. QED
  BY <1>2, <1>4, <1>5, <1>6 DEF Held, Opens

\* The octets of the first k symbols of a line.
OctetGrid(s, k)  == {p \in (1..k) \X (1..4) : p[2] <= Width(s[p[1]])}
OctetsTo(s, k) == Cardinality(OctetGrid(s, k))

LEMMA OctetGridIsFinite ==
    ASSUME NEW s, NEW k \in Nat PROVE IsFiniteSet(OctetGrid(s, k)) /\ OctetsTo(s, k) \in Nat
<1>1. IsFiniteSet(1..k) /\ IsFiniteSet(1..4)
  <2>1. 1 \in Int /\ 4 \in Int /\ k \in Int
    OBVIOUS
  <2>. QED
    BY <2>1, FS_Interval
<1>2. IsFiniteSet((1..k) \X (1..4))
  BY <1>1, FS_Product
<1>3. OctetGrid(s, k) \in SUBSET ((1..k) \X (1..4))
  BY DEF OctetGrid
<1>4. IsFiniteSet(OctetGrid(s, k))
  BY <1>2, <1>3, FS_Subset
<1>. QED
  BY <1>4, FS_CardinalityType DEF OctetsTo

LEMMA OctetsToStart == ASSUME NEW s PROVE OctetsTo(s, 0) = 0
<1>1. OctetGrid(s, 0) = {}
  BY DEF OctetGrid
<1>. QED
  BY <1>1, FS_EmptySet DEF OctetsTo

LEMMA OctetsToGrow ==
    ASSUME NEW s, NEW k \in Nat
    PROVE  OctetsTo(s, k + 1) = OctetsTo(s, k) + Width(s[k + 1])
<1>. DEFINE w == Width(s[k + 1])
            G == OctetGrid(s, k)
            N == {k + 1} \X (1..w)
<1>1. w \in Nat /\ w >= 1 /\ w <= 4
  BY WidthIs
<1>2. OctetGrid(s, k + 1) = G \cup N
  <2>1. \A p : p \in OctetGrid(s, k + 1) <=> p \in G \/ p \in N
    BY <1>1 DEF OctetGrid
  <2>. QED
    BY <2>1
<1>3. G \cap N = {}
  BY DEF OctetGrid
<1>. HIDE DEF w
<1>4. IsFiniteSet({k + 1}) /\ Cardinality({k + 1}) = 1
  BY FS_Singleton
<1>5. IsFiniteSet(1..w) /\ Cardinality(1..w) = w
  <2>1. 1 \in Int /\ w \in Int
    BY <1>1
  <2>2. IsFiniteSet(1..w) /\ Cardinality(1..w) = IF 1 > w THEN 0 ELSE w - 1 + 1
    BY <2>1, FS_Interval
  <2>. QED
    BY <1>1, <2>2
<1>6. IsFiniteSet(N) /\ Cardinality(N) = Cardinality({k + 1}) * Cardinality(1..w)
  BY <1>4, <1>5, FS_Product
<1>7. Cardinality(N) = w
  BY <1>1, <1>4, <1>5, <1>6
<1>8. IsFiniteSet(G) /\ Cardinality(G) \in Nat
  BY OctetGridIsFinite DEF OctetsTo
<1>. HIDE DEF G, N
<1>9. Cardinality(G \cup N) = Cardinality(G) + Cardinality(N) - Cardinality(G \cap N)
  BY <1>6, <1>8, FS_Union
<1>10. Cardinality(G \cap N) = 0
  BY <1>3, FS_EmptySet
<1>11. Cardinality(G \cup N) = Cardinality(G) + w
  BY <1>1, <1>7, <1>8, <1>9, <1>10
<1>12. Cardinality(OctetGrid(s, k + 1)) = Cardinality(G) + w
  BY <1>2, <1>11
<1>. QED
  BY <1>12 DEF OctetsTo, G, w

LEMMA OctetsToIsWithin ==
    ASSUME NEW s, NEW k \in Nat, NEW n \in Nat, k <= n
    PROVE  OctetsTo(s, k) <= OctetsTo(s, n)
<1>1. OctetGrid(s, k) \in SUBSET OctetGrid(s, n)
  BY DEF OctetGrid
<1>. QED
  BY <1>1, OctetGridIsFinite, FS_Subset DEF OctetsTo

LEMMA OctetsToIsAll == ASSUME NEW s PROVE OctetsOf(s) = OctetsTo(s, Len(s))
BY DEF OctetsOf, OctetsTo, OctetGrid

-------------------------------------------------------------------------------

IcsProperty == [name : IcsNames, text : Seq(Char)]

LEMMA JoinTyped ==
    ASSUME NEW S, NEW s \in Seq(S), NEW t \in Seq(S)
    PROVE  s \o t \in Seq(S) /\ Len(s \o t) = Len(s) + Len(t)
BY ConcatProperties

LEMMA EntriesAre ==
    ASSUME NEW i \in Invitation
    PROVE  Entries(i) \in Seq(IcsProperty) /\ Len(Entries(i)) \in Nat
<1>1. /\ i.title \in Seq(Char) /\ i.description \in Seq(Char) /\ i.organiser \in Seq(Char)
      /\ i.guests \in Seq(Seq(Char))
  OBVIOUS
<1>2. \A n \in IcsNames, t \in Seq(Char) : ContentLine(n, t) \in IcsProperty
  BY DEF ContentLine, IcsProperty
<1>3. \A n \in IcsNames, t \in Seq(Char) : Optional(n, t) \in Seq(IcsProperty)
  BY <1>2 DEF Optional
<1>. DEFINE a == <<ContentLine("BEGIN", <<>>), ContentLine("SUMMARY", i.title)>>
            b == Optional("DESCRIPTION", i.description)
            c == Optional("ORGANIZER", i.organiser)
            d == [n \in 1..Len(i.guests) |-> ContentLine("ATTENDEE", i.guests[n])]
            e == <<ContentLine("END", <<>>)>>
<1>4. {"BEGIN", "SUMMARY", "DESCRIPTION", "ORGANIZER", "ATTENDEE", "END"} = IcsNames
  BY DEF IcsNames
<1>5. a \in Seq(IcsProperty)
  <2>1. ContentLine("BEGIN", <<>>) \in IcsProperty
        /\ ContentLine("SUMMARY", i.title) \in IcsProperty
    <3>1. "BEGIN" \in IcsNames /\ "SUMMARY" \in IcsNames /\ <<>> \in Seq(Char)
      BY <1>4, EmptySeq
    <3>. QED
      BY <3>1, <1>1, <1>2
  <2>. QED
    BY <2>1
<1>6. b \in Seq(IcsProperty) /\ c \in Seq(IcsProperty)
  BY <1>1, <1>3, <1>4
<1>7. d \in Seq(IcsProperty)
  <2>1. Len(i.guests) \in Nat
        /\ \A n \in 1..Len(i.guests) : ContentLine("ATTENDEE", i.guests[n]) \in IcsProperty
    <3>1. "ATTENDEE" \in IcsNames
      BY <1>4
    <3>2. Len(i.guests) \in Nat /\ \A n \in 1..Len(i.guests) : i.guests[n] \in Seq(Char)
      BY <1>1, ElementOfSeq
    <3>. QED
      BY <3>1, <3>2, <1>2
  <2>. QED
    BY <2>1
<1>8. e \in Seq(IcsProperty)
  <2>1. ContentLine("END", <<>>) \in IcsProperty
    <3>1. "END" \in IcsNames /\ <<>> \in Seq(Char)
      BY <1>4, EmptySeq
    <3>. QED
      BY <3>1, <1>2
  <2>. QED
    BY <2>1
<1>9. Entries(i) = a \o b \o c \o d \o e
  BY DEF Entries
<1>. HIDE DEF a, b, c, d, e
<1>10. a \o b \o c \o d \o e \in Seq(IcsProperty)
  BY <1>5, <1>6, <1>7, <1>8, JoinTyped
<1>. QED
  BY <1>9, <1>10

\* A line: the name, and then the escaped text.
LEMMA LinesAre ==
    ASSUME NEW i \in Invitation, NEW l \in 1..Len(Entries(i))
    PROVE  LET x == Entries(i)[l]
               e == Escape(x.text)
               s == Lines(i)[l]
           IN  /\ x \in IcsProperty /\ x.name \in IcsNames /\ x.text \in Seq(Char)
               /\ e \in Seq(Char) /\ Len(e) \in Nat
               /\ s = <<x.name>> \o e /\ Len(s) = Len(e) + 1 /\ s[1] = x.name
               /\ \A p \in 1..Len(e) : s[p + 1] = e[p] /\ e[p] \in Char /\ e[p] \notin {"CR", "LF"}
<1>. DEFINE x == Entries(i)[l]
            e == Escape(x.text)
            s == <<x.name>> \o e
<1>1. x \in IcsProperty
  BY EntriesAre, ElementOfSeq
<1>2. x.name \in IcsNames /\ x.text \in Seq(Char)
  BY <1>1 DEF IcsProperty
<1>3. e \in Seq(Char)
  BY <1>2, EscapeGrows, CharsAre
<1>4. Lines(i)[l] = s
  BY DEF Lines
<1>5. Unbreaking(e)
  BY <1>2, EscapeIsUndone
<1>. HIDE DEF x, e
<1>6. <<x.name>> \in Seq(IcsSymbol) /\ e \in Seq(IcsSymbol)
  <2>1. x.name \in IcsSymbol /\ Char \subseteq IcsSymbol
    BY <1>2 DEF IcsSymbol
  <2>. QED
    BY <1>3, <2>1, SeqMonotonic
<1>7. Len(s) = 1 + Len(e)
      /\ \A p \in 1..(1 + Len(e)) : s[p] = IF p <= 1 THEN <<x.name>>[p] ELSE e[p - 1]
  BY <1>6, ConcatProperties
<1>8. Len(e) \in Nat /\ 1 \in 1..(1 + Len(e)) /\ <<x.name>>[1] = x.name
  BY <1>3
<1>. HIDE DEF s
<1>9. s[1] = x.name
  BY <1>7, <1>8
<1>10. ASSUME NEW p \in 1..Len(e) PROVE s[p + 1] = e[p] /\ e[p] \in Char /\ e[p] \notin {"CR", "LF"}
  <2>1. p + 1 \in 1..(1 + Len(e)) /\ ~(p + 1 <= 1) /\ (p + 1) - 1 = p
    BY <1>8
  <2>2. s[p + 1] = e[p]
    BY <1>7, <2>1
  <2>. QED
    BY <1>3, <1>5, <2>2, ElementOfSeq DEF Unbreaking
<1>. QED
  BY <1>1, <1>2, <1>3, <1>4, <1>7, <1>8, <1>9, <1>10 DEF x, e, s

\* How the client comes by a text, one symbol of its line at a time.
Trace(t) == CHOOSE g : Yields(Escape(t), g, <<Typed(t), FALSE>>)

LEMMA TraceIs ==
    ASSUME NEW t \in Seq(Char)
    PROVE  /\ Trace(t)[0] = <<<<>>, FALSE>> /\ Trace(t)[Len(Escape(t))] = <<Typed(t), FALSE>>
           /\ \A p \in 1..Len(Escape(t)) : Trace(t)[p] = Reading(Trace(t)[p - 1], Escape(t)[p])
<1>1. Yields(Escape(t), Trace(t), <<Typed(t), FALSE>>)
  BY EscapeIsUndone DEF Trace
<1>. QED
  BY <1>1 DEF Yields, Traces

\* The client has read the lines before l, and of l the first p symbols, with
\* so many octets since the last end of a line.
Taken(cl, i, n) ==
    cl.found[n].name = Entries(i)[n].name /\ cl.found[n].text = Typed(Entries(i)[n].text)

InText(cl, i, l, p, used) ==
    /\ cl.mode = "text" /\ Len(cl.found) = l /\ cl.octets = used
    /\ cl.found[l].name = Entries(i)[l].name
    /\ Held(cl) = Trace(Entries(i)[l].text)[p - 1]

Heard(cl, i, l, p, used) ==
    /\ cl \in IcsClients
    /\ \A n \in 1..(l - 1) : Taken(cl, i, n)
    /\ p = 0 => cl.mode = "eol" /\ Len(cl.found) = l - 1
    /\ p > 0 => InText(cl, i, l, p, used)

LEMMA HeardName ==
    ASSUME NEW cl, NEW i \in Invitation, NEW l \in 1..Len(Entries(i)), NEW used,
           Heard(cl, i, l, 0, used), NEW h, h = Handed(cl, Entries(i)[l].name)
    PROVE  Heard(h, i, l, 1, Width(Entries(i)[l].name))
<1>. DEFINE c == Entries(i)[l].name
            t == Entries(i)[l].text
<1>1. c \in IcsNames /\ t \in Seq(Char) /\ l \in Nat /\ l - 1 \in Nat /\ (l - 1) + 1 = l
  <2>1. c \in IcsNames /\ t \in Seq(Char)
    BY LinesAre
  <2>2. l \in Nat /\ l > 0
    BY EntriesAre
  <2>. QED
    BY <2>1, <2>2
<1>2. cl \in IcsClients /\ cl.mode = "eol" /\ Len(cl.found) = l - 1
      /\ \A n \in 1..(l - 1) : Taken(cl, i, n)
  BY DEF Heard
<1>. HIDE DEF c, t
<1>3. h = Handed(cl, c)
  BY DEF c
<1>4. /\ h \in IcsClients /\ h.mode = "text" /\ h.octets = Width(c)
      /\ Len(h.found) = (l - 1) + 1 /\ \A n \in 1..(l - 1) : h.found[n] = cl.found[n]
      /\ h.found[(l - 1) + 1].name = c /\ Held(h) = <<<<>>, FALSE>>
  <2>1. Opens(cl, c, h, l - 1)
    BY <1>1, <1>2, <1>3, HandedName
  <2>. QED
    BY <2>1 DEF Opens
<1>5. \A n \in 1..(l - 1) : Taken(h, i, n)
  BY <1>2, <1>4 DEF Taken
<1>6. Held(h) = Trace(t)[1 - 1]
  <2>1. Trace(t)[0] = <<<<>>, FALSE>>
    BY <1>1, TraceIs
  <2>2. 1 - 1 = 0
    OBVIOUS
  <2>. QED
    BY <1>4, <2>1, <2>2
<1>7. InText(h, i, l, 1, Width(c))
  BY <1>1, <1>4, <1>6 DEF InText, c, t
<1>. QED
  BY <1>4, <1>5, <1>7 DEF Heard, c

LEMMA HeardText ==
    ASSUME NEW cl, NEW i \in Invitation, NEW l \in 1..Len(Entries(i)), NEW used,
           NEW p \in Nat, p > 0,
           p < Len(Lines(i)[l]), Heard(cl, i, l, p, used),
           NEW c, c = Lines(i)[l][p + 1], NEW h, h = Handed(cl, c)
    PROVE  Heard(h, i, l, p + 1, used + Width(c))
<1>. DEFINE t == Entries(i)[l].text
            e == Escape(t)
<1>1. /\ t \in Seq(Char) /\ Len(e) \in Nat /\ Len(Lines(i)[l]) = Len(e) + 1
      /\ \A q \in 1..Len(e) : Lines(i)[l][q + 1] = e[q] /\ e[q] \in Char /\ e[q] \notin {"CR", "LF"}
  BY LinesAre
<1>2. l \in Nat /\ l > 0
  BY EntriesAre
<1>. HIDE DEF t, e
<1>3. p \in 1..Len(e)
  BY <1>1
<1>4. c = e[p] /\ c \in Char /\ c # "CR"
  BY <1>1, <1>3
<1>5. /\ cl \in IcsClients /\ cl.mode = "text" /\ Len(cl.found) = l /\ cl.octets = used
      /\ cl.found[l].name = Entries(i)[l].name /\ Held(cl) = Trace(t)[p - 1]
      /\ \A n \in 1..(l - 1) : Taken(cl, i, n)
  BY DEF Heard, InText, t
<1>6. cl.found # <<>>
  BY <1>2, <1>5, EmptySeq
<1>7. /\ h \in IcsClients /\ h.mode = "text" /\ h.octets = cl.octets + Width(c)
      /\ Len(h.found) = l /\ \A n \in 1..l : n # l => h.found[n] = cl.found[n]
      /\ h.found[l].name = cl.found[l].name /\ Held(h) = Reading(Held(cl), c)
  <2>1. GoesOn(cl, c, h, l)
    BY <1>4, <1>5, <1>6, HandedText
  <2>. QED
    BY <2>1 DEF GoesOn
<1>8. \A n \in 1..(l - 1) : Taken(h, i, n)
  <2>1. \A n \in 1..(l - 1) : n \in 1..l /\ n # l
    BY <1>2
  <2>. QED
    BY <1>5, <1>7, <2>1 DEF Taken
<1>9. Trace(t)[p] = Reading(Trace(t)[p - 1], e[p])
  BY <1>1, <1>3, TraceIs DEF e
<1>10. Held(h) = Trace(t)[(p + 1) - 1]
  <2>1. (p + 1) - 1 = p
    OBVIOUS
  <2>. QED
    BY <1>4, <1>5, <1>7, <1>9, <2>1
<1>11. InText(h, i, l, p + 1, used + Width(c))
  BY <1>5, <1>7, <1>10 DEF InText, t
<1>. QED
  BY <1>7, <1>8, <1>11 DEF Heard

\* CRLF and a space in a text, which change nothing but the count.
GoneOver(a, b, h, i, l, p, used) ==
    a.octets = used /\ b.octets = used /\ h.octets = 1 /\ Heard(h, i, l, p, 1)

LEMMA HeardFold ==
    ASSUME NEW cl, NEW i \in Invitation, NEW l \in 1..Len(Entries(i)), NEW used,
           NEW p \in Nat, p > 0,
           Heard(cl, i, l, p, used), NEW a, a = Handed(cl, "CR"), NEW b, b = Handed(a, "LF"),
           NEW h, h = Handed(b, "SP")
    PROVE  GoneOver(a, b, h, i, l, p, used)
<1>1. l \in Nat /\ l > 0
  BY EntriesAre
<1>2. /\ cl \in IcsClients /\ cl.mode = "text" /\ Len(cl.found) = l /\ cl.octets = used
      /\ \A n \in 1..(l - 1) : Taken(cl, i, n)
  BY DEF Heard, InText
<1>3. a \in IcsClients /\ a.mode = "cr" /\ a.found = cl.found
      /\ a.escaped = cl.escaped /\ a.octets = used
  BY <1>2, HandedReturn
<1>4. b \in IcsClients /\ b.mode = "eol" /\ b.found = cl.found
      /\ b.escaped = cl.escaped /\ b.octets = used
  BY <1>3, HandedFeed
<1>5. b.found # <<>>
  BY <1>1, <1>2, <1>4, EmptySeq
<1>6. h \in IcsClients /\ h.mode = "text" /\ h.found = b.found
      /\ h.escaped = b.escaped /\ h.octets = 1
  BY <1>4, <1>5, HandedSpace
<1>7. h.found = cl.found /\ h.escaped = cl.escaped
  BY <1>4, <1>6
<1>8. Held(h) = Held(cl)
  BY <1>7 DEF Held
<1>9. \A n \in 1..(l - 1) : Taken(h, i, n)
  BY <1>2, <1>7 DEF Taken
<1>10. InText(h, i, l, p, 1)
  BY <1>6, <1>7, <1>8 DEF InText, Heard
<1>. QED
  BY <1>3, <1>4, <1>6, <1>9, <1>10 DEF Heard, GoneOver

\* CRLF after the last symbol: the text is complete.
TextEnded(a, h, i, l, used) ==
    a.octets = used /\ h.octets = used /\ \A v : Heard(h, i, l + 1, 0, v)

LEMMA HeardEnd ==
    ASSUME NEW cl, NEW i \in Invitation, NEW l \in 1..Len(Entries(i)), NEW used,
           Heard(cl, i, l, Len(Lines(i)[l]), used), NEW a, a = Handed(cl, "CR"),
           NEW h, h = Handed(a, "LF")
    PROVE  TextEnded(a, h, i, l, used)
<1>. DEFINE t == Entries(i)[l].text
            e == Escape(t)
<1>1. t \in Seq(Char) /\ Len(e) \in Nat /\ Len(Lines(i)[l]) = Len(e) + 1
  BY LinesAre
<1>2. l \in Nat /\ l > 0
  BY EntriesAre
<1>. HIDE DEF t, e
<1>3. Len(Lines(i)[l]) > 0 /\ Len(Lines(i)[l]) - 1 = Len(e)
  BY <1>1
<1>4. InText(cl, i, l, Len(Lines(i)[l]), used)
      /\ cl \in IcsClients /\ \A n \in 1..(l - 1) : Taken(cl, i, n)
  BY <1>3 DEF Heard
<1>5. /\ cl.mode = "text" /\ Len(cl.found) = l /\ cl.octets = used
      /\ cl.found[l].name = Entries(i)[l].name /\ Held(cl) = Trace(t)[Len(e)]
  BY <1>3, <1>4 DEF InText, t
<1>6. a \in IcsClients /\ a.mode = "cr" /\ a.found = cl.found /\ a.octets = used
  BY <1>4, <1>5, HandedReturn
<1>7. h \in IcsClients /\ h.mode = "eol" /\ h.found = cl.found /\ h.octets = used
  BY <1>6, HandedFeed
<1>8. Held(cl) = <<Typed(t), FALSE>>
  BY <1>1, <1>5, TraceIs DEF e
<1>9. cl.found[l].text = Typed(t)
  BY <1>5, <1>8 DEF Held
<1>10. \A n \in 1..((l + 1) - 1) : Taken(h, i, n)
  <2>1. \A n \in 1..((l + 1) - 1) : n \in 1..(l - 1) \/ n = l
    BY <1>2
  <2>2. Taken(cl, i, l)
    BY <1>5, <1>9 DEF Taken, t
  <2>3. \A n \in 1..((l + 1) - 1) : Taken(cl, i, n)
    BY <1>4, <2>1, <2>2
  <2>. QED
    BY <1>7, <2>3 DEF Taken
<1>11. Len(h.found) = (l + 1) - 1
  BY <1>2, <1>5, <1>7
<1>. QED
  BY <1>6, <1>7, <1>10, <1>11 DEF Heard, TextEnded

-------------------------------------------------------------------------------
\* What the client makes of the wire, and the octets it counts meanwhile.
Hand1(cl, w) == Handed(cl, w[1])
Hand2(cl, w) == Handed(Hand1(cl, w), w[2])
Hand3(cl, w) == Handed(Hand2(cl, w), w[3])
Hand4(cl, w) == Handed(Hand3(cl, w), w[4])

OnceHanded(cl, w) ==
    IF Len(w) = 0 THEN cl
    ELSE IF Len(w) = 1 THEN Hand1(cl, w)
    ELSE IF Len(w) = 2 THEN Hand2(cl, w)
    ELSE IF Len(w) = 3 THEN Hand3(cl, w)
    ELSE Hand4(cl, w)

AllFit(cl, w) ==
    /\ cl.octets <= Octets
    /\ Len(w) >= 1 => Hand1(cl, w).octets <= Octets
    /\ Len(w) >= 2 => Hand2(cl, w).octets <= Octets
    /\ Len(w) >= 3 => Hand3(cl, w).octets <= Octets
    /\ Len(w) >= 4 => Hand4(cl, w).octets <= Octets

OctetsCounted ==
    /\ limit \in {Octets, Octets - 1} /\ octets \in Nat /\ octets <= limit
    /\ place = 0 => octets = 0 /\ limit = Octets
    /\ line <= Len(lines) /\ OctetsOf(lines[line]) <= Octets =>
          limit = Octets /\ octets = OctetsTo(lines[line], place)

LinePlaced ==
    /\ invitation \in Invitation /\ lines = Lines(invitation)
    /\ line \in 1..(Len(lines) + 1) /\ place \in Nat
    /\ line <= Len(lines) => place <= Len(lines[line])
    /\ line > Len(lines) => place = 0

FoldInv ==
    /\ LinePlaced /\ OctetsCounted
    /\ wire \in Seq(IcsSymbol) /\ Len(wire) <= 4
    /\ AllFit(client, wire)
    /\ Heard(OnceHanded(client, wire), invitation, line, place, octets + (Octets - limit))

LEMMA LinesCount ==
    ASSUME NEW i \in Invitation PROVE Len(Lines(i)) = Len(Entries(i)) /\ Len(Lines(i)) \in Nat
BY EntriesAre DEF Lines

LEMMA FoldStarts == IcsInit => FoldInv
<1>. SUFFICES ASSUME IcsInit PROVE FoldInv
  OBVIOUS
<1>1. /\ invitation \in Invitation /\ lines = Lines(invitation) /\ line = 1 /\ place = 0
      /\ octets = 0 /\ limit = Octets /\ wire = <<>> /\ client = Client("eol", <<>>, FALSE, 0)
  BY DEF IcsInit
<1>2. Len(lines) \in Nat /\ Len(lines) = Len(Entries(invitation))
  BY <1>1, LinesCount
<1>3. LinePlaced
  <2>1. line <= Len(lines) => Len(lines[line]) \in Nat
    <3>. SUFFICES ASSUME 1 <= Len(lines) PROVE Len(Lines(invitation)[1]) \in Nat
      BY <1>1
    <3>1. 1 \in 1..Len(Entries(invitation))
      BY <1>2
    <3>2. Len(Lines(invitation)[1]) = Len(Escape(Entries(invitation)[1].text)) + 1
          /\ Len(Escape(Entries(invitation)[1].text)) \in Nat
      BY <1>1, <3>1, LinesAre
    <3>. QED
      BY <3>2
  <2>. QED
    BY <1>1, <1>2, <2>1 DEF LinePlaced
<1>4. OctetsCounted
  BY <1>1, OctetsToStart DEF OctetsCounted
<1>5. wire \in Seq(IcsSymbol) /\ Len(wire) = 0
  BY <1>1, EmptySeq
<1>6. client \in IcsClients /\ client.mode = "eol" /\ client.found = <<>> /\ client.octets = 0
  BY <1>1, EmptySeq DEF Client, IcsClients
<1>7. AllFit(client, wire)
  BY <1>5, <1>6 DEF AllFit
<1>8. OnceHanded(client, wire) = client
  BY <1>5 DEF OnceHanded
<1>9. Heard(client, invitation, line, place, octets + (Octets - limit))
  <2>1. line - 1 = 0 /\ (\A n \in 1..0 : FALSE) /\ ~(place > 0)
    BY <1>1
  <2>2. Len(client.found) = 0
    BY <1>6, EmptySeq
  <2>3. \A n \in 1..(line - 1) : Taken(client, invitation, n)
    BY <2>1
  <2>. QED
    BY <1>6, <2>1, <2>2, <2>3 DEF Heard
<1>. QED
  BY <1>3, <1>4, <1>5, <1>7, <1>8, <1>9 DEF FoldInv

LEMMA ReceiveKeeps == FoldInv /\ Receive => FoldInv'
<1>. SUFFICES ASSUME FoldInv, Receive PROVE FoldInv'
  OBVIOUS
<1>1. /\ wire # <<>> /\ client' = Handed(client, Head(wire)) /\ wire' = Tail(wire)
      /\ UNCHANGED <<invitation, lines, line, place, octets, limit>>
  BY DEF Receive
<1>2. wire \in Seq(IcsSymbol) /\ Len(wire) \in 1..4
  <2>1. wire \in Seq(IcsSymbol)
    BY DEF FoldInv
  <2>2. Len(wire) <= 4
    BY DEF FoldInv
  <2>3. Len(wire) \in Nat /\ Len(wire) # 0
    BY <1>1, <2>1, EmptySeq
  <2>4. \A k \in Nat : k # 0 /\ k <= 4 => k \in 1..4
    OBVIOUS
  <2>5. Len(wire) \in 1..4
    BY <2>2, <2>3, <2>4
  <2>. QED
    BY <2>1, <2>5
<1>3. /\ wire' \in Seq(IcsSymbol) /\ Len(wire') = Len(wire) - 1
      /\ \A n \in 1..Len(wire') : wire'[n] = wire[n + 1]
  BY <1>1, <1>2, HeadTailProperties
<1>4. client' = Hand1(client, wire)
  BY <1>1, <1>2 DEF Hand1
<1>5. /\ Len(wire) >= 2 => Hand1(client', wire') = Hand2(client, wire)
      /\ Len(wire) >= 3 => Hand2(client', wire') = Hand3(client, wire)
      /\ Len(wire) >= 4 => Hand3(client', wire') = Hand4(client, wire)
  <2>1. ASSUME Len(wire) >= 2 PROVE Hand1(client', wire') = Hand2(client, wire)
    <3>1. wire'[1] = wire[2]
      BY <1>2, <1>3, <2>1
    <3>. QED
      BY <1>4, <3>1 DEF Hand1, Hand2
  <2>2. ASSUME Len(wire) >= 3 PROVE Hand2(client', wire') = Hand3(client, wire)
    <3>1. wire'[2] = wire[3]
      BY <1>2, <1>3, <2>2
    <3>2. Hand1(client', wire') = Hand2(client, wire)
      BY <1>2, <2>1, <2>2
    <3>. QED
      BY <3>1, <3>2 DEF Hand2, Hand3
  <2>3. ASSUME Len(wire) >= 4 PROVE Hand3(client', wire') = Hand4(client, wire)
    <3>1. wire'[3] = wire[4]
      BY <1>2, <1>3, <2>3
    <3>2. Hand2(client', wire') = Hand3(client, wire)
      BY <1>2, <2>2, <2>3
    <3>. QED
      BY <3>1, <3>2 DEF Hand3, Hand4
  <2>. QED
    BY <2>1, <2>2, <2>3
<1>6. OnceHanded(client', wire') = OnceHanded(client, wire)
  BY <1>2, <1>3, <1>4, <1>5 DEF OnceHanded
<1>7. AllFit(client', wire')
  BY <1>2, <1>3, <1>4, <1>5 DEF AllFit, FoldInv
<1>8. LinePlaced' /\ OctetsCounted'
  BY <1>1 DEF FoldInv, LinePlaced, OctetsCounted
<1>9. Heard(OnceHanded(client', wire'), invitation', line', place', octets' + (Octets - limit'))
  BY <1>1, <1>6 DEF FoldInv
<1>10. Len(wire') <= 4
  BY <1>2, <1>3
<1>. QED
  BY <1>3, <1>7, <1>8, <1>9, <1>10 DEF FoldInv

LEMMA EndLineKeeps == FoldInv /\ EndLine => FoldInv'
<1>. SUFFICES ASSUME FoldInv, EndLine PROVE FoldInv'
  OBVIOUS
<1>1. /\ line <= Len(lines) /\ wire = <<>> /\ place = Len(lines[line]) /\ wire' = EndOfLine
      /\ line' = line + 1 /\ place' = 0 /\ octets' = 0 /\ limit' = Octets
      /\ invitation' = invitation /\ lines' = lines /\ client' = client
  BY DEF EndLine, Writing
<1>2. /\ invitation \in Invitation /\ lines = Lines(invitation) /\ line \in 1..(Len(lines) + 1)
      /\ Len(lines) \in Nat /\ Len(lines) = Len(Entries(invitation))
  BY LinesCount DEF FoldInv, LinePlaced
<1>3. line \in 1..Len(Entries(invitation)) /\ line \in Nat
  BY <1>1, <1>2
<1>. DEFINE used == octets + (Octets - limit)
            a == Handed(client, "CR")
            b == Handed(a, "LF")
<1>4. used <= Octets /\ used \in Nat
  BY DEF FoldInv, OctetsCounted
<1>5. Heard(client, invitation, line, Len(Lines(invitation)[line]), used)
  <2>1. OnceHanded(client, wire) = client
    BY <1>1, EmptySeq DEF OnceHanded
  <2>. QED
    BY <1>1, <1>2, <2>1 DEF FoldInv
<1>6. a.octets = used /\ b.octets = used /\ \A v : Heard(b, invitation, line + 1, 0, v)
  <2>. HIDE DEF used
  <2>1. TextEnded(a, b, invitation, line, used)
    BY <1>2, <1>3, <1>5, HeardEnd
  <2>. QED
    BY <2>1 DEF TextEnded
<1>7. wire' \in Seq(IcsSymbol) /\ Len(wire') = 2 /\ wire'[1] = "CR" /\ wire'[2] = "LF"
  <2>1. "CR" \in IcsSymbol /\ "LF" \in IcsSymbol
    BY CharsAre DEF IcsSymbol
  <2>. QED
    BY <1>1, <2>1 DEF EndOfLine
<1>. HIDE DEF used, a, b
<1>8. Hand1(client', wire') = a /\ Hand2(client', wire') = b
  BY <1>1, <1>7 DEF Hand1, Hand2, a, b
<1>9. OnceHanded(client', wire') = b
  BY <1>7, <1>8 DEF OnceHanded
<1>10. client.octets <= Octets
  BY DEF FoldInv, AllFit
<1>11. AllFit(client', wire')
  BY <1>1, <1>4, <1>6, <1>7, <1>8, <1>10 DEF AllFit
<1>12. LinePlaced'
  <2>1. line + 1 <= Len(lines) => Len(lines[line + 1]) \in Nat
    <3>. SUFFICES ASSUME line + 1 <= Len(lines) PROVE Len(Lines(invitation)[line + 1]) \in Nat
      BY <1>2
    <3>1. line + 1 \in 1..Len(Entries(invitation))
      BY <1>2, <1>3
    <3>2. Len(Lines(invitation)[line + 1]) = Len(Escape(Entries(invitation)[line + 1].text)) + 1
          /\ Len(Escape(Entries(invitation)[line + 1].text)) \in Nat
      BY <1>2, <3>1, LinesAre
    <3>. QED
      BY <3>2
  <2>2. line' \in 1..(Len(lines) + 1)
    BY <1>1, <1>2, <1>3
  <2>. QED
    BY <1>1, <1>2, <2>1, <2>2 DEF LinePlaced
<1>13. OctetsCounted'
  BY <1>1, OctetsToStart DEF OctetsCounted
<1>14. Heard(OnceHanded(client', wire'), invitation', line', place', octets' + (Octets - limit'))
  BY <1>1, <1>6, <1>9
<1>. QED
  BY <1>7, <1>11, <1>12, <1>13, <1>14 DEF FoldInv

IsFour(S, w, a, b, c, d) ==
    w \in Seq(S) /\ Len(w) = 4 /\ w[1] = a /\ w[2] = b /\ w[3] = c /\ w[4] = d

LEMMA FourIs ==
    ASSUME NEW S, NEW a \in S, NEW b \in S, NEW c \in S, NEW d \in S
    PROVE  IsFour(S, <<a, b>> \o <<c, d>>, a, b, c, d)
<1>. DEFINE u == <<a, b>>
            v == Append(u, c)
            w == Append(v, d)
<1>1. u \in Seq(S) /\ Len(u) = 2 /\ u[1] = a /\ u[2] = b
  OBVIOUS
<1>. HIDE DEF u
<1>2. v \in Seq(S) /\ Len(v) = 3 /\ v[1] = u[1] /\ v[2] = u[2] /\ v[3] = c
  <2>0. u \in Seq(S)
    BY <1>1
  <2>1. /\ v \in Seq(S) /\ Len(v) = Len(u) + 1 /\ v[Len(u) + 1] = c
        /\ \A i \in 1..Len(u) : v[i] = u[i]
    BY <2>0
  <2>. HIDE DEF v
  <2>. QED
    BY <1>1, <2>1
<1>3. u \o <<c, d>> = w
  BY <1>1, TwoMore
<1>. HIDE DEF v
<1>4. w \in Seq(S) /\ Len(w) = 4 /\ w[1] = v[1] /\ w[2] = v[2] /\ w[3] = v[3] /\ w[4] = d
  <2>1. /\ w \in Seq(S) /\ Len(w) = Len(v) + 1 /\ w[Len(v) + 1] = d
        /\ \A i \in 1..Len(v) : w[i] = v[i]
    BY <1>2
  <2>. HIDE DEF w
  <2>. QED
    BY <1>2, <2>1
<1>. QED
  BY <1>1, <1>2, <1>3, <1>4 DEF IsFour, u

LEMMA PutKeeps == FoldInv /\ Put => FoldInv'
<1>. SUFFICES ASSUME FoldInv, Put PROVE FoldInv'
  OBVIOUS
<1>. DEFINE c == lines[line][place + 1]
            used == octets + (Octets - limit)
            folds == octets + Width(c) > limit /\ OctetsOf(lines[line]) > Octets
<1>1. /\ line <= Len(lines) /\ wire = <<>> /\ place < Len(lines[line]) /\ place' = place + 1
      /\ invitation' = invitation /\ lines' = lines /\ line' = line /\ client' = client
      /\ IF folds THEN /\ wire' = EndOfLine \o <<"SP", c>>
                       /\ octets' = Width(c) /\ limit' = Octets - 1
         ELSE wire' = <<c>> /\ octets' = octets + Width(c) /\ limit' = limit
  BY DEF Put, Writing
<1>2. /\ invitation \in Invitation /\ lines = Lines(invitation) /\ line \in 1..(Len(lines) + 1)
      /\ Len(lines) \in Nat /\ Len(lines) = Len(Entries(invitation)) /\ place \in Nat
  BY LinesCount DEF FoldInv, LinePlaced
<1>3. line \in 1..Len(Entries(invitation)) /\ line \in Nat
  BY <1>1, <1>2
<1>4. Width(c) \in Nat /\ Width(c) >= 1 /\ Width(c) <= 4
  BY WidthIs
<1>5. /\ limit \in {Octets, Octets - 1} /\ limit \in Nat /\ octets \in Nat /\ octets <= limit
      /\ place = 0 => octets = 0 /\ limit = Octets
      /\ OctetsOf(lines[line]) <= Octets => limit = Octets /\ octets = OctetsTo(lines[line], place)
  BY <1>1 DEF FoldInv, OctetsCounted
<1>6. used \in Nat /\ used <= Octets
  BY <1>5
<1>7. Heard(client, invitation, line, place, used) /\ client.octets <= Octets
  <2>1. OnceHanded(client, wire) = client
    BY <1>1, EmptySeq DEF OnceHanded
  <2>. QED
    BY <2>1 DEF FoldInv, AllFit
<1>. DEFINE e == Escape(Entries(invitation)[line].text)
            name == Entries(invitation)[line].name
<1>8. /\ name \in IcsNames /\ lines[line][1] = name
      /\ Len(lines[line]) = Len(e) + 1 /\ Len(e) \in Nat
      /\ \A p \in 1..Len(e) : lines[line][p + 1] \in Char
  <2>. DEFINE s == Lines(invitation)[line]
  <2>0. invitation \in Invitation
    BY <1>2
  <2>1. /\ name \in IcsNames /\ s[1] = name /\ Len(s) = Len(e) + 1 /\ Len(e) \in Nat
        /\ \A p \in 1..Len(e) : s[p + 1] = e[p] /\ e[p] \in Char
    <3>1. name \in IcsNames /\ s[1] = name
      BY <2>0, <1>3, LinesAre
    <3>2. Len(s) = Len(e) + 1 /\ Len(e) \in Nat
      BY <2>0, <1>3, LinesAre
    <3>3. \A p \in 1..Len(e) : s[p + 1] = e[p] /\ e[p] \in Char /\ e[p] \notin {"CR", "LF"}
      BY <2>0, <1>3, LinesAre
    <3>. QED
      BY <3>1, <3>2, <3>3
  <2>2. lines[line] = s
    BY <1>2
  <2>. HIDE DEF s, e, name
  <2>. QED
    BY <2>1, <2>2
<1>. HIDE DEF e, name
<1>9. c \in IcsSymbol
  <2>1. CASE place = 0
    BY <1>8, <2>1 DEF IcsSymbol
  <2>2. CASE place # 0
    <3>1. place \in 1..Len(e)
      <4>1. place \in Nat /\ place < Len(e) + 1 /\ Len(e) \in Nat
        BY <1>1, <1>2, <1>8
      <4>. QED
        BY <2>2, <4>1
    <3>. QED
      BY <1>8, <3>1 DEF IcsSymbol
  <2>. QED
    BY <2>1, <2>2
<1>10. Len(lines[line]) \in Nat
  BY <1>8
<1>11. LinePlaced'
  <2>1. place' \in Nat /\ place' <= Len(lines[line])
    BY <1>1, <1>2, <1>10
  <2>. QED
    BY <1>1, <1>2, <1>3, <2>1 DEF LinePlaced
<1>12. CASE ~folds
  <2>. DEFINE h == Handed(client, c)
  <2>1. octets + Width(c) <= limit
    <3>1. ASSUME octets + Width(c) > limit PROVE FALSE
      <4>1. OctetsOf(lines[line]) = OctetsTo(lines[line], Len(lines[line]))
        BY OctetsToIsAll
      <4>2. OctetsTo(lines[line], Len(lines[line])) \in Nat
        BY <1>10, OctetGridIsFinite
      <4>3. limit = Octets /\ octets = OctetsTo(lines[line], place)
        BY <1>5, <1>12, <3>1, <4>1, <4>2
      <4>4. OctetsTo(lines[line], place + 1) = octets + Width(c)
        BY <1>2, <4>3, OctetsToGrow
      <4>5. place + 1 \in Nat /\ place + 1 <= Len(lines[line])
        BY <1>1, <1>2, <1>10
      <4>6. OctetsTo(lines[line], place + 1) <= OctetsTo(lines[line], Len(lines[line]))
        BY <1>10, <4>5, OctetsToIsWithin
      <4>7. OctetsOf(lines[line]) <= Octets
        BY <1>12, <3>1, <4>1, <4>2
      <4>. QED
        BY <1>4, <1>5, <3>1, <4>1, <4>2, <4>3, <4>4, <4>6, <4>7
    <3>. QED
      BY <1>4, <1>5, <3>1
  <2>2. Heard(h, invitation, line, place + 1, used + Width(c))
    <3>1. CASE place = 0
      <4>1. c = Entries(invitation)[line].name /\ place + 1 = 1
        BY <1>8, <3>1 DEF name
      <4>2. used = 0
        BY <1>5, <3>1
      <4>3. Heard(h, invitation, line, 1, Width(Entries(invitation)[line].name))
        <5>1. h = Handed(client, Entries(invitation)[line].name)
          BY <4>1
        <5>2. Heard(client, invitation, line, 0, used)
          BY <1>7, <3>1
        <5>. HIDE DEF h, used
        <5>. QED
          BY <1>2, <1>3, <5>1, <5>2, HeardName
      <4>4. used + Width(c) = Width(c)
        BY <1>4, <4>2
      <4>. QED
        BY <4>1, <4>3, <4>4
    <3>2. CASE place # 0
      <4>1. place > 0
        BY <1>2, <3>2
      <4>. HIDE DEF used
      <4>2. Heard(h, invitation, line, place + 1, used + Width(c))
        BY <1>1, <1>2, <1>3, <1>7, <4>1, HeardText
      <4>. QED
        BY <4>2
    <3>. QED
      BY <3>1, <3>2
  <2>3. h.octets = used + Width(c)
    <3>1. place + 1 > 0
      BY <1>2
    <3>. HIDE DEF h, used
    <3>. QED
      BY <2>2, <3>1 DEF Heard, InText
  <2>4. wire' = <<c>> /\ octets' = octets + Width(c) /\ limit' = limit
    BY <1>1, <1>12
  <2>5. wire' \in Seq(IcsSymbol) /\ Len(wire') = 1 /\ wire'[1] = c
    BY <1>9, <2>4
  <2>6. used + Width(c) <= Octets /\ octets' + (Octets - limit') = used + Width(c)
    BY <1>4, <1>5, <2>1, <2>4
  <2>. HIDE DEF h, c, used
  <2>7. Hand1(client', wire') = h
    BY <1>1, <2>5 DEF Hand1, h
  <2>8. OnceHanded(client', wire') = h
    BY <2>5, <2>7 DEF OnceHanded
  <2>9. AllFit(client', wire')
    BY <1>1, <1>7, <2>3, <2>5, <2>6, <2>7 DEF AllFit
  <2>10. OctetsCounted'
    <3>1. OctetsTo(lines[line], place + 1) = OctetsTo(lines[line], place) + Width(c)
      BY <1>2, OctetsToGrow DEF c
    <3>2. place' # 0
      BY <1>1, <1>2
    <3>3. OctetsOf(lines[line]) <= Octets =>
              limit' = Octets /\ octets' = OctetsTo(lines[line], place + 1)
      BY <1>5, <2>4, <3>1
    <3>4. limit' \in {Octets, Octets - 1} /\ octets' \in Nat /\ octets' <= limit'
      BY <1>4, <1>5, <2>1, <2>4
    <3>. QED
      BY <1>1, <3>2, <3>3, <3>4 DEF OctetsCounted
  <2>11. Heard(OnceHanded(client', wire'), invitation', line', place', octets' + (Octets - limit'))
    BY <1>1, <2>2, <2>6, <2>8
  <2>. QED
    BY <1>11, <2>5, <2>9, <2>10, <2>11 DEF FoldInv
<1>13. CASE folds
  <2>. DEFINE a == Handed(client, "CR")
              b == Handed(a, "LF")
              d == Handed(b, "SP")
              h == Handed(d, c)
  <2>1. place > 0
    BY <1>2, <1>4, <1>5, <1>13
  <2>2. a.octets = used /\ b.octets = used /\ d.octets = 1 /\ Heard(d, invitation, line, place, 1)
    <3>. HIDE DEF used
    <3>1. GoneOver(a, b, d, invitation, line, place, used)
      BY <1>2, <1>3, <1>7, <2>1, HeardFold
    <3>. QED
      BY <3>1 DEF GoneOver
  <2>. HIDE DEF d
  <2>3. Heard(h, invitation, line, place + 1, 1 + Width(c))
    BY <1>1, <1>2, <1>3, <2>1, <2>2, HeardText
  <2>4. h.octets = 1 + Width(c)
    <3>1. place + 1 > 0
      BY <1>2
    <3>. HIDE DEF h
    <3>. QED
      BY <2>3, <3>1 DEF Heard, InText
  <2>5. wire' = EndOfLine \o <<"SP", c>> /\ octets' = Width(c) /\ limit' = Octets - 1
    BY <1>1, <1>13
  <2>6. /\ wire' \in Seq(IcsSymbol) /\ Len(wire') = 4
        /\ wire'[1] = "CR" /\ wire'[2] = "LF" /\ wire'[3] = "SP" /\ wire'[4] = c
    <3>. HIDE DEF c
    <3>1. "CR" \in IcsSymbol /\ "LF" \in IcsSymbol /\ "SP" \in IcsSymbol
      BY CharsAre DEF IcsSymbol
    <3>2. IsFour(IcsSymbol, <<"CR", "LF">> \o <<"SP", c>>, "CR", "LF", "SP", c)
      BY <1>9, <3>1, FourIs
    <3>. QED
      BY <2>5, <3>2 DEF IsFour, EndOfLine
  <2>. HIDE DEF a, b, h, used
  <2>7. Hand1(client', wire') = a /\ Hand2(client', wire') = b /\ Hand3(client', wire') = d
        /\ Hand4(client', wire') = h
    BY <1>1, <2>6 DEF Hand1, Hand2, Hand3, Hand4, a, b, d, h
  <2>8. OnceHanded(client', wire') = h
    BY <2>6, <2>7 DEF OnceHanded
  <2>. HIDE DEF c
  <2>9. AllFit(client', wire')
    BY <1>1, <1>4, <1>6, <1>7, <2>2, <2>4, <2>6, <2>7 DEF AllFit
  <2>10. OctetsCounted'
    <3>1. ~(OctetsOf(lines[line]) <= Octets)
      <4>1. OctetsOf(lines[line]) \in Nat
        BY <1>10, OctetsToIsAll, OctetGridIsFinite
      <4>. QED
        BY <1>13, <4>1
    <3>. QED
      BY <1>1, <1>2, <1>4, <2>5, <3>1 DEF OctetsCounted
  <2>11. octets' + (Octets - limit') = 1 + Width(c)
    BY <1>4, <2>5
  <2>12. Heard(OnceHanded(client', wire'), invitation', line', place', octets' + (Octets - limit'))
    BY <1>1, <2>3, <2>8, <2>11
  <2>. QED
    BY <1>11, <2>6, <2>9, <2>10, <2>12 DEF FoldInv
<1>. QED
  BY <1>12, <1>13

LEMMA FoldKeeps == FoldInv /\ [IcsNext]_icsVars => FoldInv'
<1>1. ASSUME FoldInv, UNCHANGED icsVars PROVE FoldInv'
  BY <1>1 DEF icsVars, FoldInv, LinePlaced, OctetsCounted
<1>. QED
  BY <1>1, PutKeeps, EndLineKeeps, ReceiveKeeps DEF IcsNext

LEMMA FoldReadsBack == FoldInv => ClientReadsBack
<1>. SUFFICES ASSUME FoldInv PROVE ClientReadsBack
  OBVIOUS
<1>1. client.octets <= Octets
  BY DEF FoldInv, AllFit
<1>2. ASSUME line > Len(lines), wire = <<>>
      PROVE  /\ client.mode = "eol" /\ Len(client.found) = Len(Entries(invitation))
             /\ \A n \in 1..Len(client.found) : Taken(client, invitation, n)
  <2>1. OnceHanded(client, wire) = client
    BY <1>2, EmptySeq DEF OnceHanded
  <2>2. /\ invitation \in Invitation /\ lines = Lines(invitation) /\ line \in 1..(Len(lines) + 1)
        /\ place = 0
    BY <1>2 DEF FoldInv, LinePlaced
  <2>3. Len(lines) = Len(Entries(invitation)) /\ Len(lines) \in Nat
    BY <2>2, LinesCount
  <2>4. line - 1 = Len(Entries(invitation))
    BY <1>2, <2>2, <2>3
  <2>5. Heard(client, invitation, line, 0, octets + (Octets - limit))
    BY <2>1, <2>2 DEF FoldInv
  <2>. QED
    BY <2>4, <2>5 DEF Heard
<1>. QED
  BY <1>1, <1>2 DEF ClientReadsBack, Taken

\* Whatever the event, and wherever its lines are folded, a calendar client that
\* reads the object as the standard says never meets a line too long, and has
\* every property with the text that was put in (build_ics, _fold, _escape).
THEOREM InvitationsReadBack == IcsSpec => []ClientReadsBack
<1>. QED
  BY FoldStarts, FoldKeeps, FoldReadsBack, PTL DEF IcsSpec

===============================================================================
