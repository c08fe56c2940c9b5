------------------------------- MODULE TaskBoard -------------------------------
(***************************************************************************)
(* The tasks of one workspace and who they are given to: the routes a      *)
(* person drives, the bulk create that an approved action calls, and the   *)
(* members who come and go meanwhile.  A request is a series of statements *)
(* with others in between; nothing but the service keeps an assignee       *)
(* within the workspace (SPEC-v2 D3).                                      *)
(***************************************************************************)
EXTENDS Naturals, Sequences, FiniteSets

CONSTANTS
    Person,      \* users
    Nobody,      \* assigned_to is NULL
    Keep,        \* a PATCH that names no assignee
    Task,        \* ids of tasks
    NoTask,
    Desk,        \* requests and proposals that may be in hand
    MaxSpecs     \* MAX_TASKS_PER_ACTION

ASSUME TaskAssumption ==
    /\ {Nobody, Keep} \cap Person = {} /\ Nobody # Keep
    /\ NoTask \notin Task
    /\ MaxSpecs \in Nat

VARIABLES
    members,     \* workspace_members
    tasks,       \* the task table, with the ids still free and those gone
    req,         \* what each desk is busy with
    met          \* history: who has been a member while the request ran

taskVars == <<members, tasks, req, met>>

\* A row by its assignee; the fields that say nothing of people are left out.
Gone == [who |-> Nobody, status |-> "gone"]
NoRow == [who |-> Nobody, status |-> "free"]

Among(s) == {s[i] : i \in DOMAIN s}
Named(s) == Among(s) \cap Person
\* A request: the assignees it names, those still to be looked up, and for a
\* PATCH the task and the assignee that was read.
Request(at, op, people, t) ==
    [at |-> at, op |-> op, people |-> people, left |-> Named(people), task |-> t,
     seen |-> IF t \in Task THEN tasks[t].who ELSE Nobody]

Idle == [at |-> "idle", op |-> "none", people |-> <<>>, left |-> {},
         task |-> NoTask, seen |-> Nobody]

Specs == UNION {[1..n -> Person \cup {Nobody}] : n \in 1..MaxSpecs}

\* A request begins, and from then on it is noted who is a member; it ends.
Begins(d, r) ==
    /\ req' = [req EXCEPT ![d] = r]
    /\ met' = [met EXCEPT ![d] = members]
    /\ UNCHANGED <<members, tasks>>

Finishes(d) ==
    /\ req' = [req EXCEPT ![d] = Idle]
    /\ met' = [met EXCEPT ![d] = {}]

-------------------------------------------------------------------------------

Join(p) ==
    /\ p \notin members
    /\ members' = members \cup {p}
    /\ met' = [d \in Desk |-> IF req[d].at = "check" THEN met[d] \cup {p} ELSE met[d]]
    /\ UNCHANGED <<tasks, req>>

\* remove_member: the assignments stay as they are.
Leave(p) ==
    /\ p \in members
    /\ members' = members \ {p}
    /\ UNCHANGED <<tasks, req, met>>

-------------------------------------------------------------------------------
(* Requests and proposals, up to the write.                                  *)

\* POST /tasks, with or without an assignee.
AskTask(d, p) ==
    /\ req[d].at = "idle"
    /\ Begins(d, Request("check", "create", <<p>>, NoTask))

\* PATCH and DELETE read the task first: get_task answers 404 without one.  A
\* PATCH looks its assignee up if it names one.
AskPatch(d, t, p) ==
    /\ req[d].at = "idle" /\ tasks[t].status = "live"
    /\ Begins(d, Request("check", "patch", <<p>>, t))

AskDelete(d, t) ==
    /\ req[d].at = "idle" /\ tasks[t].status = "live"
    /\ Begins(d, Request("check", "delete", <<>>, t))

\* The agent proposes tasks: the people it names are members now.
Propose(d, people) ==
    /\ req[d].at = "idle"
    /\ Named(people) \subseteq members
    /\ req' = [req EXCEPT ![d] = Request("proposed", "create", people, NoTask)]
    /\ UNCHANGED <<members, tasks, met>>

\* A mistake the code could have made in the definition below: to take the
\* people of the proposal as checked.
ApprovedUnchecked(d) ==
    /\ req[d].at = "proposed"
    /\ Begins(d, [req[d] EXCEPT !.at = "check", !.left = {}])

\* _execute_create_tasks and create_many: every assignee is looked up again.
Approved(d) ==
    /\ req[d].at = "proposed"
    /\ Begins(d, [req[d] EXCEPT !.at = "check", !.left = Named(req[d].people)])

\* _assert_is_member, one statement for each person, in whatever order.
LookUp(d, p) ==
    /\ req[d].at = "check" /\ p \in req[d].left
    /\ IF p \in members
       THEN /\ req' = [req EXCEPT ![d].left = @ \ {p}]
            /\ UNCHANGED met
       ELSE Finishes(d)
    /\ UNCHANGED <<members, tasks>>

\* Any request is refused for another reason, fails or dies before its commit,
\* and a proposal is rejected or expires.
Dies(d) ==
    /\ req[d].at # "idle"
    /\ Finishes(d)
    /\ UNCHANGED <<members, tasks>>

-------------------------------------------------------------------------------
(* The writes.                                                               *)

Writes(d, op) == req[d].at = "check" /\ req[d].op = op /\ req[d].left = {}

Stored(d, new) ==
    /\ tasks' = new
    /\ Finishes(d)
    /\ UNCHANGED members

\* create_task, and create_many with a row for each of its specs.
Places(n) == {ids \in [1..n -> {t \in Task : tasks[t].status = "free"}] :
                 \A i, j \in 1..n : ids[i] = ids[j] => i = j}

Insert(d) ==
    /\ Writes(d, "create")
    /\ LET people == req[d].people IN
       \E ids \in Places(Len(people)) :
           Stored(d, [t \in Task |->
               IF t \in Among(ids)
               THEN [who |-> people[CHOOSE i \in DOMAIN ids : ids[i] = t], status |-> "live"]
               ELSE tasks[t]])

\* A mistake the code could have made in the definition below: to write the row
\* back as it was read, with the named fields changed.
WholeRow(now, read, named) == IF named = Keep THEN read ELSE named

\* What an UPDATE leaves in a field: the unit of work writes what the request
\* names and what differs from the row it had read.
Field(now, read, named) == IF named \in {Keep, read} THEN now ELSE named

\* update_task's commit.  If the row is gone by then, the update finds none and
\* the request fails.
Update(d) ==
    LET t == req[d].task IN
    /\ Writes(d, "patch")
    /\ Stored(d, IF tasks[t].status = "live"
                 THEN [tasks EXCEPT ![t].who = Field(@, req[d].seen, req[d].people[1])]
                 ELSE tasks)

Delete(d) ==
    /\ Writes(d, "delete")
    /\ Stored(d, [tasks EXCEPT ![req[d].task] = Gone])

-------------------------------------------------------------------------------

TaskInit ==
    /\ members = Person
    /\ tasks = [t \in Task |-> NoRow]
    /\ req = [d \in Desk |-> Idle]
    /\ met = [d \in Desk |-> {}]

TaskNext ==
    \/ \E p \in Person : Join(p) \/ Leave(p)
    \/ \E d \in Desk :
        \/ \E p \in Person \cup {Nobody} : AskTask(d, p)
        \/ \E p \in Person : LookUp(d, p)
        \/ \E t \in Task :
            \/ \E p \in Person \cup {Nobody, Keep} : AskPatch(d, t, p)
            \/ AskDelete(d, t)
        \/ \E people \in Specs : Propose(d, people)
        \/ Approved(d) \/ Dies(d)
        \/ Insert(d) \/ Update(d) \/ Delete(d)

TaskSpec == TaskInit /\ [][TaskNext]_taskVars

-------------------------------------------------------------------------------

\* Whoever is given a task has been a member at some moment of the request that
\* gives it: not only when an action was proposed, and not as a leftover of the
\* row that a PATCH has read.
GivenTo(t, p) == tasks[t].status = "live" /\ tasks[t].who = p

GivenToMembers ==
    [][\A t \in Task, p \in Person :
          GivenTo(t, p)' /\ ~GivenTo(t, p) =>
              \E d \in Desk : req[d].at = "check" /\ req'[d].at = "idle" /\ p \in met[d]
      ]_taskVars
================================================================================
