--------------------------------- MODULE Diary ---------------------------------
(***************************************************************************)
(* The calendar events of one workspace and their invitations: the route a *)
(* person drives, which mails nobody, the approved action that mails its   *)
(* guests before it commits, and the file that is built again whenever     *)
(* somebody downloads it.  What an approved event invites was resolved     *)
(* when it was proposed; the decision itself is ApprovalGate's.            *)
(***************************************************************************)
EXTENDS Naturals, Sequences, FiniteSets

CONSTANTS
    Guest,       \* users; a reference resolves to one of them if a member
    Meeting,     \* ids of calendar events, and their ics_uid
    NoMeeting,
    Host,        \* requests and proposals that may be in hand
    MaxGuests,   \* MAX_EVENT_GUESTS
    Deployment   \* the settings a deployment may have

Settings == [production : BOOLEAN, provider : {"console", "resend", "brevo"},
             keys : SUBSET {"resend", "brevo"}, calendar : {"ics", "google"}]

ASSUME DiaryAssumption ==
    /\ NoMeeting \notin Meeting
    /\ MaxGuests \in Nat
    /\ Deployment \subseteq Settings

VARIABLES
    settings,    \* the deployment's
    present,     \* workspace_members
    diary,       \* calendar_events; "held" is a row nobody has committed
    plan,        \* what each host is busy with
    handed,      \* invitations that were mailed or downloaded
    delivered    \* events whose invitation a mail provider has accepted

diaryVars == <<settings, present, diary, plan, handed, delivered>>

Booking == [guests : SUBSET Guest, status : {"free", "held", "booked"}, approved : BOOLEAN]

NoPlan == [at |-> "none", guests |-> {}, left |-> {}, meeting |-> NoMeeting]

Moves(h, from, to) == plan[h].at = from /\ plan' = [plan EXCEPT ![h].at = to]
Over(h) == plan' = [plan EXCEPT ![h] = NoPlan]

Lists(S) == {guests \in SUBSET S : Cardinality(guests) <= MaxGuests}

\* The row of the event that h plans, under a new id.
Enters(h, m, status, approved) ==
    /\ diary[m].status = "free"
    /\ diary' = [diary EXCEPT ![m] =
           [guests |-> plan[h].guests, status |-> status, approved |-> approved]]

-------------------------------------------------------------------------------

\* Somebody accepts an invitation to the workspace; a member is removed.
Arrives(p) ==
    /\ p \notin present
    /\ present' = present \cup {p}
    /\ UNCHANGED <<settings, diary, plan, handed, delivered>>

Departs(p) ==
    /\ p \in present
    /\ present' = present \ {p}
    /\ UNCHANGED <<settings, diary, plan, handed, delivered>>

-------------------------------------------------------------------------------
(* POST /events.                                                             *)

AskEvent(h, guests) ==
    /\ plan[h].at = "none"
    /\ plan' = [plan EXCEPT ![h] = [NoPlan EXCEPT !.at = "resolve", !.guests = guests,
                                                  !.left = guests]]
    /\ UNCHANGED <<settings, present, diary, handed, delivered>>

\* resolve_guests: one statement for each, and a stranger refuses the whole.
Resolve(h, p) ==
    /\ plan[h].at = "resolve" /\ p \in plan[h].left
    /\ IF p \in present
       THEN plan' = [plan EXCEPT ![h].left = @ \ {p}]
       ELSE Over(h)
    /\ UNCHANGED <<settings, present, diary, handed, delivered>>

\* create_event and the commit: a row, and no mail.
InsertEvent(h) ==
    /\ plan[h].at = "resolve" /\ plan[h].left = {}
    /\ \E m \in Meeting : Enters(h, m, "booked", FALSE)
    /\ Over(h)
    /\ UNCHANGED <<settings, present, handed, delivered>>

\* Any of them is refused for another reason, fails or dies; a proposal is
\* rejected or expires.  A row that was not committed is never seen again.
Fails(h) ==
    /\ plan[h].at # "none"
    /\ Over(h)
    /\ UNCHANGED <<settings, present, diary, handed, delivered>>

-------------------------------------------------------------------------------
(* An approved event, and the mail that carries it.                          *)

\* The agent proposes an event: the guests it names are members now.
ProposeEvent(h, guests) ==
    /\ plan[h].at = "none"
    /\ guests \subseteq present
    /\ plan' = [plan EXCEPT ![h] = [NoPlan EXCEPT !.at = "proposed", !.guests = guests]]
    /\ UNCHANGED <<settings, present, diary, handed, delivered>>

\* _missing_api_key, undeliverable_reason and delivery_blocked.
MissingKey == settings.provider # "console" /\ settings.provider \notin settings.keys
Undeliverable == settings.provider = "console" \/ MissingKey

\* A mistake the code could have made in the definition below: the console
\* counts as a provider that is configured.
BlockedWithoutKey == settings.production /\ MissingKey

DeliveryBlocked == settings.production /\ Undeliverable

\* _execute_create_event: nothing is inserted if the guests could not be told,
\* and an event without guests needs no mail.  They are not resolved again.
HoldEvent(h) ==
    /\ plan[h].at = "proposed"
    /\ plan[h].guests = {} \/ ~DeliveryBlocked
    /\ \E m \in Meeting :
        /\ Enters(h, m, "held", TRUE)
        /\ plan' = [plan EXCEPT ![h].at = "publish", ![h].meeting = m]
    /\ UNCHANGED <<settings, present, handed, delivered>>

\* publish: the provider that ships does nothing, Google's can only refuse.
Publish(h) ==
    /\ settings.calendar = "ics"
    /\ Moves(h, "publish", IF plan[h].guests = {} THEN "commit" ELSE "mail")
    /\ UNCHANGED <<settings, present, diary, handed, delivered>>

\* A mistake the code could have made in the definition below: the guests who
\* are members today instead of those of the snapshot.
GuestsToday(m) == diary[m].guests \cap present

GuestsOf(m) == diary[m].guests

HandsOver(m) == handed' = handed \cup {[meeting |-> m, guests |-> GuestsOf(m)]}

\* send: the console keeps the message.  Without its key a provider is not
\* called; it may also be out of reach or refuse, which is Fails.
MailConsole(h) ==
    /\ settings.provider = "console"
    /\ Moves(h, "mail", "commit")
    /\ HandsOver(plan[h].meeting)
    /\ UNCHANGED <<settings, present, diary, delivered>>

\* A provider takes the message, and its answer arrives or is lost.
MailProvider(h) ==
    /\ settings.provider # "console" /\ ~MissingKey
    /\ plan[h].at = "mail"
    /\ Moves(h, "mail", "commit") \/ Over(h)
    /\ HandsOver(plan[h].meeting)
    /\ delivered' = delivered \cup {plan[h].meeting}
    /\ UNCHANGED <<settings, present, diary>>

\* The event is committed together with its audit entry and its outcome.
CommitEvent(h) ==
    /\ plan[h].at = "commit"
    /\ diary' = [diary EXCEPT ![plan[h].meeting].status = "booked"]
    /\ Over(h)
    /\ UNCHANGED <<settings, present, handed, delivered>>

\* GET /events/{id}/ics: the invitation is built again.
Download(m) ==
    /\ diary[m].status = "booked"
    /\ HandsOver(m)
    /\ UNCHANGED <<settings, present, diary, plan, delivered>>

-------------------------------------------------------------------------------

DiaryInit ==
    /\ settings \in Deployment
    /\ present = Guest
    /\ diary = [m \in Meeting |-> [guests |-> {}, status |-> "free", approved |-> FALSE]]
    /\ plan = [h \in Host |-> NoPlan]
    /\ handed = {}
    /\ delivered = {}

DiaryNext ==
    \/ \E p \in Guest : Arrives(p) \/ Departs(p)
    \/ \E h \in Host :
        \/ \E guests \in Lists(Guest) : AskEvent(h, guests) \/ ProposeEvent(h, guests)
        \/ \E p \in Guest : Resolve(h, p)
        \/ InsertEvent(h) \/ HoldEvent(h) \/ Publish(h)
        \/ MailConsole(h) \/ MailProvider(h) \/ CommitEvent(h) \/ Fails(h)
    \/ \E m \in Meeting : Download(m)

DiarySpec == DiaryInit /\ [][DiaryNext]_diaryVars

-------------------------------------------------------------------------------

\* An event has one invitation: what was mailed for it and every file that was
\* ever downloaded name the same guests, whoever has left or joined since.
SameInvitation ==
    \A i, j \in handed : i.meeting = j.meeting => i.guests = j.guests

\* In production no approved event with guests is on record unless a real
\* provider has taken its invitation.
GuestsAreTold ==
    settings.production =>
        \A m \in Meeting :
            diary[m].status = "booked" /\ diary[m].approved /\ diary[m].guests # {} =>
                m \in delivered
===============================================================================
