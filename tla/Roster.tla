-------------------------------- MODULE Roster --------------------------------
(***************************************************************************)
(* What a workspace promises of its members and its invites: offers are    *)
(* settled once, nobody joins but by settling an offer made to them, and   *)
(* somebody can always manage the workspace.                               *)
(***************************************************************************)
CONSTANTS User, Founder, Invite

VARIABLES role, offer, to, grant

roster == <<role, offer, to, grant>>

Roles == {"viewer", "member", "admin"}

Managed == \E u \in User : role[u] = "admin"

\* A new offer replaces the one its addressee may have had before.
Propose(i, u, r) ==
    /\ offer[i] = "absent"
    /\ to' = [to EXCEPT ![i] = u]
    /\ grant' = [grant EXCEPT ![i] = r]
    /\ offer' = [j \in Invite |-> IF j = i THEN "pending"
                                  ELSE IF offer[j] = "pending" /\ to[j] = u THEN "revoked"
                                  ELSE offer[j]]
    /\ UNCHANGED role

Admit(i) ==
    /\ offer[i] = "pending"
    /\ role[to[i]] = "none"
    /\ role' = [role EXCEPT ![to[i]] = grant[i]]
    /\ offer' = [offer EXCEPT ![i] = "accepted"]
    /\ UNCHANGED <<to, grant>>

\* Accepted by somebody who is a member already, or too late.
Settle(i) ==
    /\ offer[i] = "pending"
    /\ \E how \in {"accepted", "expired"} :
          /\ how = "accepted" => role[to[i]] # "none"
          /\ offer' = [offer EXCEPT ![i] = how]
    /\ UNCHANGED <<role, to, grant>>

\* A member is given another role, or leaves.
Change(u, r) ==
    /\ role[u] # "none"
    /\ role' = [role EXCEPT ![u] = r]
    /\ Managed'
    /\ UNCHANGED <<offer, to, grant>>

RosterInit ==
    /\ role = [u \in User |-> IF u = Founder THEN "admin" ELSE "none"]
    /\ offer = [i \in Invite |-> "absent"]

RosterNext ==
    \/ \E i \in Invite : Admit(i) \/ Settle(i)
    \/ \E i \in Invite, u \in User, r \in Roles : Propose(i, u, r)
    \/ \E u \in User, r \in Roles \cup {"none"} : Change(u, r)

Spec == RosterInit /\ [][RosterNext]_roster

===============================================================================
