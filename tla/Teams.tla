------------------------------- MODULE Teams -------------------------------
(***************************************************************************)
(* Team membership of the web service (web/team_handlers.go on top of        *)
(* web/teams.go and web/accounts.go).  A membership lives in two records,    *)
(* the team's member list and the user's team_id, each changed under its own *)
(* lock, one after the other.                                               *)
(*                                                                         *)
(* A request runs one handler from its session check to its answer; the      *)
(* handlers of different requests interleave between the records they load   *)
(* and store.  A restart of the server drops the requests in flight.        *)
(*                                                                         *)
(* contended is a history variable: the users two handlers worked on at the *)
(* same time, or whose handler a restart cut short.                         *)
(***************************************************************************)
EXTENDS Naturals, FiniteSets

CONSTANTS
  Users,       \* usernames
  Teams,       \* ids newID may draw
  Seats,       \* seat counts a creator may ask for (teamMinSeats to teamMaxSeats)
  Requests,    \* handlers that may be in flight at a time
  MaxRestarts, \* bound on restarts of the server
  NoTeam, NoUser

ASSUME TeamsAssumption ==
  /\ IsFiniteSet(Users)
  /\ Seats \subseteq Nat \ {0}
  /\ MaxRestarts \in Nat
  /\ NoTeam \notin Teams
  /\ NoUser \notin Users

VARIABLES
  exists,   \* teams whose file exists
  drawn,    \* ids drawn so far
  owner, members, seats,  \* the fields of Team
  teamID,   \* teamID[u]: the field TeamID of User
  req,      \* req[r]: the handler's pc, the team at hand, the user it moves
  restarts, \* restarts so far
  contended \* users whose handlers overlapped or were cut short

team == <<exists, drawn, owner, members, seats>>
vars == <<exists, drawn, owner, members, seats, teamID, req, restarts, contended>>

Handler(pc, t, who) == [pc |-> pc, t |-> t, who |-> who]
Idle == Handler("idle", NoTeam, NoUser)

TypeOK ==
  /\ exists \subseteq drawn
  /\ drawn \subseteq Teams
  /\ owner \in [Teams -> Users \cup {NoUser}]
  /\ members \in [Teams -> SUBSET Users]
  /\ seats \in [Teams -> Seats \cup {0}]
  /\ teamID \in [Users -> Teams \cup {NoTeam}]
  /\ req \in [Requests -> [pc : {"idle", "create", "linkowner", "undocreate",
                                 "reserve", "linkmember", "unreserve", "drop", "unlink"},
                           t : Teams \cup {NoTeam}, who : Users \cup {NoUser}]]
  /\ restarts \in 0..MaxRestarts
  /\ contended \subseteq Users

Init ==
  /\ exists = {}
  /\ drawn = {}
  /\ owner = [t \in Teams |-> NoUser]
  /\ members = [t \in Teams |-> {}]
  /\ seats = [t \in Teams |-> 0]
  /\ teamID = [u \in Users |-> NoTeam]
  /\ req = [r \in Requests |-> Idle]
  /\ restarts = 0
  /\ contended = {}

At(r, pc) == req[r].pc = pc
InFlight(u) == \E r \in Requests : req[r].who = u
Accept(r, pc, t, u) ==
  /\ At(r, "idle")
  /\ req' = [req EXCEPT ![r] = Handler(pc, t, u)]
  /\ contended' = IF InFlight(u) THEN contended \cup {u} ELSE contended
Goto(r, pc) == req' = [req EXCEPT ![r] = Handler(pc, req[r].t, req[r].who)]
Answer(r) == req' = [req EXCEPT ![r] = Idle]

\* currentTeam: the caller's team record, if the user has one and it loads.
OnTeam(u) == teamID[u] \in exists

-----------------------------------------------------------------------------
(* POST /api/team/create *)

\* The caller is on no team.
CreateCheck(r, u) ==
  /\ ~OnTeam(u)
  /\ Accept(r, "create", NoTeam, u)
  /\ UNCHANGED <<team, teamID, restarts>>

\* teamStore.create saves a record under a fresh id.
CreateTeam(r, t, n) ==
  /\ At(r, "create")
  /\ t \notin drawn
  /\ drawn' = drawn \cup {t}
  /\ exists' = exists \cup {t}
  /\ owner' = [owner EXCEPT ![t] = req[r].who]
  /\ members' = [members EXCEPT ![t] = {req[r].who}]
  /\ seats' = [seats EXCEPT ![t] = n]
  /\ req' = [req EXCEPT ![r] = Handler("linkowner", t, req[r].who)]
  /\ UNCHANGED <<teamID, restarts, contended>>

\* The seat count is out of range, or the record cannot be saved.
CreateFails(r) ==
  /\ At(r, "create")
  /\ Answer(r)
  /\ UNCHANGED <<team, teamID, restarts, contended>>

\* MUTANT of LinkOwner: the link is saved before its error is looked at.
LinkOwnerFirst(r) ==
  /\ At(r, "linkowner")
  /\ teamID' = [teamID EXCEPT ![req[r].who] = req[r].t]
  /\ IF teamID[req[r].who] = NoTeam THEN Answer(r) ELSE Goto(r, "undocreate")
  /\ UNCHANGED <<team, restarts, contended>>

\* accounts.update of the caller, who may have joined a team meanwhile.
LinkOwner(r) ==
  /\ At(r, "linkowner")
  /\ IF teamID[req[r].who] = NoTeam
       THEN /\ teamID' = [teamID EXCEPT ![req[r].who] = req[r].t]
            /\ Answer(r)
       ELSE /\ Goto(r, "undocreate")
            /\ UNCHANGED teamID
  /\ UNCHANGED <<team, restarts, contended>>

\* teams.delete of the record just created.
UndoCreate(r) ==
  /\ At(r, "undocreate")
  /\ exists' = exists \ {req[r].t}
  /\ Answer(r)
  /\ UNCHANGED <<drawn, owner, members, seats, teamID, restarts, contended>>

-----------------------------------------------------------------------------
(* POST /api/team/invite *)

\* The caller owns a team; the target's account loads.
InviteCheck(r, u, x) ==
  /\ OnTeam(u)
  /\ owner[teamID[u]] = u
  /\ Accept(r, "reserve", teamID[u], x)
  /\ UNCHANGED <<team, teamID, restarts>>

\* MUTANT of Reserve: the seat count is compared off by one.
ReserveOneOver(r) ==
  LET t == req[r].t
      x == req[r].who
  IN
  /\ At(r, "reserve")
  /\ IF x \in members[t] \/ Cardinality(members[t]) <= seats[t]
       THEN /\ members' = [members EXCEPT ![t] = @ \cup {x}]
            /\ Goto(r, "linkmember")
       ELSE /\ Answer(r)
            /\ UNCHANGED members
  /\ UNCHANGED <<exists, drawn, owner, seats, teamID, restarts, contended>>

\* teams.update: take a seat, unless the target has one or none is left.
Reserve(r) ==
  LET t == req[r].t
      x == req[r].who
  IN
  /\ At(r, "reserve")
  /\ IF x \in members[t] \/ Cardinality(members[t]) < seats[t]
       THEN /\ members' = [members EXCEPT ![t] = @ \cup {x}]
            /\ Goto(r, "linkmember")
       ELSE /\ Answer(r)
            /\ UNCHANGED members
  /\ UNCHANGED <<exists, drawn, owner, seats, teamID, restarts, contended>>

\* MUTANT of LinkMember: the seat is kept when the target cannot be linked.
LinkMemberKeepsSeat(r) ==
  LET t == req[r].t
      x == req[r].who
  IN
  /\ At(r, "linkmember")
  /\ teamID' = [teamID EXCEPT ![x] = IF @ = NoTeam THEN t ELSE @]
  /\ Answer(r)
  /\ UNCHANGED <<team, restarts, contended>>

\* accounts.update of the target, who may belong to another team.
LinkMember(r) ==
  LET t == req[r].t
      x == req[r].who
  IN
  /\ At(r, "linkmember")
  /\ IF teamID[x] \in {NoTeam, t}
       THEN /\ teamID' = [teamID EXCEPT ![x] = t]
            /\ Answer(r)
       ELSE /\ Goto(r, "unreserve")
            /\ UNCHANGED teamID
  /\ UNCHANGED <<team, restarts, contended>>

\* teams.update gives the seat back.
Unreserve(r) ==
  /\ At(r, "unreserve")
  /\ members' = [members EXCEPT ![req[r].t] = @ \ {req[r].who}]
  /\ Answer(r)
  /\ UNCHANGED <<exists, drawn, owner, seats, teamID, restarts, contended>>

-----------------------------------------------------------------------------
(* POST /api/team/remove and /api/team/leave *)

\* The caller owns the team and the target is another member of it.
RemoveCheck(r, u, x) ==
  /\ OnTeam(u)
  /\ owner[teamID[u]] = u
  /\ x # u
  /\ x \in members[teamID[u]]
  /\ Accept(r, "drop", teamID[u], x)
  /\ UNCHANGED <<team, teamID, restarts>>

\* MUTANT of LeaveCheck: the owner may leave too.
LeaveAnyone(r, u) ==
  /\ OnTeam(u)
  /\ Accept(r, "drop", teamID[u], u)
  /\ UNCHANGED <<team, teamID, restarts>>

\* The caller is on a team of another owner.
LeaveCheck(r, u) ==
  /\ OnTeam(u)
  /\ owner[teamID[u]] # u
  /\ Accept(r, "drop", teamID[u], u)
  /\ UNCHANGED <<team, teamID, restarts>>

\* teams.update: removeMember.
Drop(r) ==
  /\ At(r, "drop")
  /\ members' = [members EXCEPT ![req[r].t] = @ \ {req[r].who}]
  /\ Goto(r, "unlink")
  /\ UNCHANGED <<exists, drawn, owner, seats, teamID, restarts, contended>>

\* accounts.update: the link is cleared if it is to this team.
Unlink(r) ==
  LET x == req[r].who IN
  /\ At(r, "unlink")
  /\ teamID' = [teamID EXCEPT ![x] = IF @ = req[r].t THEN NoTeam ELSE @]
  /\ Answer(r)
  /\ UNCHANGED <<team, restarts, contended>>

-----------------------------------------------------------------------------

\* The process ends and starts again; what is on disk stays.
Restart ==
  /\ restarts < MaxRestarts
  /\ restarts' = restarts + 1
  /\ contended' = contended \cup {u \in Users : InFlight(u)}
  /\ req' = [r \in Requests |-> Idle]
  /\ UNCHANGED <<team, teamID>>

Step(r) ==
  \/ \E u \in Users : CreateCheck(r, u) \/ LeaveCheck(r, u)
  \/ \E u, x \in Users : InviteCheck(r, u, x) \/ RemoveCheck(r, u, x)
  \/ \E t \in Teams, n \in Seats : CreateTeam(r, t, n)
  \/ CreateFails(r) \/ LinkOwner(r) \/ UndoCreate(r)
  \/ Reserve(r) \/ LinkMember(r) \/ Unreserve(r)
  \/ Drop(r) \/ Unlink(r)

Next == (\E r \in Requests : Step(r)) \/ Restart

Spec == Init /\ [][Next]_vars

-----------------------------------------------------------------------------

\* planForUser: the users the server puts on the Team plan through team t.
OnTeamPlan(t) == {u \in Users : teamID[u] = t /\ t \in exists}

\* However invitations and removals interleave, no team lists more members
\* than it has seats: the seat is taken and counted under one lock
\* (handleTeamInvite, teams.update).
SeatBound == \A t \in exists : Cardinality(members[t]) <= seats[t]

\* No user is left linked to a team whose file is gone, also when creation
\* is undone because the creator joined another team meanwhile: such a user
\* could neither leave nor create a team (handleTeamCreate).
NoDangling == \A u \in Users : teamID[u] = NoTeam \/ teamID[u] \in exists

\* A team is run by a member who is linked to it.  Only one whose creation
\* was not finished, or was cut short, has an unlinked owner, and then nobody
\* else has a seat on it or is linked to it (create, invite, remove, leave).
OwnerSeated ==
  \A t \in exists :
    /\ owner[t] \in members[t]
    /\ \/ teamID[owner[t]] = t
       \/ members[t] = {owner[t]} /\ OnTeamPlan(t) = {}

\* The two records agree on every user whose handlers never overlapped and
\* never were cut short: the teams that list the user are the one the user is
\* linked to.  Every early return of the four handlers keeps this.
RecordsAgree ==
  \A u \in Users \ contended :
    InFlight(u) \/ \A t \in exists : u \in members[t] <=> teamID[u] = t

-----------------------------------------------------------------------------
(* The inductive invariant behind the four. *)

\* A team that is being created is known to its creator's request only, which
\* may still delete it.
Private(r) ==
  LET t == req[r].t IN
  At(r, "linkowner") \/ At(r, "undocreate") =>
    /\ t \in exists
    /\ owner[t] = req[r].who
    /\ members[t] = {req[r].who}
    /\ \A u \in Users : teamID[u] # t
    /\ \A q \in Requests : req[q].t = t => q = r

\* The team at hand of every other request is there to stay, and its owner is
\* linked to it; the owner is not the one who loses a seat.
InUse(r) ==
  LET t == req[r].t IN
  ~At(r, "idle") /\ ~At(r, "create") /\ ~At(r, "linkowner") /\ ~At(r, "undocreate") =>
    /\ t \in exists
    /\ teamID[owner[t]] = t
    /\ At(r, "unreserve") \/ At(r, "drop") \/ At(r, "unlink") => req[r].who # owner[t]

\* A request that is over, or has no team yet, holds none.
NoneAtHand(r) ==
  /\ At(r, "idle") => req[r] = Idle
  /\ At(r, "create") => req[r].t = NoTeam
  /\ ~At(r, "idle") => req[r].who \in Users
  /\ req[r].t \in drawn \cup {NoTeam}

\* No other request works on r's user.
Alone(r) == \A q \in Requests : req[q].who = req[r].who => q = r

\* A user one request works on has records that agree, except on the team at
\* hand between the two updates, where the request knows which comes first.
Midway(r) ==
  LET t == req[r].t
      u == req[r].who
  IN
  ~At(r, "idle") /\ u \notin contended =>
    /\ Alone(r)
    /\ \A s \in exists \ {t} : u \in members[s] <=> teamID[u] = s
    /\ At(r, "reserve") \/ At(r, "drop") => (u \in members[t] <=> teamID[u] = t)
    /\ At(r, "linkmember") => u \in members[t]
    /\ At(r, "unreserve") => teamID[u] # t
    /\ At(r, "unlink") => u \notin members[t]

IInv ==
  /\ TypeOK
  /\ SeatBound /\ NoDangling /\ OwnerSeated /\ RecordsAgree
  /\ \A r \in Requests : Private(r) /\ InUse(r) /\ NoneAtHand(r) /\ Midway(r)

=============================================================================
