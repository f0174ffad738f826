---------------------------- MODULE TeamsProofs ----------------------------
(***************************************************************************)
(* Theorems about Teams, for any users, teams and seat counts, any number of *)
(* requests in flight and of restarts.                                      *)
(***************************************************************************)
EXTENDS Teams, FiniteSetTheorems, TLAPS

LEMMA SeatCounts == \A n \in Seats \cup {0} : n \in Nat
  <1>1. \A n \in Seats : n \in Nat
    BY TeamsAssumption, Zenon DEF TeamsAssumption
  <1>2. QED
    BY <1>1

LEMMA TeamsInitial == Init => IInv
  <1> SUFFICES ASSUME Init PROVE IInv
    OBVIOUS
  <1> USE TeamsAssumption DEF TeamsAssumption, Init, Idle, Handler
  <1>1. TypeOK
    BY DEF TypeOK
  <1>2. SeatBound /\ NoDangling /\ OwnerSeated
    BY DEF SeatBound, NoDangling, OwnerSeated
  <1>3. RecordsAgree
    BY DEF RecordsAgree
  <1>4. ASSUME NEW r \in Requests
        PROVE  Private(r) /\ InUse(r) /\ NoneAtHand(r) /\ Midway(r)
    BY DEF Private, InUse, NoneAtHand, Midway, At
  <1>5. QED
    BY <1>1, <1>2, <1>3, <1>4 DEF IInv

\* A request that passes its check starts from records at rest, on a team
\* that is there to stay.
LEMMA Begin ==
  ASSUME IInv, NEW r \in Requests, NEW pc, NEW t, NEW u \in Users,
         Accept(r, pc, t, u), UNCHANGED <<team, teamID, restarts>>,
         \/ pc = "create" /\ t = NoTeam
         \/ /\ pc \in {"reserve", "drop"}
            /\ t \in exists
            /\ teamID[owner[t]] = t
            /\ pc = "drop" => u # owner[t]
  PROVE  IInv'
  <1> USE TeamsAssumption DEF TeamsAssumption, IInv, team
  <1>1. /\ req[r] = Idle
        /\ req' = [req EXCEPT ![r] = Handler(pc, t, u)]
        /\ contended \subseteq contended'
        /\ InFlight(u) => u \in contended'
    BY DEF Accept, NoneAtHand
  <1>2. TypeOK'
    BY <1>1 DEF TypeOK, Handler, Accept
  <1>3. SeatBound' /\ NoDangling' /\ OwnerSeated'
    BY DEF SeatBound, NoDangling, OwnerSeated, OnTeamPlan
  <1>4. RecordsAgree'
    <2> SUFFICES ASSUME NEW v \in Users \ contended', ~InFlight(v)', NEW s \in exists
                 PROVE  v \in members[s] <=> teamID[v] = s
      BY DEF RecordsAgree
    <2>1. ~InFlight(v)
      <3> SUFFICES ASSUME NEW q \in Requests, req[q].who = v PROVE FALSE
        BY DEF InFlight
      <3>1. q # r
        BY <1>1 DEF Idle, Handler
      <3>2. req'[q].who = v
        BY <1>1, <3>1 DEF TypeOK
      <3>3. QED
        BY <3>2 DEF InFlight
    <2>2. QED
      BY <1>1, <2>1 DEF RecordsAgree
  <1>5. ASSUME NEW q \in Requests PROVE Private(q)' /\ InUse(q)' /\ NoneAtHand(q)' /\ Midway(q)'
    <2>1. CASE q = r
      <3>1. req'[r] = [pc |-> pc, t |-> t, who |-> u]
        BY <1>1 DEF TypeOK, Handler
      <3>2. Private(q)' /\ InUse(q)' /\ NoneAtHand(q)'
        BY <2>1, <3>1 DEF Private, InUse, NoneAtHand, At, TypeOK
      <3>3. Midway(q)'
        <4> SUFFICES ASSUME u \notin contended' PROVE Midway(q)'
          BY <2>1, <3>1 DEF Midway
        <4>1. ~InFlight(u)
          BY <1>1
        <4>2. Alone(q)'
          BY <1>1, <2>1, <3>1, <4>1 DEF Alone, InFlight, TypeOK
        <4>3. \A s \in exists : u \in members[s] <=> teamID[u] = s
          BY <1>1, <4>1 DEF RecordsAgree
        <4>4. QED
          BY <2>1, <3>1, <4>2, <4>3 DEF Midway, At
      <3>4. QED
        BY <3>2, <3>3
    <2>2. CASE q # r
      <3>1. req'[q] = req[q] /\ req'[r] = [pc |-> pc, t |-> t, who |-> u]
        BY <1>1, <2>2 DEF TypeOK, Handler
      <3>2. Private(q)'
        <4> SUFFICES ASSUME At(q, "linkowner") \/ At(q, "undocreate") PROVE Private(q)'
          BY <3>1 DEF Private, At
        <4>1. t # req[q].t
          BY DEF Private, TypeOK
        <4>2. \A p \in Requests : req'[p].t = req[q].t => p = q
          BY <1>1, <3>1, <4>1 DEF Private, TypeOK
        <4>3. QED
          BY <3>1, <4>2 DEF Private, At
      <3>3. InUse(q)' /\ NoneAtHand(q)'
        BY <3>1 DEF InUse, NoneAtHand, At
      <3>4. Midway(q)'
        <4> SUFFICES ASSUME ~At(q, "idle"), req[q].who \notin contended' PROVE Midway(q)'
          BY <3>1 DEF Midway, At
        <4>1. req[q].who # u
          BY <1>1 DEF InFlight
        <4>2. Alone(q)'
          BY <1>1, <3>1, <4>1 DEF Midway, Alone, TypeOK
        <4>3. QED
          BY <1>1, <3>1, <4>2 DEF Midway, At
      <3>5. QED
        BY <3>2, <3>3, <3>4
    <2>3. QED
      BY <2>1, <2>2
  <1>6. QED
    BY <1>2, <1>3, <1>4, <1>5

\* Whoever is not the user at hand, and nobody else works on in a contended
\* way, is left alone by a step of request r.
LEMMA Bystanders ==
  ASSUME IInv, NEW r \in Requests, ~At(r, "idle"), contended' = contended,
         \A q \in Requests \ {r} : req'[q] = req[q],
         req'[r].who \in {req[r].who, NoUser},
         \A v \in Users \ {req[r].who} :
           /\ teamID'[v] = teamID[v]
           /\ \A s \in exists : v \in members'[s] <=> v \in members[s]
           /\ \A s \in exists' \ exists : v \notin members'[s] /\ teamID[v] # s
  PROVE  /\ \A q \in Requests \ {r} : Midway(q)'
         /\ \A v \in Users \ contended : v # req[r].who /\ ~InFlight(v)' =>
              \A s \in exists' : v \in members'[s] <=> teamID'[v] = s
  <1> USE TeamsAssumption DEF TeamsAssumption, IInv
  <1>1. ASSUME NEW q \in Requests \ {r}, ~At(q, "idle"), req[q].who \notin contended
        PROVE  Midway(q)'
    <2>1. Alone(q) /\ req[q].who \in Users
      BY <1>1 DEF Midway, NoneAtHand
    <2>2. req[r].who # req[q].who
      BY <1>1, <2>1 DEF Alone
    <2>3. Alone(q)'
      BY <1>1, <2>1, <2>2 DEF Alone
    <2>4. \A s \in exists' \ {req[q].t} :
            req[q].who \in members'[s] <=> teamID'[req[q].who] = s
      BY <1>1, <2>1, <2>2 DEF Midway
    <2>5. ~At(q, "create") => req[q].t \in exists
      BY <1>1 DEF Private, InUse
    <2>6. QED
      BY <1>1, <2>1, <2>2, <2>3, <2>4, <2>5 DEF Midway, At
  <1>2. ASSUME NEW q \in Requests \ {r} PROVE Midway(q)'
    BY <1>1 DEF Midway, At
  <1>3. ASSUME NEW v \in Users \ contended, v # req[r].who, ~InFlight(v)', NEW s \in exists'
        PROVE  v \in members'[s] <=> teamID'[v] = s
    <2>1. ~InFlight(v)
      BY <1>3 DEF InFlight
    <2>2. QED
      BY <1>3, <2>1 DEF RecordsAgree
  <1>4. QED
    BY <1>2, <1>3

\* A request that moves on to its next step, or to its answer.
LEMMA Moved ==
  ASSUME TypeOK, NEW r \in Requests, ~At(r, "idle"), NEW pc,
         Goto(r, pc) \/ Answer(r)
  PROVE  /\ \A q \in Requests \ {r} : req'[q] = req[q]
         /\ req'[r].who \in {req[r].who, NoUser}
         /\ Goto(r, pc) => req'[r] = [pc |-> pc, t |-> req[r].t, who |-> req[r].who]
         /\ Answer(r) => req'[r] = Idle
  BY DEF TypeOK, Goto, Answer, Handler, Idle

\* The new team is its creator's and known to nobody else.
LEMMA Created ==
  ASSUME IInv, NEW r \in Requests, NEW t \in Teams, NEW n \in Seats, CreateTeam(r, t, n)
  PROVE  IInv'
  <1> DEFINE u == req[r].who
  <1> USE TeamsAssumption DEF TeamsAssumption, IInv
  <1>1. /\ u \in Users /\ ~At(r, "idle") /\ t \notin drawn
        /\ req'[r] = [pc |-> "linkowner", t |-> t, who |-> u]
        /\ \A q \in Requests \ {r} : req'[q] = req[q]
        /\ contended' = contended
    BY DEF CreateTeam, NoneAtHand, At, TypeOK, Handler
  <1>2. /\ exists' = exists \cup {t}
        /\ owner'[t] = u /\ members'[t] = {u} /\ seats'[t] = n
        /\ \A s \in Teams \ {t} :
             owner'[s] = owner[s] /\ members'[s] = members[s] /\ seats'[s] = seats[s]
        /\ teamID' = teamID
        /\ \A v \in Users : teamID[v] # t
        /\ exists \subseteq Teams \ {t}
    BY DEF CreateTeam, TypeOK, NoDangling
  <1>3. TypeOK'
    BY <1>1 DEF TypeOK, CreateTeam, Handler
  <1>4. SeatBound'
    <2>1. Cardinality({u}) <= n
      <3>1. Cardinality({u}) = 1 /\ n \in Nat \ {0}
        BY FS_Singleton, Zenon
      <3>2. QED
        BY <3>1
    <2>2. QED
      BY <1>2, <2>1 DEF SeatBound
  <1>5. NoDangling' /\ OwnerSeated'
    BY <1>2 DEF NoDangling, OwnerSeated, OnTeamPlan
  <1>6. /\ \A q \in Requests \ {r} : Midway(q)'
        /\ \A v \in Users \ contended : v # u /\ ~InFlight(v)' =>
             \A s \in exists' : v \in members'[s] <=> teamID'[v] = s
    BY <1>1, <1>2, Bystanders
  <1>7. RecordsAgree'
    BY <1>1, <1>2, <1>6 DEF RecordsAgree, InFlight
  <1>8. ASSUME NEW q \in Requests
        PROVE  Private(q)' /\ InUse(q)' /\ NoneAtHand(q)' /\ Midway(q)'
    <2>1. CASE q = r
      <3>1. \A p \in Requests : req'[p].t = t => p = r
        BY <1>1 DEF NoneAtHand
      <3>2. Private(q)'
        BY <1>1, <1>2, <2>1, <3>1 DEF Private
      <3>3. InUse(q)' /\ NoneAtHand(q)'
        BY <1>1, <2>1 DEF InUse, NoneAtHand, At, CreateTeam
      <3>4. Midway(q)'
        <4> SUFFICES ASSUME u \notin contended PROVE Midway(q)'
          BY <1>1, <2>1 DEF Midway
        <4>1. Alone(r) /\ \A s \in exists : u \in members[s] <=> teamID[u] = s
          BY <1>1 DEF Midway, CreateTeam, At, NoneAtHand, TypeOK
        <4>2. Alone(r)'
          BY <1>1, <4>1 DEF Alone
        <4>3. QED
          BY <1>1, <1>2, <2>1, <4>1, <4>2 DEF Midway, At
      <3>5. QED
        BY <3>2, <3>3, <3>4
    <2>2. CASE q # r
      <3>1. req'[q] = req[q] /\ req[q].t # t
        BY <1>1, <2>2 DEF NoneAtHand
      <3>2. Private(q)' /\ InUse(q)' /\ NoneAtHand(q)'
        BY <1>1, <1>2, <2>2, <3>1 DEF Private, InUse, NoneAtHand, At, CreateTeam
      <3>3. QED
        BY <1>6, <2>2, <3>2
    <2>3. QED
      BY <2>1, <2>2
  <1>9. QED
    BY <1>3, <1>4, <1>5, <1>7, <1>8

\* The handlers that only answer.
LEMMA Answered ==
  ASSUME IInv, NEW r \in Requests, CreateFails(r)
  PROVE  IInv'
  <1> USE TeamsAssumption DEF TeamsAssumption, IInv
  <1>1. /\ ~At(r, "idle")
        /\ req'[r] = Idle
        /\ \A q \in Requests \ {r} : req'[q] = req[q]
        /\ UNCHANGED <<team, teamID, restarts, contended>>
    BY DEF CreateFails, At, Answer, TypeOK
  <1>2. TypeOK'
    BY <1>1 DEF TypeOK, CreateFails, Answer, Idle, Handler, team
  <1>3. SeatBound' /\ NoDangling' /\ OwnerSeated'
    BY <1>1 DEF SeatBound, NoDangling, OwnerSeated, OnTeamPlan, team
  <1>4. /\ \A q \in Requests \ {r} : Midway(q)'
        /\ \A v \in Users \ contended : v # req[r].who /\ ~InFlight(v)' =>
             \A s \in exists' : v \in members'[s] <=> teamID'[v] = s
    BY <1>1, Bystanders DEF team, Idle, Handler
  <1>5. RecordsAgree'
    <2>1. req[r].who \notin contended => \A s \in exists :
            req[r].who \in members[s] <=> teamID[req[r].who] = s
      BY DEF Midway, CreateFails, At, NoneAtHand, TypeOK
    <2>2. QED
      BY <1>1, <1>4, <2>1 DEF RecordsAgree, team
  <1>6. ASSUME NEW q \in Requests PROVE Private(q)' /\ InUse(q)' /\ NoneAtHand(q)'
    <2>1. CASE q = r
      BY <1>1, <2>1 DEF Private, InUse, NoneAtHand, At, Idle, Handler
    <2>2. CASE q # r
      <3>1. \A p \in Requests : req'[p].t \in {req[p].t, NoTeam}
        BY <1>1 DEF Idle, Handler
      <3>2. Private(q)'
        BY <1>1, <2>2, <3>1 DEF Private, At, team, TypeOK
      <3>3. InUse(q)' /\ NoneAtHand(q)'
        BY <1>1, <2>2 DEF InUse, NoneAtHand, At, team, Idle, Handler
      <3>4. QED
        BY <3>2, <3>3
    <2>3. QED
      BY <2>1, <2>2
  <1>7. Midway(r)'
    BY <1>1 DEF Midway, At, Idle, Handler
  <1>8. QED
    BY <1>2, <1>3, <1>4, <1>5, <1>6, <1>7

\* A step of request r that only touches the team at hand and keeps every
\* linked owner linked.
OwnTeamOnly(r) ==
  /\ ~At(r, "idle")
  /\ \A q \in Requests \ {r} : req'[q] = req[q]
  /\ req'[r].t \in {req[r].t, NoTeam}
  /\ \/ exists' = exists
     \/ At(r, "undocreate") /\ exists' = exists \ {req[r].t}
  /\ drawn' = drawn /\ owner' = owner
  /\ \A s \in Teams \ {req[r].t} : members'[s] = members[s]
  /\ \A v \in Users : teamID'[v] \in {teamID[v], req[r].t, NoTeam}
  /\ \A s \in exists : teamID[owner[s]] = s => teamID'[owner[s]] = s

\* What the other requests know of their teams survives such a step.
LEMMA Others ==
  ASSUME IInv, NEW r \in Requests, OwnTeamOnly(r)
  PROVE  \A q \in Requests \ {r} : Private(q)' /\ InUse(q)' /\ NoneAtHand(q)'
  <1> USE TeamsAssumption DEF TeamsAssumption, IInv, OwnTeamOnly
  <1> TAKE q \in Requests \ {r}
  <1>1. Private(q)'
    <2> SUFFICES ASSUME At(q, "linkowner") \/ At(q, "undocreate") PROVE Private(q)'
      BY DEF Private, At
    <2>1. req[q].t \in exists /\ req[q].t \in Teams /\ req[q].t # req[r].t
      BY DEF Private, TypeOK
    <2>2. \A p \in Requests : req'[p].t = req[q].t => p = q
      BY <2>1 DEF Private, TypeOK
    <2>3. \A v \in Users : teamID'[v] # req[q].t
      BY <2>1 DEF Private
    <2>4. QED
      BY <2>1, <2>2, <2>3 DEF Private, At
  <1>2. InUse(q)'
    <2>1. At(r, "undocreate") => req[q].t # req[r].t
      BY DEF Private
    <2>2. QED
      BY <2>1 DEF InUse, At
  <1>3. QED
    BY <1>1, <1>2 DEF NoneAtHand, At

\* The creator is linked to the new team, unless another team came first.
LEMMA OwnerLinked ==
  ASSUME IInv, NEW r \in Requests, LinkOwner(r)
  PROVE  IInv'
  <1> DEFINE u == req[r].who
             t == req[r].t
  <1> USE TeamsAssumption DEF TeamsAssumption, IInv
  <1>1. /\ ~At(r, "idle") /\ u \in Users /\ t \in exists /\ t \in Teams
        /\ owner[t] = u /\ members[t] = {u}
        /\ \A v \in Users : teamID[v] # t
        /\ \A q \in Requests : req[q].t = t => q = r
        /\ UNCHANGED <<exists, drawn, owner, members, seats, restarts, contended>>
    BY DEF LinkOwner, team, NoneAtHand, Private, At, TypeOK
  <1>2. CASE teamID[u] = NoTeam
    <2>1. teamID' = [teamID EXCEPT ![u] = t] /\ Answer(r)
      BY <1>2 DEF LinkOwner
    <2>2. req'[r] = Idle /\ \A q \in Requests \ {r} : req'[q] = req[q]
      BY <1>1, <2>1, Moved
    <2>3. /\ teamID'[u] = t
          /\ \A v \in Users \ {u} : teamID'[v] = teamID[v]
      BY <1>1, <2>1 DEF TypeOK
    <2>4. TypeOK'
      BY <1>1, <2>1 DEF TypeOK, Answer, Idle, Handler
    <2>5. SeatBound' /\ NoDangling'
      BY <1>1, <2>3 DEF SeatBound, NoDangling
    <2>6. OwnerSeated'
      BY <1>1, <1>2, <2>3 DEF OwnerSeated, OnTeamPlan, TypeOK
    <2>7. /\ \A q \in Requests \ {r} : Midway(q)'
          /\ \A v \in Users \ contended : v # u /\ ~InFlight(v)' =>
               \A s \in exists' : v \in members'[s] <=> teamID'[v] = s
      BY <1>1, <2>2, <2>3, Bystanders DEF Idle, Handler
    <2>8. RecordsAgree'
      <3>1. u \notin contended => \A s \in exists : u \in members[s] <=> teamID'[u] = s
        BY <1>1, <1>2, <2>3 DEF Midway, TypeOK
      <3>2. QED
        BY <1>1, <2>7, <3>1 DEF RecordsAgree
    <2>9. \A q \in Requests \ {r} : Private(q)' /\ InUse(q)' /\ NoneAtHand(q)'
      <3>1. \A s \in exists : teamID[owner[s]] = s => teamID'[owner[s]] = s
        BY <1>1, <1>2, <2>1 DEF TypeOK
      <3>2. req'[r].t = NoTeam
        BY <2>2 DEF Idle, Handler
      <3>3. OwnTeamOnly(r)
        BY <1>1, <2>2, <2>3, <3>1, <3>2 DEF OwnTeamOnly
      <3>4. QED
        BY <3>3, Others
    <2>10. Private(r)' /\ InUse(r)' /\ NoneAtHand(r)' /\ Midway(r)'
      BY <2>2 DEF Private, InUse, NoneAtHand, Midway, At, Idle, Handler
    <2>11. QED
      BY <2>4, <2>5, <2>6, <2>7, <2>8, <2>9, <2>10
  <1>3. CASE teamID[u] # NoTeam
    <2>1. teamID' = teamID /\ Goto(r, "undocreate")
      BY <1>3 DEF LinkOwner
    <2>2. /\ req'[r] = [pc |-> "undocreate", t |-> t, who |-> u]
          /\ \A q \in Requests \ {r} : req'[q] = req[q]
      BY <1>1, <2>1, Moved
    <2>3. TypeOK'
      BY <1>1, <2>1 DEF TypeOK, Goto, Handler
    <2>4. SeatBound' /\ NoDangling' /\ OwnerSeated'
      BY <1>1, <2>1 DEF SeatBound, NoDangling, OwnerSeated, OnTeamPlan
    <2>5. /\ \A q \in Requests \ {r} : Midway(q)'
          /\ \A v \in Users \ contended : v # u /\ ~InFlight(v)' =>
               \A s \in exists' : v \in members'[s] <=> teamID'[v] = s
      BY <1>1, <2>1, <2>2, Bystanders
    <2>6. RecordsAgree'
      BY <1>1, <2>2, <2>5 DEF RecordsAgree, InFlight
    <2>7. \A q \in Requests \ {r} : Private(q)' /\ InUse(q)' /\ NoneAtHand(q)'
      <3>1. OwnTeamOnly(r)
        BY <1>1, <2>1, <2>2 DEF OwnTeamOnly
      <3>2. QED
        BY <3>1, Others
    <2>8. Private(r)'
      <3>1. \A q \in Requests : req'[q].t = t => q = r
        BY <1>1, <2>2
      <3>2. QED
        BY <1>1, <2>1, <2>2, <3>1 DEF Private
    <2>9. InUse(r)' /\ NoneAtHand(r)'
      BY <1>1, <2>2 DEF InUse, NoneAtHand, At, TypeOK
    <2>10. Midway(r)'
      BY <1>1, <2>1, <2>2 DEF Midway, Alone, At
    <2>11. QED
      BY <2>3, <2>4, <2>5, <2>6, <2>7, <2>8, <2>9, <2>10
  <1>4. QED
    BY <1>2, <1>3

\* The creator is on another team: the new one goes, and nobody knew of it.
LEMMA CreationUndone ==
  ASSUME IInv, NEW r \in Requests, UndoCreate(r)
  PROVE  IInv'
  <1> DEFINE u == req[r].who
             t == req[r].t
  <1> USE TeamsAssumption DEF TeamsAssumption, IInv
  <1>1. /\ ~At(r, "idle") /\ At(r, "undocreate") /\ u \in Users /\ t \in exists /\ t \in Teams
        /\ members[t] = {u}
        /\ \A v \in Users : teamID[v] # t
        /\ exists' = exists \ {t} /\ Answer(r)
        /\ UNCHANGED <<drawn, owner, members, seats, teamID, restarts, contended>>
    BY DEF UndoCreate, NoneAtHand, Private, At, TypeOK
  <1>2. req'[r] = Idle /\ \A q \in Requests \ {r} : req'[q] = req[q]
    BY <1>1, Moved
  <1>3. TypeOK'
    BY <1>1 DEF TypeOK, Answer, Idle, Handler
  <1>4. SeatBound' /\ NoDangling' /\ OwnerSeated'
    BY <1>1 DEF SeatBound, NoDangling, OwnerSeated, OnTeamPlan
  <1>5. /\ \A q \in Requests \ {r} : Midway(q)'
        /\ \A v \in Users \ contended : v # u /\ ~InFlight(v)' =>
             \A s \in exists' : v \in members'[s] <=> teamID'[v] = s
    BY <1>1, <1>2, Bystanders DEF Idle, Handler
  <1>6. RecordsAgree'
    <2>1. u \notin contended => \A s \in exists \ {t} : u \in members[s] <=> teamID[u] = s
      BY <1>1 DEF Midway
    <2>2. QED
      BY <1>1, <1>5, <2>1 DEF RecordsAgree
  <1>7. \A q \in Requests \ {r} : Private(q)' /\ InUse(q)' /\ NoneAtHand(q)'
    <2>1. OwnTeamOnly(r)
      BY <1>1, <1>2 DEF OwnTeamOnly, Idle, Handler
    <2>2. QED
      BY <2>1, Others
  <1>8. Private(r)' /\ InUse(r)' /\ NoneAtHand(r)' /\ Midway(r)'
    BY <1>2 DEF Private, InUse, NoneAtHand, Midway, At, Idle, Handler
  <1>9. QED
    BY <1>3, <1>4, <1>5, <1>6, <1>7, <1>8

\* A seat is only taken while one is left.
LEMMA Reserved ==
  ASSUME IInv, NEW r \in Requests, Reserve(r)
  PROVE  IInv'
  <1> DEFINE x == req[r].who
             t == req[r].t
  <1> USE TeamsAssumption DEF TeamsAssumption, IInv
  <1>1. /\ ~At(r, "idle") /\ At(r, "reserve") /\ x \in Users /\ t \in exists /\ t \in Teams
        /\ teamID[owner[t]] = t /\ members[t] \subseteq Users
        /\ UNCHANGED <<exists, drawn, owner, seats, teamID, restarts, contended>>
    BY DEF Reserve, NoneAtHand, InUse, At, TypeOK
  <1>2. CASE x \in members[t] \/ Cardinality(members[t]) < seats[t]
    <2>1. members' = [members EXCEPT ![t] = @ \cup {x}] /\ Goto(r, "linkmember")
      BY <1>2 DEF Reserve
    <2>2. /\ req'[r] = [pc |-> "linkmember", t |-> t, who |-> x]
          /\ \A q \in Requests \ {r} : req'[q] = req[q]
      BY <1>1, <2>1, Moved
    <2>3. /\ members'[t] = members[t] \cup {x}
          /\ \A s \in Teams \ {t} : members'[s] = members[s]
      BY <1>1, <2>1 DEF TypeOK
    <2>4. TypeOK'
      BY <1>1, <2>1 DEF TypeOK, Goto, Handler
    <2>5. SeatBound'
      <3>1. IsFiniteSet(members[t]) /\ Cardinality(members[t]) \in Nat /\ seats[t] \in Nat
        <4>1. IsFiniteSet(members[t])
          BY <1>1, FS_Subset
        <4>2. Cardinality(members[t]) \in Nat
          BY <4>1, FS_CardinalityType
        <4>3. seats[t] \in Seats \cup {0}
          BY <1>1 DEF TypeOK
        <4>4. seats[t] \in Nat
          BY <4>3, SeatCounts
        <4>5. QED
          BY <4>1, <4>2, <4>4
      <3>2. Cardinality(members[t] \cup {x}) <= seats[t]
        <4>1. CASE x \in members[t]
          BY <1>1, <4>1 DEF SeatBound
        <4>2. CASE x \notin members[t]
          <5>1. Cardinality(members[t] \cup {x}) = Cardinality(members[t]) + 1
            BY <3>1, <4>2, FS_AddElement
          <5>2. QED
            BY <1>2, <3>1, <4>2, <5>1
        <4>3. QED
          BY <4>1, <4>2
      <3>3. QED
        BY <1>1, <2>3, <3>2 DEF SeatBound, TypeOK
    <2>6. NoDangling' /\ OwnerSeated'
      BY <1>1, <2>3 DEF NoDangling, OwnerSeated, OnTeamPlan, TypeOK
    <2>7. /\ \A q \in Requests \ {r} : Midway(q)'
          /\ \A v \in Users \ contended : v # x /\ ~InFlight(v)' =>
               \A s \in exists' : v \in members'[s] <=> teamID'[v] = s
      <3>1. \A v \in Users \ {x} : \A s \in exists : v \in members'[s] <=> v \in members[s]
        BY <1>1, <2>3 DEF TypeOK
      <3>2. QED
        BY <1>1, <2>2, <3>1, Bystanders
    <2>8. RecordsAgree'
      BY <1>1, <2>2, <2>7 DEF RecordsAgree, InFlight
    <2>9. \A q \in Requests \ {r} : Private(q)' /\ InUse(q)' /\ NoneAtHand(q)'
      <3>1. OwnTeamOnly(r)
        BY <1>1, <2>2, <2>3 DEF OwnTeamOnly
      <3>2. QED
        BY <3>1, Others
    <2>10. Private(r)' /\ InUse(r)' /\ NoneAtHand(r)'
      BY <1>1, <2>2 DEF Private, InUse, NoneAtHand, At, TypeOK
    <2>11. Midway(r)'
      <3> SUFFICES ASSUME x \notin contended PROVE Midway(r)'
        BY <1>1, <2>2 DEF Midway
      <3>1. Alone(r)'
        BY <1>1, <2>2 DEF Midway, Alone
      <3>2. \A s \in exists \ {t} : x \in members'[s] <=> teamID[x] = s
        BY <1>1, <2>3 DEF Midway, TypeOK
      <3>3. QED
        BY <1>1, <2>2, <2>3, <3>1, <3>2 DEF Midway, At
    <2>12. QED
      BY <2>4, <2>5, <2>6, <2>7, <2>8, <2>9, <2>10, <2>11
  <1>3. CASE ~(x \in members[t] \/ Cardinality(members[t]) < seats[t])
    <2>1. Answer(r) /\ members' = members
      BY <1>3 DEF Reserve
    <2>2. req'[r] = Idle /\ \A q \in Requests \ {r} : req'[q] = req[q]
      BY <1>1, <2>1, Moved
    <2>3. TypeOK'
      BY <1>1, <2>1 DEF TypeOK, Answer, Idle, Handler
    <2>4. SeatBound' /\ NoDangling' /\ OwnerSeated'
      BY <1>1, <2>1 DEF SeatBound, NoDangling, OwnerSeated, OnTeamPlan
    <2>5. /\ \A q \in Requests \ {r} : Midway(q)'
          /\ \A v \in Users \ contended : v # x /\ ~InFlight(v)' =>
               \A s \in exists' : v \in members'[s] <=> teamID'[v] = s
      BY <1>1, <2>1, <2>2, Bystanders DEF Idle, Handler
    <2>6. RecordsAgree'
      <3>1. x \notin contended => \A s \in exists : x \in members[s] <=> teamID[x] = s
        BY <1>1 DEF Midway
      <3>2. QED
        BY <1>1, <2>1, <2>5, <3>1 DEF RecordsAgree
    <2>7. \A q \in Requests \ {r} : Private(q)' /\ InUse(q)' /\ NoneAtHand(q)'
      <3>1. OwnTeamOnly(r)
        BY <1>1, <2>1, <2>2 DEF OwnTeamOnly, Idle, Handler
      <3>2. QED
        BY <3>1, Others
    <2>8. Private(r)' /\ InUse(r)' /\ NoneAtHand(r)' /\ Midway(r)'
      BY <2>2 DEF Private, InUse, NoneAtHand, Midway, At, Idle, Handler
    <2>9. QED
      BY <2>3, <2>4, <2>5, <2>6, <2>7, <2>8
  <1>4. QED
    BY <1>2, <1>3

\* The user is linked, unless linked to another team.
LEMMA MemberLinked ==
  ASSUME IInv, NEW r \in Requests, LinkMember(r)
  PROVE  IInv'
  <1> DEFINE x == req[r].who
             t == req[r].t
  <1> USE TeamsAssumption DEF TeamsAssumption, IInv
  <1>1. /\ ~At(r, "idle") /\ At(r, "linkmember") /\ x \in Users /\ t \in exists /\ t \in Teams
        /\ teamID[owner[t]] = t
        /\ UNCHANGED <<exists, drawn, owner, members, seats, restarts, contended>>
    BY DEF LinkMember, team, NoneAtHand, InUse, At, TypeOK
  <1>2. CASE teamID[x] \in {NoTeam, t}
    <2>1. teamID' = [teamID EXCEPT ![x] = t] /\ Answer(r)
      BY <1>2 DEF LinkMember
    <2>2. req'[r] = Idle /\ \A q \in Requests \ {r} : req'[q] = req[q]
      BY <1>1, <2>1, Moved
    <2>3. /\ teamID'[x] = t
          /\ \A v \in Users \ {x} : teamID'[v] = teamID[v]
      BY <1>1, <2>1 DEF TypeOK
    <2>4. TypeOK'
      BY <1>1, <2>1 DEF TypeOK, Answer, Idle, Handler
    <2>5. SeatBound' /\ NoDangling'
      BY <1>1, <2>3 DEF SeatBound, NoDangling
    <2>6. \A s \in exists : teamID[owner[s]] = s => teamID'[owner[s]] = s
      BY <1>1, <1>2, <2>1 DEF TypeOK
    <2>7. OwnerSeated'
      <3>1. ASSUME NEW s \in exists, s # t PROVE OnTeamPlan(s)' \subseteq OnTeamPlan(s)
        BY <1>1, <2>3, <3>1 DEF OnTeamPlan
      <3>2. QED
        BY <1>1, <2>6, <3>1 DEF OwnerSeated
    <2>8. /\ \A q \in Requests \ {r} : Midway(q)'
          /\ \A v \in Users \ contended : v # x /\ ~InFlight(v)' =>
               \A s \in exists' : v \in members'[s] <=> teamID'[v] = s
      BY <1>1, <2>2, <2>3, Bystanders DEF Idle, Handler
    <2>9. RecordsAgree'
      <3>1. x \notin contended => \A s \in exists : x \in members[s] <=> teamID'[x] = s
        BY <1>1, <1>2, <2>3 DEF Midway, TypeOK
      <3>2. QED
        BY <1>1, <2>8, <3>1 DEF RecordsAgree
    <2>10. \A q \in Requests \ {r} : Private(q)' /\ InUse(q)' /\ NoneAtHand(q)'
      <3>1. OwnTeamOnly(r)
        BY <1>1, <2>2, <2>3, <2>6 DEF OwnTeamOnly, Idle, Handler
      <3>2. QED
        BY <3>1, Others
    <2>11. Private(r)' /\ InUse(r)' /\ NoneAtHand(r)' /\ Midway(r)'
      BY <2>2 DEF Private, InUse, NoneAtHand, Midway, At, Idle, Handler
    <2>12. QED
      BY <2>4, <2>5, <2>7, <2>8, <2>9, <2>10, <2>11
  <1>3. CASE teamID[x] \notin {NoTeam, t}
    <2>1. teamID' = teamID /\ Goto(r, "unreserve")
      BY <1>3 DEF LinkMember
    <2>2. /\ req'[r] = [pc |-> "unreserve", t |-> t, who |-> x]
          /\ \A q \in Requests \ {r} : req'[q] = req[q]
      BY <1>1, <2>1, Moved
    <2>3. TypeOK'
      BY <1>1, <2>1 DEF TypeOK, Goto, Handler
    <2>4. SeatBound' /\ NoDangling' /\ OwnerSeated'
      BY <1>1, <2>1 DEF SeatBound, NoDangling, OwnerSeated, OnTeamPlan
    <2>5. /\ \A q \in Requests \ {r} : Midway(q)'
          /\ \A v \in Users \ contended : v # x /\ ~InFlight(v)' =>
               \A s \in exists' : v \in members'[s] <=> teamID'[v] = s
      BY <1>1, <2>1, <2>2, Bystanders
    <2>6. RecordsAgree'
      BY <1>1, <2>2, <2>5 DEF RecordsAgree, InFlight
    <2>7. \A q \in Requests \ {r} : Private(q)' /\ InUse(q)' /\ NoneAtHand(q)'
      <3>1. OwnTeamOnly(r)
        BY <1>1, <2>1, <2>2 DEF OwnTeamOnly
      <3>2. QED
        BY <3>1, Others
    <2>8. Private(r)' /\ InUse(r)' /\ NoneAtHand(r)'
      BY <1>1, <1>3, <2>1, <2>2 DEF Private, InUse, NoneAtHand, At, TypeOK
    <2>9. Midway(r)'
      BY <1>1, <1>3, <2>1, <2>2 DEF Midway, Alone, At
    <2>10. QED
      BY <2>3, <2>4, <2>5, <2>6, <2>7, <2>8, <2>9
  <1>4. QED
    BY <1>2, <1>3

\* The seat of a user who is not the owner is given back.
LEMMA SeatGivenBack ==
  ASSUME IInv, NEW r \in Requests, Unreserve(r) \/ Drop(r)
  PROVE  IInv'
  <1> DEFINE x == req[r].who
             t == req[r].t
  <1> USE TeamsAssumption DEF TeamsAssumption, IInv
  <1>1. /\ ~At(r, "idle") /\ ~At(r, "create") /\ ~At(r, "linkowner") /\ ~At(r, "undocreate")
        /\ x \in Users /\ t \in exists /\ t \in Teams /\ x # owner[t]
        /\ teamID[owner[t]] = t
        /\ members' = [members EXCEPT ![t] = @ \ {x}]
        /\ UNCHANGED <<exists, drawn, owner, seats, teamID, restarts, contended>>
    BY DEF Unreserve, Drop, NoneAtHand, InUse, At, TypeOK
  <1>2. /\ members'[t] = members[t] \ {x}
        /\ \A s \in Teams \ {t} : members'[s] = members[s]
    BY <1>1 DEF TypeOK
  <1>3. /\ \A q \in Requests \ {r} : req'[q] = req[q]
        /\ Unreserve(r) => req'[r] = Idle
        /\ Drop(r) => req'[r] = [pc |-> "unlink", t |-> t, who |-> x]
    BY <1>1, Moved DEF Unreserve, Drop
  <1>4. TypeOK'
    BY <1>1 DEF TypeOK, Unreserve, Drop, Answer, Goto, Idle, Handler
  <1>5. SeatBound'
    <2> SUFFICES ASSUME NEW s \in exists PROVE Cardinality(members'[s]) <= seats[s]
      BY <1>1 DEF SeatBound
    <2>1. members'[s] \subseteq members[s] /\ members[s] \subseteq Users
      BY <1>1, <1>2 DEF TypeOK
    <2>2. Cardinality(members'[s]) <= Cardinality(members[s])
      BY <2>1, FS_Subset
    <2>3. Cardinality(members'[s]) \in Nat /\ Cardinality(members[s]) \in Nat
      BY <2>1, FS_Subset, FS_CardinalityType
    <2>4. seats[s] \in Seats \cup {0} /\ Cardinality(members[s]) <= seats[s]
      BY DEF SeatBound, TypeOK
    <2>5. seats[s] \in Nat
      BY <2>4, SeatCounts
    <2>6. QED
      BY <2>2, <2>3, <2>4, <2>5
  <1>6. NoDangling' /\ OwnerSeated'
    BY <1>1, <1>2 DEF NoDangling, OwnerSeated, OnTeamPlan, TypeOK
  <1>7. /\ \A q \in Requests \ {r} : Midway(q)'
        /\ \A v \in Users \ contended : v # x /\ ~InFlight(v)' =>
             \A s \in exists' : v \in members'[s] <=> teamID'[v] = s
    <2>1. \A v \in Users \ {x} : \A s \in exists : v \in members'[s] <=> v \in members[s]
      BY <1>1, <1>2 DEF TypeOK
    <2>2. req'[r].who \in {x, NoUser}
      BY <1>3 DEF Idle, Handler
    <2>3. QED
      BY <1>1, <1>3, <2>1, <2>2, Bystanders
  <1>8. x \notin contended => \A s \in exists \ {t} : x \in members'[s] <=> teamID[x] = s
    BY <1>1, <1>2 DEF Midway, TypeOK
  <1>9. RecordsAgree'
    <2>1. CASE Unreserve(r)
      <3>1. x \notin contended => \A s \in exists : x \in members'[s] <=> teamID[x] = s
        BY <1>1, <1>2, <1>8, <2>1 DEF Unreserve, Midway
      <3>2. QED
        BY <1>1, <1>7, <3>1 DEF RecordsAgree
    <2>2. CASE Drop(r)
      BY <1>1, <1>3, <1>7, <2>2 DEF RecordsAgree, InFlight
    <2>3. QED
      BY <2>1, <2>2
  <1>10. \A q \in Requests \ {r} : Private(q)' /\ InUse(q)' /\ NoneAtHand(q)'
    <2>1. OwnTeamOnly(r)
      BY <1>1, <1>2, <1>3 DEF OwnTeamOnly, Idle, Handler
    <2>2. QED
      BY <2>1, Others
  <1>11. Private(r)' /\ InUse(r)' /\ NoneAtHand(r)'
    BY <1>1, <1>3 DEF Private, InUse, NoneAtHand, At, Idle, Handler, TypeOK
  <1>12. Midway(r)'
    <2>1. CASE Unreserve(r)
      BY <1>3, <2>1 DEF Midway, At, Idle, Handler
    <2>2. CASE Drop(r)
      BY <1>1, <1>2, <1>3, <1>8, <2>2 DEF Midway, Alone, At
    <2>3. QED
      BY <2>1, <2>2
  <1>13. QED
    BY <1>4, <1>5, <1>6, <1>7, <1>9, <1>10, <1>11, <1>12

\* A link that is cleared was to this team, and not its owner's.
LEMMA Unlinked ==
  ASSUME IInv, NEW r \in Requests, Unlink(r)
  PROVE  IInv'
  <1> DEFINE x == req[r].who
             t == req[r].t
  <1> USE TeamsAssumption DEF TeamsAssumption, IInv
  <1>1. /\ ~At(r, "idle") /\ At(r, "unlink") /\ x \in Users /\ t \in exists /\ t \in Teams
        /\ x # owner[t] /\ Answer(r)
        /\ teamID' = [teamID EXCEPT ![x] = IF @ = t THEN NoTeam ELSE @]
        /\ UNCHANGED <<exists, drawn, owner, members, seats, restarts, contended>>
    BY DEF Unlink, team, NoneAtHand, InUse, At, TypeOK
  <1>2. /\ teamID'[x] = (IF teamID[x] = t THEN NoTeam ELSE teamID[x])
        /\ \A v \in Users \ {x} : teamID'[v] = teamID[v]
    BY <1>1 DEF TypeOK
  <1>3. req'[r] = Idle /\ \A q \in Requests \ {r} : req'[q] = req[q]
    BY <1>1, Moved
  <1>4. TypeOK'
    BY <1>1 DEF TypeOK, Answer, Idle, Handler
  <1>5. SeatBound' /\ NoDangling'
    BY <1>1, <1>2 DEF SeatBound, NoDangling
  <1>6. \A s \in exists : teamID[owner[s]] = s => teamID'[owner[s]] = s
    BY <1>1 DEF TypeOK
  <1>7. OwnerSeated'
    <2>1. ASSUME NEW s \in exists PROVE OnTeamPlan(s)' \subseteq OnTeamPlan(s)
      BY <1>1, <1>2 DEF OnTeamPlan, TypeOK
    <2>2. QED
      BY <1>1, <1>6, <2>1 DEF OwnerSeated
  <1>8. /\ \A q \in Requests \ {r} : Midway(q)'
        /\ \A v \in Users \ contended : v # x /\ ~InFlight(v)' =>
             \A s \in exists' : v \in members'[s] <=> teamID'[v] = s
    BY <1>1, <1>2, <1>3, Bystanders DEF Idle, Handler
  <1>9. RecordsAgree'
    <2>1. x \notin contended => \A s \in exists : x \in members[s] <=> teamID'[x] = s
      BY <1>1, <1>2 DEF Midway, TypeOK
    <2>2. QED
      BY <1>1, <1>8, <2>1 DEF RecordsAgree
  <1>10. \A q \in Requests \ {r} : Private(q)' /\ InUse(q)' /\ NoneAtHand(q)'
    <2>1. OwnTeamOnly(r)
      BY <1>1, <1>2, <1>3, <1>6 DEF OwnTeamOnly, Idle, Handler
    <2>2. QED
      BY <2>1, Others
  <1>11. Private(r)' /\ InUse(r)' /\ NoneAtHand(r)' /\ Midway(r)'
    BY <1>3 DEF Private, InUse, NoneAtHand, Midway, At, Idle, Handler
  <1>12. QED
    BY <1>4, <1>5, <1>7, <1>8, <1>9, <1>10, <1>11

\* The users whose handlers are cut short count as contended from then on.
LEMMA Restarted ==
  ASSUME IInv, Restart
  PROVE  IInv'
  <1> USE TeamsAssumption DEF TeamsAssumption, IInv, Restart, team
  <1>1. \A r \in Requests : req'[r] = Idle
    OBVIOUS
  <1>2. TypeOK'
    <2>1. restarts' \in 0..MaxRestarts
      BY DEF TypeOK
    <2>2. QED
      BY <2>1 DEF TypeOK, Idle, Handler
  <1>3. SeatBound' /\ NoDangling' /\ OwnerSeated'
    BY DEF SeatBound, NoDangling, OwnerSeated, OnTeamPlan
  <1>4. RecordsAgree'
    BY DEF RecordsAgree
  <1>5. \A r \in Requests : Private(r)' /\ InUse(r)' /\ NoneAtHand(r)' /\ Midway(r)'
    BY <1>1 DEF Private, InUse, NoneAtHand, Midway, At, Idle, Handler
  <1>6. QED
    BY <1>2, <1>3, <1>4, <1>5

LEMMA TeamsStep == IInv /\ [Next]_vars => IInv'
  <1> SUFFICES ASSUME IInv, [Next]_vars PROVE IInv'
    OBVIOUS
  <1>1. ASSUME NEW r \in Requests, NEW u \in Users, CreateCheck(r, u) \/ LeaveCheck(r, u)
        PROVE  IInv'
    <2>1. CASE CreateCheck(r, u)
      BY <2>1, Begin DEF CreateCheck
    <2>2. CASE LeaveCheck(r, u)
      <3>1. teamID[owner[teamID[u]]] = teamID[u]
        BY <2>2 DEF IInv, OwnerSeated, OnTeamPlan, LeaveCheck, OnTeam
      <3>2. QED
        BY <2>2, <3>1, Begin DEF LeaveCheck, OnTeam
    <2>3. QED
      BY <1>1, <2>1, <2>2
  <1>2. ASSUME NEW r \in Requests, NEW u \in Users, NEW x \in Users,
               InviteCheck(r, u, x) \/ RemoveCheck(r, u, x)
        PROVE  IInv'
    BY <1>2, Begin DEF InviteCheck, RemoveCheck, OnTeam
  <1>3. ASSUME NEW r \in Requests, NEW t \in Teams, NEW n \in Seats, CreateTeam(r, t, n)
        PROVE  IInv'
    BY <1>3, Created
  <1>4. ASSUME NEW r \in Requests,
               \/ CreateFails(r) \/ LinkOwner(r) \/ UndoCreate(r)
               \/ Reserve(r) \/ LinkMember(r) \/ Unreserve(r)
               \/ Drop(r) \/ Unlink(r)
        PROVE  IInv'
    BY <1>4, Answered, OwnerLinked, CreationUndone, Reserved, MemberLinked, SeatGivenBack, Unlinked
  <1>5. CASE Restart
    BY <1>5, Restarted
  <1>6. CASE UNCHANGED vars
    BY <1>6 DEF vars, team, IInv, TypeOK, SeatBound, NoDangling, OwnerSeated, OnTeamPlan,
                RecordsAgree, InFlight, Private, InUse, NoneAtHand, Midway, Alone, At
  <1>7. QED
    BY <1>1, <1>2, <1>3, <1>4, <1>5, <1>6 DEF Next, Step

\* The invariant of the handlers (team_handlers.go) holds in every reachable
\* state, for any users, teams, seats, requests in flight and restarts.
THEOREM TeamsInvariant == Spec => []IInv
  BY TeamsInitial, TeamsStep, PTL DEF Spec

\* No team ever lists more members than it has seats.
THEOREM TeamsSeatBound == Spec => []SeatBound
  <1>1. IInv => SeatBound
    BY DEF IInv
  <1>2. QED
    BY <1>1, TeamsInvariant, PTL

\* No user is ever left linked to a team that is gone.
THEOREM TeamsNoDangling == Spec => []NoDangling
  <1>1. IInv => NoDangling
    BY DEF IInv
  <1>2. QED
    BY <1>1, TeamsInvariant, PTL

\* Owners keep their seat and, once linked, their link.
THEOREM TeamsOwnerSeated == Spec => []OwnerSeated
  <1>1. IInv => OwnerSeated
    BY DEF IInv
  <1>2. QED
    BY <1>1, TeamsInvariant, PTL

\* Without overlapping handlers and restarts on a user, the two records agree.
THEOREM TeamsRecordsAgree == Spec => []RecordsAgree
  <1>1. IInv => RecordsAgree
    BY DEF IInv
  <1>2. QED
    BY <1>1, TeamsInvariant, PTL
=============================================================================
