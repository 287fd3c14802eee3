----------------------------- MODULE PromoProofs -----------------------------
(***************************************************************************)
(* Theorems about the promotions: about PromoSites, for every finite set   *)
(* of sites, every set of managers, addresses and requests, every contact  *)
(* list and every bound, and about PromoTicket, for every set of users,    *)
(* of calls and of statuses with the two that the advance is between, and  *)
(* every bound on the mishaps.                                             *)
(***************************************************************************)
EXTENDS PromoSites, PromoTicket, WellFoundedInduction, TLAPS

-----------------------------------------------------------------------------
\* The sites: the operators.

\* A nonempty set of naturals has its least member.
LEMMA LeastOf ==
  ASSUME NEW S \in SUBSET Nat, S # {}
  PROVE  Min(S) \in S
<1>1. PICK x \in S : \A y \in S : <<y, x>> \notin OpToRel(<, Nat)
  BY NatLessThanWellFounded, WFMin, Zenon
<1>2. ASSUME NEW y \in S PROVE ~(y < x)
  <2>1. <<y, x>> \in Nat \X Nat
    OBVIOUS
  <2> QED BY <1>1, <2>1, Zenon DEF OpToRel
<1>3. \A y \in S : x <= y
  BY <1>2
<1> QED BY <1>3 DEF Min

LEMMA NextSite == ASSUME NEW todo \in SUBSET Sites, todo # {} PROVE Min(todo) \in todo
BY SitesAssumption, LeastOf

LEMMA RecipientsTyped ==
  ASSUME NEW s \in Sites, NEW roles \in SUBSET Managers
  PROVE  Recipients(s, roles) \subseteq Addresses
BY ContactAssumption DEF Recipients, Roles

LEMMA IdleTyped == Idle \in Request
BY DEF Idle, Request, Phases

LEMMA ServingTyped ==
  ASSUME NEW p \in Phases, NEW roles \in SUBSET Managers, NEW todo \in SUBSET Sites
  PROVE  Serving(p, roles, todo) \in Request
<1>1. CASE todo = {}
  BY <1>1, IdleTyped DEF Serving
<1>2. CASE todo # {}
  <2>1. Recipients(Min(todo), roles) \subseteq Addresses
    BY <1>2, NextSite, RecipientsTyped
  <2> QED BY <1>2, <2>1 DEF Serving, Request
<1> QED BY <1>1, <1>2

LEMMA FollowingTyped == ASSUME NEW q \in Request PROVE FollowingSite(q) \in Request
<1>1. q.phase \in Phases /\ q.roles \in SUBSET Managers /\ q.todo \ {Min(q.todo)} \in SUBSET Sites
  BY DEF Request
<1> QED BY <1>1, ServingTyped DEF FollowingSite

LEMMA LeftTyped ==
  ASSUME NEW q \in Request, NEW rest \in SUBSET Addresses
  PROVE  /\ [q EXCEPT !.left = rest] \in Request
         /\ AfterFailure(q, rest) \in Request
BY FollowingTyped DEF AfterFailure, Request

\* Only the row of the key changes, and it is there afterwards.
LEMMA EnqueuedTyped ==
  ASSUME TypeOK, NEW p \in Phases, NEW s \in Sites, NEW a \in Addresses
  PROVE  Enqueued(p, s, a) \in [Phases -> [Sites -> [Addresses -> 0..MaxMarks]]]
BY DEF TypeOK, Enqueued

LEMMA EnqueuedKeeps ==
  ASSUME TypeOK, NEW p \in Phases, NEW s \in Sites, NEW a \in Addresses,
         NEW v \in Phases, NEW t \in Sites, NEW b \in Addresses, queue[v][t][b] # 0
  PROVE  Enqueued(p, s, a)[v][t][b] # 0
BY DEF TypeOK, Enqueued

LEMMA EnqueuedIsThere ==
  ASSUME TypeOK, NEW p \in Phases, NEW s \in Sites, NEW a \in Addresses, marks[s][p] # 0
  PROVE  Enqueued(p, s, a)[p][s][a] # 0
BY DEF TypeOK, Enqueued

\* A function of two arguments with one of its values replaced.
LEMMA Replaced ==
  ASSUME NEW V, NEW f \in [Sites -> [Phases -> V]], NEW s \in Sites, NEW p \in Phases, NEW v \in V,
         NEW g, g = [f EXCEPT ![s][p] = v]
  PROVE  /\ g \in [Sites -> [Phases -> V]] /\ g[s][p] = v
         /\ \A t \in Sites, w \in Phases : t # s \/ w # p => g[t][w] = f[t][w]
<1>1. [f[s] EXCEPT ![p] = v] \in [Phases -> V]
  OBVIOUS
<1> QED BY <1>1

LEMMA MarkedNotified ==
  ASSUME TypeOK, NEW s \in Sites, NEW p \in Phases,
         place' = [place EXCEPT ![s][p].notified = TRUE]
  PROVE  /\ place' \in [Sites -> [Phases -> Place]]
         /\ place'[s][p].notified /\ place'[s][p].on = place[s][p].on
         /\ \A t \in Sites, w \in Phases : t # s \/ w # p => place'[t][w] = place[t][w]
<1> DEFINE v == [place[s][p] EXCEPT !.notified = TRUE]
<1>1. place \in [Sites -> [Phases -> Place]] /\ place[s][p] \in Place
  BY DEF TypeOK
<1>2. v \in Place
  BY <1>1 DEF Place
<1>3. v.notified = TRUE /\ v.on = place[s][p].on
  BY <1>1 DEF Place
<1>4. place' = [place EXCEPT ![s][p] = v]
  OBVIOUS
<1> HIDE DEF v
<1>5. /\ place' \in [Sites -> [Phases -> Place]] /\ place'[s][p] = v
      /\ \A t \in Sites, w \in Phases : t # s \/ w # p => place'[t][w] = place[t][w]
  <2>1. PICK g : g = place'
    OBVIOUS
  <2>2. /\ g \in [Sites -> [Phases -> Place]] /\ g[s][p] = v
        /\ \A t \in Sites, w \in Phases : t # s \/ w # p => g[t][w] = place[t][w]
    BY <1>1, <1>2, <1>4, <2>1, Replaced
  <2> QED BY <2>1, <2>2
<1> QED BY <1>3, <1>5

-----------------------------------------------------------------------------
\* The type invariant.

LEMMA BecomeTyped ==
  ASSUME TypeOK, NEW r \in Requests, NEW q \in Request, Become(r, q)
  PROVE  /\ req' \in [Requests -> Request] /\ req'[r] = q
         /\ \A t \in Requests \ {r} : req'[t] = req[t]
BY DEF TypeOK, Become

LEMMA FaultTyped == TypeOK /\ (Fault \/ UNCHANGED faults) => faults' \in 0..MaxFaults
BY BoundsAssumption DEF TypeOK, Fault

LEMMA TypeInit == Init => TypeOK
<1> SUFFICES ASSUME Init PROVE TypeOK
  OBVIOUS
<1>1. place \in [Sites -> [Phases -> Place]]
  BY DEF Init, Fresh, Place
<1>2. 0 \in 0..MaxMarks /\ 0 \in 0..MaxFaults
  BY BoundsAssumption
<1>3. req \in [Requests -> Request]
  BY IdleTyped DEF Init
<1> QED BY <1>1, <1>2, <1>3 DEF Init, TypeOK

LEMMA PatchTyped ==
  ASSUME TypeOK, NEW s \in Sites, NEW flags \in Flags, PatchLocation(s, flags)
  PROVE  /\ TypeOK'
         /\ \A t \in Sites, p \in Phases :
              /\ marks[t][p] # 0 => marks'[t][p] # 0
              /\ place'[t][p].on => marks'[t][p] # 0 \/ place[t][p].on
<1> DEFINE given == DOMAIN flags
           newly == {p \in given : flags[p] /\ ~place[s][p].on}
<1>1. given \subseteq Phases /\ \A p \in given : flags[p] \in BOOLEAN
  BY DEF Flags
<1>2. marked' \in 0..MaxMarks /\ (newly # {} => marked' # 0)
  BY BoundsAssumption DEF PatchLocation, TypeOK
<1>3. place' \in [Sites -> [Phases -> Place]]
  <2>1. ASSUME NEW p \in Phases
        PROVE (IF p \notin given THEN place[s][p]
               ELSE [on |-> flags[p], notified |-> place[s][p].notified /\ ~Clears(p, flags[p])])
              \in Place
    BY <1>1 DEF TypeOK, Place, Clears
  <2>2. place' = [place EXCEPT ![s] = [p \in Phases |->
          IF p \notin given THEN place[s][p]
          ELSE [on |-> flags[p], notified |-> place[s][p].notified /\ ~Clears(p, flags[p])]]]
    BY DEF PatchLocation, TypeOK
  <2> QED BY <2>1, <2>2 DEF TypeOK
<1>4. marks' = [marks EXCEPT ![s] = [p \in Phases |->
                  IF p \in newly THEN marked' ELSE marks[s][p]]]
  BY DEF PatchLocation, TypeOK
<1>5. marks' \in [Sites -> [Phases -> 0..MaxMarks]]
  BY <1>2, <1>4 DEF TypeOK
<1>6. told' \in [Sites -> [Phases -> SUBSET Addresses]]
  BY DEF PatchLocation, TypeOK
<1>7. unmarked' \in [Requests -> SUBSET Sites] /\ late' \subseteq Sites
  BY DEF PatchLocation, TypeOK
<1>8. TypeOK'
  BY <1>2, <1>3, <1>5, <1>6, <1>7 DEF PatchLocation, TypeOK
<1>9. ASSUME NEW t \in Sites, NEW p \in Phases
      PROVE  /\ marks[t][p] # 0 => marks'[t][p] # 0
             /\ place'[t][p].on => marks'[t][p] # 0 \/ place[t][p].on
  <2>1. CASE t # s
    BY <1>4, <2>1 DEF PatchLocation, TypeOK
  <2>2. CASE t = s
    <3>1. marks'[t][p] = IF p \in newly THEN marked' ELSE marks[s][p]
      BY <1>4, <2>2 DEF TypeOK
    <3>2. place'[t][p].on => p \in newly \/ place[t][p].on
      BY <1>1, <2>2 DEF PatchLocation, TypeOK
    <3> HIDE DEF newly
    <3> QED BY <1>2, <2>2, <3>1, <3>2
  <2> QED BY <2>1, <2>2
<1> QED BY <1>8, <1>9

LEMMA StartTyped ==
  ASSUME TypeOK, NEW r \in Requests, NEW p \in Phases, NEW roles \in SUBSET Managers,
         StartNotify(r, p, roles)
  PROVE  TypeOK'
<1>1. PICK found \in SUBSET Eligible(p) :
        Become(r, Serving(p, roles, {s \in found : Recipients(s, roles) # {}}))
  BY DEF StartNotify
<1>2. {s \in found : Recipients(s, roles) # {}} \in SUBSET Sites
  BY DEF Eligible
<1>3. req' \in [Requests -> Request]
  BY <1>1, <1>2, ServingTyped, BecomeTyped
<1>4. faults' \in 0..MaxFaults
  BY FaultTyped DEF StartNotify
<1>5. unmarked' \in [Requests -> SUBSET Sites]
  BY DEF StartNotify, TypeOK
<1> QED BY <1>3, <1>4, <1>5 DEF StartNotify, TypeOK

LEMMA EnqueueTyped ==
  ASSUME TypeOK, NEW r \in Requests, Enqueue(r), req[r].todo # {}
  PROVE  TypeOK'
<1> DEFINE q == req[r]
           s == Min(q.todo)
<1>1. q \in Request /\ s \in Sites /\ q.phase \in Phases /\ q.left \subseteq Addresses
  BY NextSite DEF TypeOK, Request
<1>2. PICK a \in q.left :
        /\ queue' \in {queue, Enqueued(q.phase, s, a)}
        /\ \/ Become(r, FollowingSite(q))
           \/ Become(r, [q EXCEPT !.left = q.left \ {a}])
           \/ Become(r, AfterFailure(q, q.left \ {a}))
  BY DEF Enqueue
<1> HIDE DEF q, s
<1>3. queue' \in [Phases -> [Sites -> [Addresses -> 0..MaxMarks]]]
  BY <1>1, <1>2, EnqueuedTyped DEF TypeOK
<1>4. req' \in [Requests -> Request]
  <2>1. q.left \ {a} \in SUBSET Addresses
    BY <1>1
  <2> QED BY <1>1, <1>2, <2>1, BecomeTyped, FollowingTyped, LeftTyped
<1>5. faults' \in 0..MaxFaults
  BY FaultTyped DEF Enqueue
<1> QED BY <1>3, <1>4, <1>5 DEF Enqueue, TypeOK

LEMMA StampTyped ==
  ASSUME TypeOK, NEW r \in Requests, Stamp(r), req[r].todo # {}
  PROVE  TypeOK'
<1>1. PICK q \in Request : q = req[r]
  BY DEF TypeOK
<1>2. PICK s \in Sites : s = Min(q.todo)
  BY <1>1, NextSite DEF Request
<1>3. place' \in [Sites -> [Phases -> Place]]
  <2>1. place' = place \/ place' = [place EXCEPT ![s][q.phase].notified = TRUE]
    BY <1>1, <1>2, Zenon DEF Stamp
  <2>2. q.phase \in Phases
    BY DEF Request
  <2> QED BY <2>1, <2>2, MarkedNotified DEF TypeOK
<1>4. told' \in [Sites -> [Phases -> SUBSET Addresses]]
  <2>1. told' = told \/ told' = [told EXCEPT ![s][q.phase] = Recipients(s, q.roles)]
    BY <1>1, <1>2, Zenon DEF Stamp
  <2>2. q.phase \in Phases /\ Recipients(s, q.roles) \in SUBSET Addresses
    BY RecipientsTyped DEF Request
  <2>3. told \in [Sites -> [Phases -> SUBSET Addresses]]
    BY DEF TypeOK
  <2> QED BY <2>1, <2>2, <2>3, Replaced
<1>5. late' \subseteq Sites
  <2>1. late' = late \/ late' = late \cup {s}
    BY <1>1, <1>2, Zenon DEF Stamp
  <2> QED BY <2>1 DEF TypeOK
<1>6. req' \in [Requests -> Request]
  BY <1>1, FollowingTyped, BecomeTyped DEF Stamp
<1>7. faults' \in 0..MaxFaults
  BY FaultTyped DEF Stamp
<1> QED BY <1>3, <1>4, <1>5, <1>6, <1>7 DEF Stamp, TypeOK

LEMMA EvictTyped == ASSUME TypeOK, NEW r \in Requests, Evict(r) PROVE TypeOK'
BY IdleTyped, BecomeTyped, FaultTyped DEF Evict, TypeOK

-----------------------------------------------------------------------------
\* What a Notify carries.

\* A site that is marked has been marked some time.
MarksCount == \A s \in Sites, p \in Phases : place[s][p].on => marks[s][p] # 0

\* The sites before a Notify were marked, and have somebody to be told.
Carried(r) ==
  LET q == req[r] IN
  q # Idle =>
    /\ q.todo # {}
    /\ \A s \in q.todo : marks[s][q.phase] # 0 /\ Recipients(s, q.roles) # {}

\* Unless a mail of its first site has failed, whom it has no longer to mail has
\* one; if one has failed there are others left.
Delivered(r) ==
  LET q == req[r]  s == Min(q.todo) IN
  q # Idle =>
    /\ q.failed => q.left # {}
    /\ ~q.failed => \A a \in Recipients(s, q.roles) \ q.left : queue[q.phase][s][a] # 0

\* A teardown's site no longer marked was un-marked under the Notify.
Watched(r) ==
  LET q == req[r] IN
  q.phase = "removal" => \A s \in q.todo : place[s]["removal"].on \/ s \in unmarked[r]

IInv ==
  /\ TypeOK /\ MarksCount
  /\ \A r \in Requests : Carried(r) /\ Delivered(r) /\ Watched(r)
  /\ StampedIsMailed /\ UnmarkedIsUnstamped

LEMMA InvInit == Init => IInv
<1> SUFFICES ASSUME Init PROVE IInv
  OBVIOUS
<1>1. MarksCount /\ StampedIsMailed /\ UnmarkedIsUnstamped
  BY DEF Init, Fresh, MarksCount, StampedIsMailed, UnmarkedIsUnstamped, Phases
<1>2. \A r \in Requests : Carried(r) /\ Delivered(r) /\ Watched(r)
  BY DEF Init, Idle, Carried, Delivered, Watched
<1> QED BY <1>1, <1>2, TypeInit DEF IInv

\* A request that starts with a site has what it carries.
LEMMA ServingCarries ==
  ASSUME TypeOK', NEW r \in Requests, NEW p \in Phases, NEW roles \in SUBSET Managers,
         NEW todo \in SUBSET Sites, req'[r] = Serving(p, roles, todo),
         \A s \in todo : marks'[s][p] # 0 /\ Recipients(s, roles) # {},
         p = "removal" => \A s \in todo : place'[s]["removal"].on \/ s \in unmarked'[r]
  PROVE  Carried(r)' /\ Delivered(r)' /\ Watched(r)'
<1>1. CASE todo = {}
  <2>1. req'[r] = Idle
    BY <1>1 DEF Serving
  <2> QED BY <2>1 DEF Carried, Delivered, Watched, Idle
<1>2. CASE todo # {}
  <2>1. /\ req'[r].phase = p /\ req'[r].roles = roles /\ req'[r].todo = todo
        /\ req'[r].left = Recipients(Min(todo), roles) /\ req'[r].failed = FALSE
    BY <1>2 DEF Serving
  <2>2. Carried(r)'
    BY <1>2, <2>1 DEF Carried, Recipients
  <2>3. Delivered(r)'
    BY <2>1 DEF Delivered, Recipients
  <2>4. Watched(r)'
    BY <2>1 DEF Watched
  <2> QED BY <2>2, <2>3, <2>4
<1> QED BY <1>1, <1>2

\* A request that does not move keeps what it carries, when no mark and no mail is
\* taken back and a site un-marked is noted.
LEMMA OthersKeep ==
  ASSUME IInv, NEW t \in Requests, req'[t] = req[t],
         \A s \in Sites, p \in Phases : marks[s][p] # 0 => marks'[s][p] # 0,
         \A p \in Phases, s \in Sites, a \in Addresses : queue[p][s][a] # 0 => queue'[p][s][a] # 0,
         req[t].phase = "removal" =>
           \A s \in req[t].todo : place[s]["removal"].on \/ s \in unmarked[t] =>
                                    place'[s]["removal"].on \/ s \in unmarked'[t]
  PROVE  Carried(t)' /\ Delivered(t)' /\ Watched(t)'
<1> DEFINE q == req[t]
<1>1. q \in Request /\ q.todo \subseteq Sites /\ q.phase \in Phases /\ q.roles \in SUBSET Managers
  BY DEF IInv, TypeOK, Request
<1>2. Carried(t) /\ Delivered(t) /\ Watched(t)
  BY DEF IInv
<1>3. Carried(t)'
  BY <1>1, <1>2 DEF Carried, Recipients
<1>4. Delivered(t)'
  <2>1. q # Idle => Min(q.todo) \in Sites /\ Recipients(Min(q.todo), q.roles) \subseteq Addresses
    BY <1>1, <1>2, NextSite, RecipientsTyped DEF Carried
  <2> QED BY <1>1, <1>2, <2>1 DEF Delivered, Recipients
<1>5. Watched(t)'
  BY <1>1, <1>2 DEF Watched
<1> QED BY <1>3, <1>4, <1>5

LEMMA PatchStep ==
  ASSUME IInv, NEW s \in Sites, NEW flags \in Flags, PatchLocation(s, flags)
  PROVE  IInv'
<1> DEFINE given == DOMAIN flags
<1>1. TypeOK' /\ UNCHANGED <<queue, req>>
  BY PatchTyped DEF IInv, PatchLocation
<1>2. \A t \in Sites, p \in Phases :
        /\ marks[t][p] # 0 => marks'[t][p] # 0
        /\ place'[t][p].on => marks'[t][p] # 0 \/ place[t][p].on
  BY PatchTyped DEF IInv
<1>3. MarksCount'
  BY <1>2 DEF IInv, MarksCount
<1>4. given \subseteq Phases /\ \A p \in given : flags[p] \in BOOLEAN
  BY DEF Flags
<1>5. \A t \in Sites \ {s} : place'[t] = place[t] /\ told'[t] = told[t]
  BY DEF PatchLocation, IInv, TypeOK
<1>6. \A p \in Phases :
        /\ p \notin given => place'[s][p] = place[s][p]
        /\ p \in given => place'[s][p] = [on |-> flags[p],
                            notified |-> place[s][p].notified /\ ~Clears(p, flags[p])]
        /\ told'[s][p] = IF place'[s][p].notified THEN told[s][p] ELSE {}
  BY DEF PatchLocation, IInv, TypeOK
<1>7. ASSUME NEW p \in Phases
      PROVE  /\ place'[s][p].notified => place[s][p].notified
             /\ p \in given => place'[s][p].on = flags[p]
             /\ p = "removal" /\ p \in given /\ place'[s][p].notified => place'[s][p].on
             /\ p \notin given => place'[s][p] = place[s][p]
  <2>1. CASE p \notin given
    BY <1>6, <2>1
  <2>2. CASE p \in given
    <3>1. /\ place'[s][p].on = flags[p]
          /\ place'[s][p].notified = (place[s][p].notified /\ ~Clears(p, flags[p]))
      <4> DEFINE n == place[s][p].notified /\ ~Clears(p, flags[p])
      <4>1. place'[s][p] = [on |-> flags[p], notified |-> n]
        BY <1>6, <2>2
      <4> HIDE DEF n
      <4>2. place'[s][p].on = flags[p] /\ place'[s][p].notified = n
        BY <4>1
      <4> QED BY <4>2 DEF n
    <3>2. flags[p] \in BOOLEAN
      BY <1>4, <2>2
    <3> QED BY <2>2, <3>1, <3>2, Zenon DEF Clears
  <2> QED BY <2>1, <2>2
<1>8. StampedIsMailed'
  <2>1. ASSUME NEW t \in Sites, NEW p \in Phases, place'[t][p].notified
        PROVE  place[t][p].notified /\ told'[t][p] = told[t][p]
    <3>1. CASE t # s
      BY <1>5, <2>1, <3>1
    <3>2. CASE t = s
      BY <1>6, <1>7, <2>1, <3>2
    <3> QED BY <3>1, <3>2
  <2> QED BY <1>1, <2>1 DEF IInv, StampedIsMailed
<1>9. UnmarkedIsUnstamped'
  <2>1. \A t \in Sites \ {s} : t \in late => t \in late'
    BY DEF PatchLocation
  <2>2. place'[s]["removal"].notified => (s \in late => s \in late')
    BY DEF PatchLocation
  <2>3. "removal" \in Phases
    BY DEF Phases
  <2>4. CASE "removal" \in given
    <3>1. place'[s]["removal"].notified => place'[s]["removal"].on
      BY <1>7, <2>3, <2>4
    <3> QED BY <1>5, <2>1, <3>1 DEF IInv, UnmarkedIsUnstamped
  <2>5. CASE "removal" \notin given
    BY <1>5, <1>6, <2>1, <2>2, <2>3, <2>5 DEF IInv, UnmarkedIsUnstamped
  <2> QED BY <2>4, <2>5
<1>10. ASSUME NEW t \in Requests PROVE Carried(t)' /\ Delivered(t)' /\ Watched(t)'
  <2>1. ASSUME req[t].phase = "removal", NEW x \in req[t].todo,
               place[x]["removal"].on \/ x \in unmarked[t]
        PROVE  place'[x]["removal"].on \/ x \in unmarked'[t]
    <3>1. x \in Sites /\ "removal" \in Phases /\ req[t] # Idle
      BY <2>1 DEF IInv, TypeOK, Request, Phases, Idle
    <3>2. unmarked[t] \subseteq unmarked'[t]
      BY DEF PatchLocation
    <3>3. CASE x # s
      BY <1>5, <2>1, <3>1, <3>2, <3>3
    <3>4. CASE x = s /\ "removal" \notin given
      BY <1>6, <2>1, <3>1, <3>2, <3>4
    <3>5. CASE x = s /\ "removal" \in given /\ flags["removal"]
      BY <1>7, <3>1, <3>5
    <3>6. CASE x = s /\ "removal" \in given /\ ~flags["removal"]
      BY <2>1, <3>1, <3>6 DEF PatchLocation
    <3> QED BY <3>3, <3>4, <3>5, <3>6
  <2> QED BY <1>1, <1>2, <2>1, OthersKeep
<1> QED BY <1>1, <1>3, <1>8, <1>9, <1>10 DEF IInv

LEMMA StartStep ==
  ASSUME IInv, NEW r \in Requests, NEW p \in Phases, NEW roles \in SUBSET Managers,
         StartNotify(r, p, roles)
  PROVE  IInv'
<1>1. TypeOK /\ TypeOK' /\ UNCHANGED <<place, queue, marked, marks, told, late>>
  BY StartTyped DEF IInv, StartNotify
<1>2. PICK found \in SUBSET Eligible(p) :
        Become(r, Serving(p, roles, {s \in found : Recipients(s, roles) # {}}))
  BY DEF StartNotify
<1> DEFINE todo == {s \in found : Recipients(s, roles) # {}}
<1>3. todo \in SUBSET Sites /\ \A s \in todo : place[s][p].on /\ Recipients(s, roles) # {}
  BY DEF Eligible
<1>4. Become(r, Serving(p, roles, todo))
  BY <1>2
<1> HIDE DEF todo
<1>5. req'[r] = Serving(p, roles, todo) /\ \A t \in Requests \ {r} : req'[t] = req[t]
  BY <1>1, <1>3, <1>4, ServingTyped, BecomeTyped
<1>6. Carried(r)' /\ Delivered(r)' /\ Watched(r)'
  <2>1. \A s \in todo : marks'[s][p] # 0 /\ Recipients(s, roles) # {}
    BY <1>1, <1>3 DEF IInv, MarksCount
  <2>2. p = "removal" => \A s \in todo : place'[s]["removal"].on \/ s \in unmarked'[r]
    BY <1>1, <1>3
  <2> QED BY <1>1, <1>3, <1>5, <2>1, <2>2, ServingCarries
<1>7. ASSUME NEW t \in Requests \ {r} PROVE Carried(t)' /\ Delivered(t)' /\ Watched(t)'
  <2>1. unmarked'[t] = unmarked[t]
    BY DEF StartNotify, IInv, TypeOK
  <2> QED BY <1>1, <1>5, <2>1, OthersKeep
<1>8. MarksCount' /\ StampedIsMailed' /\ UnmarkedIsUnstamped'
  BY <1>1 DEF IInv, MarksCount, StampedIsMailed, UnmarkedIsUnstamped
<1> QED BY <1>1, <1>6, <1>7, <1>8 DEF IInv

\* After its first site, a request has what it carries for the next.
LEMMA FollowingCarries ==
  ASSUME IInv, TypeOK', NEW r \in Requests, req[r] # Idle,
         req'[r] = FollowingSite(req[r]), UNCHANGED <<marks, unmarked>>,
         \A s \in Sites : place'[s]["removal"].on = place[s]["removal"].on
  PROVE  Carried(r)' /\ Delivered(r)' /\ Watched(r)'
<1> DEFINE q == req[r]
           todo == q.todo \ {Min(q.todo)}
<1>1. q.phase \in Phases /\ q.roles \in SUBSET Managers /\ todo \in SUBSET Sites
  BY DEF IInv, TypeOK, Request
<1>2. \A s \in todo : marks'[s][q.phase] # 0 /\ Recipients(s, q.roles) # {}
  BY DEF IInv, Carried
<1>3. q.phase = "removal" => \A s \in todo : place'[s]["removal"].on \/ s \in unmarked'[r]
  BY <1>1 DEF IInv, Watched
<1>4. req'[r] = Serving(q.phase, q.roles, todo)
  BY DEF FollowingSite
<1> HIDE DEF q, todo
<1> QED BY <1>1, <1>2, <1>3, <1>4, ServingCarries

\* The request goes on with the same site: one recipient fewer, told or failed.
LEMMA SameSiteCarries ==
  ASSUME IInv, NEW r \in Requests, req[r] # Idle, NEW rest, NEW failed \in BOOLEAN,
         req'[r] = [req[r] EXCEPT !.left = rest, !.failed = failed],
         UNCHANGED <<place, marks, unmarked>>,
         failed => rest # {},
         ~failed => \A a \in Recipients(Min(req[r].todo), req[r].roles) \ rest :
                      queue'[req[r].phase][Min(req[r].todo)][a] # 0
  PROVE  Carried(r)' /\ Delivered(r)' /\ Watched(r)'
<1>1. /\ req'[r].todo = req[r].todo /\ req'[r].roles = req[r].roles
      /\ req'[r].phase = req[r].phase /\ req'[r].left = rest /\ req'[r].failed = failed
  BY DEF IInv, TypeOK, Request
<1>2. Carried(r)'
  BY <1>1 DEF IInv, Carried, Recipients
<1>3. Delivered(r)'
  BY <1>1 DEF Delivered, Recipients
<1>4. Watched(r)'
  BY <1>1 DEF IInv, Watched
<1> QED BY <1>2, <1>3, <1>4

LEMMA EnqueueStep ==
  ASSUME IInv, NEW r \in Requests, Enqueue(r)
  PROVE  IInv'
<1>1. PICK q \in Request : q = req[r]
  BY DEF IInv, TypeOK
<1>2. q # Idle /\ q.todo # {}
  BY <1>1 DEF Enqueue, IInv, Carried
<1>3. PICK s \in q.todo : s = Min(q.todo)
  BY <1>2, NextSite DEF Request
<1>4. /\ TypeOK /\ TypeOK' /\ UNCHANGED <<place, marked, marks, told, unmarked, late>>
      /\ s \in Sites /\ q.phase \in Phases /\ marks[s][q.phase] # 0
  BY <1>1, <1>2, <1>3, EnqueueTyped DEF IInv, Enqueue, Carried, Request
<1>5. PICK a \in q.left :
        \/ /\ queue' = Enqueued(q.phase, s, a)
           /\ Become(r, IF q.left \ {a} = {} /\ q.failed THEN FollowingSite(q)
                        ELSE [q EXCEPT !.left = q.left \ {a}])
        \/ /\ queue' \in {queue, Enqueued(q.phase, s, a)}
           /\ Become(r, AfterFailure(q, q.left \ {a}))
  BY <1>1, <1>3 DEF Enqueue
<1> DEFINE rest == q.left \ {a}
<1>6. a \in Addresses /\ rest \in SUBSET Addresses
  BY DEF Request
<1>7. \A p \in Phases, t \in Sites, b \in Addresses : queue[p][t][b] # 0 => queue'[p][t][b] # 0
  BY <1>4, <1>5, <1>6, EnqueuedKeeps
<1>8. queue' = Enqueued(q.phase, s, a) => queue'[q.phase][s][a] # 0
  BY <1>4, <1>6, EnqueuedIsThere
<1>9. ASSUME NEW n \in Request, Become(r, n)
      PROVE  req'[r] = n /\ \A t \in Requests \ {r} : req'[t] = req[t]
  BY <1>4, <1>9, BecomeTyped
<1>10. FollowingSite(q) \in Request /\ [q EXCEPT !.left = rest] \in Request
       /\ [q EXCEPT !.left = rest, !.failed = TRUE] \in Request
  BY <1>6, FollowingTyped DEF Request
<1>11. \/ Become(r, FollowingSite(q))
       \/ /\ queue' = Enqueued(q.phase, s, a) /\ (q.failed => rest # {})
          /\ Become(r, [q EXCEPT !.left = rest])
       \/ rest # {} /\ Become(r, [q EXCEPT !.left = rest, !.failed = TRUE])
  BY <1>5 DEF AfterFailure
<1>12. /\ Carried(r)' /\ Delivered(r)' /\ Watched(r)'
       /\ \A t \in Requests \ {r} : req'[t] = req[t]
  <2>1. CASE Become(r, FollowingSite(q))
    <3>1. req'[r] = FollowingSite(q) /\ \A t \in Requests \ {r} : req'[t] = req[t]
      BY <1>9, <1>10, <2>1
    <3> HIDE DEF rest
    <3> QED BY <1>1, <1>2, <1>4, <3>1, FollowingCarries
  <2>2. CASE /\ queue' = Enqueued(q.phase, s, a) /\ (q.failed => rest # {})
             /\ Become(r, [q EXCEPT !.left = rest])
    <3>1. req'[r] = [q EXCEPT !.left = rest] /\ \A t \in Requests \ {r} : req'[t] = req[t]
      BY <1>9, <1>10, <2>2
    <3>2. q.failed \in BOOLEAN /\ req'[r] = [q EXCEPT !.left = rest, !.failed = q.failed]
      BY <3>1 DEF Request
    <3>3. ~q.failed => \A b \in Recipients(s, q.roles) \ rest : queue'[q.phase][s][b] # 0
      <4>1. ASSUME ~q.failed, NEW b \in Recipients(s, q.roles) \ q.left
            PROVE  queue[q.phase][s][b] # 0 /\ b \in Addresses
        <5>1. q.roles \in SUBSET Managers
          BY DEF Request
        <5> QED BY <1>1, <1>2, <1>3, <1>4, <4>1, <5>1, RecipientsTyped DEF IInv, Delivered
      <4> QED BY <1>4, <1>7, <1>8, <2>2, <4>1
    <3> HIDE DEF rest
    <3> QED BY <1>1, <1>2, <1>3, <1>4, <2>2, <3>1, <3>2, <3>3, SameSiteCarries
  <2>3. CASE rest # {} /\ Become(r, [q EXCEPT !.left = rest, !.failed = TRUE])
    <3>1. /\ req'[r] = [q EXCEPT !.left = rest, !.failed = TRUE]
          /\ \A t \in Requests \ {r} : req'[t] = req[t]
      BY <1>9, <1>10, <2>3
    <3> HIDE DEF rest
    <3> QED BY <1>1, <1>2, <1>4, <2>3, <3>1, SameSiteCarries
  <2> QED BY <1>11, <2>1, <2>2, <2>3
<1>13. ASSUME NEW t \in Requests \ {r} PROVE Carried(t)' /\ Delivered(t)' /\ Watched(t)'
  BY <1>4, <1>7, <1>12, OthersKeep
<1>14. MarksCount' /\ UnmarkedIsUnstamped'
  BY <1>4 DEF IInv, MarksCount, UnmarkedIsUnstamped
<1>15. StampedIsMailed'
  BY <1>4, <1>7 DEF IInv, StampedIsMailed, TypeOK
<1> QED BY <1>4, <1>12, <1>13, <1>14, <1>15 DEF IInv

LEMMA StampStep ==
  ASSUME IInv, NEW r \in Requests, Stamp(r)
  PROVE  IInv'
<1>1. PICK q \in Request : q = req[r]
  BY DEF IInv, TypeOK
<1>2. q # Idle /\ q.todo # {} /\ q.left = {} /\ ~q.failed
  BY <1>1 DEF Stamp, IInv, Carried, Delivered
<1>3. PICK s \in q.todo : s = Min(q.todo)
  BY <1>2, NextSite DEF Request
<1>4. /\ TypeOK /\ TypeOK' /\ UNCHANGED <<queue, marked, marks, unmarked>>
      /\ s \in Sites /\ q.phase \in Phases /\ q.roles \in SUBSET Managers
  BY <1>1, <1>2, <1>3, StampTyped DEF IInv, Stamp, Request
<1>5. req'[r] = FollowingSite(q) /\ \A t \in Requests \ {r} : req'[t] = req[t]
  BY <1>1, <1>4, FollowingTyped, BecomeTyped DEF Stamp
<1>6. \/ UNCHANGED <<place, told, late>>
      \/ /\ place' = [place EXCEPT ![s][q.phase].notified = TRUE]
         /\ told' = [told EXCEPT ![s][q.phase] = Recipients(s, q.roles)]
         /\ late' = IF s \in unmarked[r] THEN late \cup {s} ELSE late
  BY <1>1, <1>3, Zenon DEF Stamp
<1>7. \A t \in Sites, p \in Phases : place'[t][p].on = place[t][p].on
  BY <1>4, <1>6, MarkedNotified
<1>8. \A t \in Sites : place'[t]["removal"].on = place[t]["removal"].on
  BY <1>7 DEF Phases
<1>9. Carried(r)' /\ Delivered(r)' /\ Watched(r)'
  BY <1>1, <1>2, <1>4, <1>5, <1>8, FollowingCarries
<1>10. ASSUME NEW t \in Requests \ {r} PROVE Carried(t)' /\ Delivered(t)' /\ Watched(t)'
  <2>1. req[t].todo \subseteq Sites
    BY <1>4 DEF TypeOK, Request
  <2> QED BY <1>4, <1>5, <1>8, <2>1, OthersKeep
<1>11. MarksCount'
  BY <1>4, <1>7 DEF IInv, MarksCount
<1>12. StampedIsMailed' /\ UnmarkedIsUnstamped'
  <2>1. CASE UNCHANGED <<place, told, late>>
    BY <1>4, <2>1 DEF IInv, StampedIsMailed, UnmarkedIsUnstamped
  <2>2. CASE /\ place' = [place EXCEPT ![s][q.phase].notified = TRUE]
             /\ told' = [told EXCEPT ![s][q.phase] = Recipients(s, q.roles)]
             /\ late' = IF s \in unmarked[r] THEN late \cup {s} ELSE late
    <3>1. \A t \in Sites, p \in Phases : t # s \/ p # q.phase => place'[t][p] = place[t][p]
      BY <1>4, <2>2, MarkedNotified
    <3>2. /\ told'[s][q.phase] = Recipients(s, q.roles)
          /\ \A t \in Sites, p \in Phases : t # s \/ p # q.phase => told'[t][p] = told[t][p]
      <4>1. told \in [Sites -> [Phases -> SUBSET Addresses]]
            /\ Recipients(s, q.roles) \in SUBSET Addresses
        BY <1>4, RecipientsTyped DEF TypeOK
      <4> QED BY <1>4, <2>2, <4>1, Replaced
    <3>3. /\ Recipients(s, q.roles) # {}
          /\ \A a \in Recipients(s, q.roles) : queue[q.phase][s][a] # 0
      BY <1>1, <1>2, <1>3 DEF IInv, Carried, Delivered
    <3>4. StampedIsMailed'
      BY <1>4, <3>1, <3>2, <3>3 DEF IInv, StampedIsMailed
    <3>5. q.phase = "removal" => place[s]["removal"].on \/ s \in unmarked[r]
      BY <1>1, <1>3 DEF IInv, Watched
    <3>6. late \subseteq late' /\ (s \in unmarked[r] => s \in late')
      BY <2>2
    <3>7. "removal" \in Phases
      BY DEF Phases
    <3>8. ASSUME NEW t \in Sites, place'[t]["removal"].notified, ~place'[t]["removal"].on
          PROVE  t \in late'
      <4>1. CASE t = s /\ q.phase = "removal"
        BY <1>8, <3>5, <3>6, <3>8, <4>1
      <4>2. CASE t # s \/ q.phase # "removal"
        BY <3>1, <3>6, <3>7, <3>8, <4>2 DEF IInv, UnmarkedIsUnstamped
      <4> QED BY <4>1, <4>2
    <3>9. UnmarkedIsUnstamped'
      BY <3>8 DEF UnmarkedIsUnstamped
    <3> QED BY <3>4, <3>9
  <2> QED BY <1>6, <2>1, <2>2
<1> QED BY <1>4, <1>9, <1>10, <1>11, <1>12 DEF IInv

LEMMA EvictStep ==
  ASSUME IInv, NEW r \in Requests, Evict(r)
  PROVE  IInv'
<1>1. TypeOK /\ TypeOK' /\ UNCHANGED <<place, queue, marked, marks, told, unmarked, late>>
  BY EvictTyped DEF IInv, Evict
<1>2. req'[r] = Idle /\ \A t \in Requests \ {r} : req'[t] = req[t]
  BY <1>1, IdleTyped, BecomeTyped DEF Evict
<1>3. Carried(r)' /\ Delivered(r)' /\ Watched(r)'
  BY <1>2 DEF Carried, Delivered, Watched, Idle
<1>4. ASSUME NEW t \in Requests \ {r} PROVE Carried(t)' /\ Delivered(t)' /\ Watched(t)'
  BY <1>1, <1>2, OthersKeep
<1>5. MarksCount' /\ StampedIsMailed' /\ UnmarkedIsUnstamped'
  BY <1>1 DEF IInv, MarksCount, StampedIsMailed, UnmarkedIsUnstamped
<1> QED BY <1>1, <1>3, <1>4, <1>5 DEF IInv

LEMMA InvStep == IInv /\ [Next]_vars => IInv'
<1> SUFFICES ASSUME IInv, [Next]_vars PROVE IInv'
  OBVIOUS
<1>1. CASE UNCHANGED vars
  BY <1>1 DEF vars, IInv, TypeOK, MarksCount, Carried, Delivered, Watched, StampedIsMailed,
       UnmarkedIsUnstamped, Recipients
<1> QED BY <1>1, PatchStep, StartStep, EnqueueStep, StampStep, EvictStep DEF Next

\* Every variable keeps to its type, whatever the marks, requests and faults.
THEOREM TypeCorrect == Spec => []TypeOK
<1>1. IInv => TypeOK
  BY DEF IInv
<1> QED BY InvInit, InvStep, <1>1, PTL DEF Spec

\* A stamp is written only when everybody it stands for has a mail in the queue.
THEOREM StampsAreMailed == Spec => []StampedIsMailed
<1>1. IInv => StampedIsMailed
  BY DEF IInv
<1> QED BY InvInit, InvStep, <1>1, PTL DEF Spec

\* A stamp on a site that is not torn down is a Notify's that overran the
\* un-marking.
THEOREM UnmarkedUnstamped == Spec => []UnmarkedIsUnstamped
<1>1. IInv => UnmarkedIsUnstamped
  BY DEF IInv
<1> QED BY InvInit, InvStep, <1>1, PTL DEF Spec

-----------------------------------------------------------------------------
\* The ticket: the type invariant.

TicketRead == [op : {"ticket"}, what : Writes, seen : Statuses, staffed : BOOLEAN, dated : BOOLEAN]
AssignRead == [op : {"assign"}, who : Users, seen : Statuses, staffed : BOOLEAN, dated : BOOLEAN]
StatusRead == [op : {"status"}, to : Statuses]
Advancing == [op |-> "advance"]

LEMMA Requested ==
  ASSUME NEW q \in Call
  PROVE  /\ q.op = "ticket" => q \in TicketRead
         /\ q.op = "assign" => q \in AssignRead
         /\ q.op = "status" => q \in StatusRead
         /\ q.op = "advance" => q = Advancing
         /\ q.op = "idle" => q = NoCall
         /\ q.op \in {"ticket", "assign", "status", "advance", "idle"}
BY DEF Call, TicketRead, AssignRead, StatusRead, Advancing, NoCall

LEMMA RequestForms ==
  /\ NoCall \in Call /\ Advancing \in Call
  /\ TicketRead \cup AssignRead \cup StatusRead \subseteq Call
BY DEF Call, TicketRead, AssignRead, StatusRead, Advancing

LEMMA ChangingTyped == Changing \subseteq Calls
BY DEF Changing

LEMMA TicketBecomes ==
  ASSUME TicketTypeOK, NEW r \in Calls, NEW q \in Call, Proceed(r, q)
  PROVE  /\ call' \in [Calls -> Call]
         /\ call'[r] = q
         /\ \A t \in Calls \ {r} : call'[t] = call[t]
BY DEF TicketTypeOK, Proceed

LEMMA EvaluateTyped ==
  ASSUME TicketTypeOK, NEW r \in Calls, NEW seen, NEW staffed, NEW dated,
         Evaluate(r, seen, staffed, dated)
  PROVE  call' \in [Calls -> Call] /\ excuses' \subseteq {"race", "fault", "hand"}
<1>1. CASE Due(seen, staffed, dated)
  BY <1>1, TicketBecomes, RequestForms DEF Evaluate, Advancing, TicketTypeOK
<1>2. CASE ~Due(seen, staffed, dated)
  <2>1. Proceed(r, NoCall) /\ excuses' \in {excuses \cup {"race"}, excuses}
    BY <1>2 DEF Evaluate
  <2> QED BY <2>1, TicketBecomes, RequestForms DEF TicketTypeOK
<1> QED BY <1>1, <1>2

LEMMA TicketFaults == TicketTypeOK /\ (Mishap \/ UNCHANGED mishaps) => mishaps' \in 0..MaxMishaps
BY FaultsAssumption DEF TicketTypeOK, Mishap

LEMMA AbortTyped ==
  ASSUME TicketTypeOK, NEW r \in Calls, Abort(r)
  PROVE  /\ call' \in [Calls -> Call] /\ excuses' \subseteq {"race", "fault", "hand"}
         /\ mishaps' \in 0..MaxMishaps
<1>1. Proceed(r, NoCall) /\ Mishap /\ excuses' \in {excuses \cup {"fault"}, excuses}
  BY DEF Abort
<1> QED BY <1>1, TicketBecomes, RequestForms, TicketFaults DEF TicketTypeOK

LEMMA TicketTypeInit == TicketInit => TicketTypeOK
<1> SUFFICES ASSUME TicketInit PROVE TicketTypeOK
  OBVIOUS
<1>1. status \in Statuses /\ ready \in BOOLEAN /\ team \subseteq Users
  BY StatusesAssumption DEF TicketInit
<1>2. call \in [Calls -> Call]
  BY RequestForms DEF TicketInit
<1>3. mishaps \in 0..MaxMishaps
  BY FaultsAssumption DEF TicketInit
<1>4. stale \subseteq Calls /\ excuses \subseteq {"race", "fault", "hand"}
  BY DEF TicketInit
<1> QED BY <1>1, <1>2, <1>3, <1>4 DEF TicketTypeOK

LEMMA TicketTypeStep == TicketTypeOK /\ [TicketNext]_ticketVars => TicketTypeOK'
<1> SUFFICES ASSUME TicketTypeOK, [TicketNext]_ticketVars PROVE TicketTypeOK'
  OBVIOUS
<1>0. CASE UNCHANGED ticketVars
  BY <1>0 DEF ticketVars, promo, TicketTypeOK
<1>1. CASE \E who \in Users : RemoveAssignee(who)
  BY <1>1, ChangingTyped DEF RemoveAssignee, TicketTypeOK
<1>2. ASSUME NEW r \in Calls, NEW what \in Writes, ReadTicket(r, what) PROVE TicketTypeOK'
  <2>1. [op |-> "ticket", what |-> what, seen |-> status,
         staffed |-> team # {}, dated |-> ready] \in TicketRead
    BY DEF TicketTypeOK, TicketRead
  <2> QED BY <1>2, <2>1, TicketBecomes, RequestForms DEF ReadTicket, TicketTypeOK,
               promo
<1>3. ASSUME NEW r \in Calls, NEW who \in Users, ReadAssignees(r, who) PROVE TicketTypeOK'
  <2>1. [op |-> "assign", who |-> who, seen |-> status,
         staffed |-> team # {}, dated |-> ready] \in AssignRead
    BY DEF TicketTypeOK, AssignRead
  <2> QED BY <1>3, <2>1, TicketBecomes, RequestForms DEF ReadAssignees, TicketTypeOK,
               promo
<1>4. ASSUME NEW r \in Calls, NEW to \in Statuses, ReadStatus(r, to) PROVE TicketTypeOK'
  <2>1. [op |-> "status", to |-> to] \in StatusRead
    BY DEF StatusRead
  <2> QED BY <1>4, <2>1, TicketBecomes, RequestForms DEF ReadStatus, TicketTypeOK,
               promo
<1>5. ASSUME NEW r \in Calls, WriteTicket(r) PROVE TicketTypeOK'
  <2>1. call[r] \in Call
    BY DEF TicketTypeOK
  <2>2. call[r] \in TicketRead
    BY <1>5, <2>1, Requested DEF WriteTicket
  <2>3. ready' \in BOOLEAN /\ stale' \subseteq Calls
    BY <1>5, <2>2, ChangingTyped DEF WriteTicket, TicketTypeOK, Overtakes
  <2>4. /\ call' \in [Calls -> Call] /\ excuses' \subseteq {"race", "fault", "hand"}
        /\ mishaps' \in 0..MaxMishaps
    BY <1>5, EvaluateTyped, AbortTyped, TicketFaults DEF WriteTicket
  <2> QED BY <1>5, <2>3, <2>4 DEF WriteTicket, TicketTypeOK
<1>6. ASSUME NEW r \in Calls, AddAssignee(r) PROVE TicketTypeOK'
  <2>1. call[r] \in AssignRead
    BY <1>6, Requested DEF AddAssignee, TicketTypeOK
  <2>2. team' \subseteq Users /\ stale' \subseteq Calls
    BY <1>6, <2>1, ChangingTyped DEF AddAssignee, TicketTypeOK, Overtakes,
         AssignRead
  <2>3. /\ call' \in [Calls -> Call] /\ excuses' \subseteq {"race", "fault", "hand"}
        /\ mishaps' \in 0..MaxMishaps
    <3>1. CASE UNCHANGED excuses /\ Proceed(r, NoCall) /\ UNCHANGED mishaps
      BY <3>1, TicketBecomes, RequestForms, TicketFaults DEF TicketTypeOK
    <3> QED BY <1>6, <3>1, EvaluateTyped, AbortTyped, TicketFaults DEF AddAssignee
  <2> QED BY <1>6, <2>2, <2>3 DEF AddAssignee, TicketTypeOK
<1>7. ASSUME NEW r \in Calls, WriteStatus(r) PROVE TicketTypeOK'
  <2>1. call[r] \in StatusRead
    BY <1>7, Requested DEF WriteStatus, TicketTypeOK
  <2>2. status' \in Statuses /\ stale' \subseteq Calls /\ excuses' \subseteq {"race", "fault", "hand"}
    BY <1>7, <2>1, ChangingTyped DEF WriteStatus, TicketTypeOK, Overtakes,
         StatusRead
  <2>3. call' \in [Calls -> Call] /\ mishaps' \in 0..MaxMishaps
    BY <1>7, TicketBecomes, RequestForms, TicketFaults DEF WriteStatus
  <2> QED BY <1>7, <2>2, <2>3 DEF WriteStatus, TicketTypeOK
<1>8. ASSUME NEW r \in Calls, Advance(r) PROVE TicketTypeOK'
  <2>1. status' \in Statuses /\ stale' \subseteq Calls
    BY <1>8, ChangingTyped, StatusesAssumption DEF Advance, TicketTypeOK, Overtakes
  <2>2. /\ call' \in [Calls -> Call] /\ excuses' \subseteq {"race", "fault", "hand"}
        /\ mishaps' \in 0..MaxMishaps
    BY <1>8, TicketBecomes, RequestForms, AbortTyped, TicketFaults DEF Advance
  <2> QED BY <1>8, <2>1, <2>2 DEF Advance, TicketTypeOK
<1>9. ASSUME NEW r \in Calls, EvictTicket(r) PROVE TicketTypeOK'
  BY <1>9, AbortTyped DEF EvictTicket, TicketTypeOK, promo
<1> QED BY <1>0, <1>1, <1>2, <1>3, <1>4, <1>5, <1>6, <1>7, <1>8, <1>9 DEF TicketNext

\* Every variable keeps to its type, whatever the requests and the faults.
THEOREM TicketTyped == TicketSpec => []TicketTypeOK
<1> QED BY TicketTypeInit, TicketTypeStep, PTL DEF TicketSpec

-----------------------------------------------------------------------------
\* What a request knows.

\* A request nobody has written under since it read still knows the promotion.
ReadsAreCurrent ==
  \A r \in Calls \ stale :
    call[r].op \in {"ticket", "assign"} =>
      /\ call[r].seen = status
      /\ call[r].staffed = (team # {})
      /\ call[r].dated = ready

\* One that is to write the advance, and nobody has written under, is right to.
AdvancesAreDue ==
  \A r \in Calls \ stale : call[r].op = "advance" => Due(status, team # {}, ready)

\* A promotion that is due is being advanced, or there is an excuse.
DueIsPending ==
  Due(status, team # {}, ready) /\ excuses = {} => \E r \in Calls : call[r].op = "advance"

TicketInv == TicketTypeOK /\ ReadsAreCurrent /\ AdvancesAreDue /\ DueIsPending

LEMMA Implied == TicketInv => AdvanceIsNotMissed
BY DEF TicketInv, DueIsPending, AdvanceIsNotMissed, Waiting, Changing,
     Due

LEMMA TicketInvInit == TicketInit => TicketInv
<1>1. TicketInit => ReadsAreCurrent /\ AdvancesAreDue
  BY DEF TicketInit, NoCall, ReadsAreCurrent, AdvancesAreDue
<1>2. TicketInit => DueIsPending
  BY DEF TicketInit, DueIsPending, Due
<1> QED BY <1>1, <1>2, TicketTypeInit DEF TicketInv

\* A write makes every other request that has read stale.
LEMMA Overtaken ==
  ASSUME NEW r \in Calls, Overtakes(r), NEW t \in Calls \ {r}, call'[t] = call[t], t \notin stale'
  PROVE  call'[t].op \notin {"ticket", "assign", "advance"}
BY DEF Overtakes, Changing

\* What Evaluate makes of a request that knows, or has just written, what the
\* promotion is.
LEMMA Evaluated ==
  ASSUME TicketTypeOK, NEW r \in Calls, NEW seen, NEW staffed, NEW dated,
         Evaluate(r, seen, staffed, dated), r \in stale \/ Due(seen, staffed,
         dated) = IsDueNow,
         stale' \cap {r} = stale \cap {r}
  PROVE  /\ call'[r] \in {NoCall, Advancing}
         /\ \A t \in Calls \ {r} : call'[t] = call[t]
         /\ r \notin stale' /\ call'[r].op = "advance" => IsDueNow
         /\ DueIsPending'
<1>1. CASE Due(seen, staffed, dated)
  <2>1. call'[r] = Advancing /\ \A t \in Calls \ {r} : call'[t] = call[t]
    BY <1>1, TicketBecomes, RequestForms DEF Evaluate, Advancing
  <2>2. DueIsPending'
    BY <2>1 DEF DueIsPending, Advancing
  <2> QED BY <1>1, <2>1, <2>2
<1>2. CASE ~Due(seen, staffed, dated)
  <2>1. call'[r] = NoCall /\ \A t \in Calls \ {r} : call'[t] = call[t]
    BY <1>2, TicketBecomes, RequestForms DEF Evaluate
  <2>2. IsDueNow => excuses' # {}
    BY <1>2 DEF Evaluate
  <2>3. DueIsPending'
    BY <2>2 DEF DueIsPending, IsDueNow
  <2> QED BY <2>1, <2>3 DEF NoCall
<1> QED BY <1>1, <1>2

LEMMA Aborted ==
  ASSUME TicketTypeOK, NEW r \in Calls, r \in Changing, Abort(r)
  PROVE  /\ call'[r] = NoCall
         /\ \A t \in Calls \ {r} : call'[t] = call[t]
         /\ DueIsPending'
<1>1. call'[r] = NoCall /\ \A t \in Calls \ {r} : call'[t] = call[t]
  BY TicketBecomes, RequestForms DEF Abort
<1>2. IsDueNow => excuses' # {}
  BY DEF Abort
<1> QED BY <1>1, <1>2 DEF DueIsPending, IsDueNow

\* A step of r that leaves it idle or advancing, when everybody else is stale or
\* the promotion is as it was.
LEMMA TicketOthersKeep ==
  ASSUME TicketTypeOK, ReadsAreCurrent, AdvancesAreDue, NEW r \in Calls,
         Overtakes(r) \/ (UNCHANGED promo /\ UNCHANGED stale),
         call'[r] \in {NoCall, Advancing} \cup StatusRead, \A t \in Calls \ {r} : call'[t] = call[t],
         r \notin stale' /\ call'[r].op = "advance" => IsDueNow
  PROVE  ReadsAreCurrent' /\ AdvancesAreDue'
<1>1. ASSUME NEW t \in Calls \ {r}, t \notin stale'
      PROVE  /\ call'[t].op \in {"ticket", "assign"} =>
                  call'[t].seen = status' /\ call'[t].staffed = (team' # {}) /\ call'[t].dated = ready'
             /\ call'[t].op = "advance" => Due(status', team' # {}, ready')
  <2>1. CASE Overtakes(r)
    BY <1>1, <2>1, Overtaken
  <2>2. CASE UNCHANGED promo /\ UNCHANGED stale
    BY <1>1, <2>2 DEF promo, ReadsAreCurrent, AdvancesAreDue
  <2> QED BY <2>1, <2>2
<1>2. call'[r].op \notin {"ticket", "assign"}
  BY DEF NoCall, Advancing, StatusRead
<1>3. ReadsAreCurrent'
  BY <1>1, <1>2 DEF ReadsAreCurrent
<1>4. AdvancesAreDue'
  BY <1>1 DEF AdvancesAreDue, IsDueNow
<1> QED BY <1>3, <1>4

LEMMA ReadStep ==
  ASSUME TicketInv, NEW r \in Calls, NEW q \in Call, call[r] = NoCall, Proceed(r, q),
         stale' = stale \ {r}, UNCHANGED <<promo, mishaps, excuses>>,
         q.op \in {"ticket", "assign"},
         q.seen = status /\ q.staffed = (team # {}) /\ q.dated = ready
  PROVE  ReadsAreCurrent' /\ AdvancesAreDue' /\ DueIsPending'
<1>1. call'[r] = q /\ \A t \in Calls \ {r} : call'[t] = call[t]
  BY TicketBecomes DEF TicketInv
<1>2. ReadsAreCurrent' /\ AdvancesAreDue'
  BY <1>1 DEF TicketInv, ReadsAreCurrent, AdvancesAreDue, promo
<1>3. DueIsPending'
  BY <1>1 DEF TicketInv, DueIsPending, NoCall, promo
<1> QED BY <1>2, <1>3

LEMMA TicketStep ==
  ASSUME TicketInv, NEW r \in Calls, WriteTicket(r)
  PROVE  ReadsAreCurrent' /\ AdvancesAreDue' /\ DueIsPending'
<1> DEFINE q == call[r]
           date == CASE q.what = "date" -> TRUE
                     [] q.what = "clear" -> FALSE
                     [] OTHER -> ready
<1>1. TicketTypeOK /\ q \in TicketRead /\ r \in Changing /\ UNCHANGED <<status, team>>
  BY Requested DEF TicketInv, TicketTypeOK, WriteTicket, Changing
<1>2. r \in stale \/ (q.seen = status /\ q.staffed = (team # {}) /\ q.dated = ready)
  BY <1>1 DEF TicketInv, ReadsAreCurrent, TicketRead
<1>3. CASE q.what = "nothing" /\ UNCHANGED <<ready, stale>> /\ Evaluate(r, q.seen, q.staffed, q.dated)
  <2>1. r \in stale \/ Due(q.seen, q.staffed, q.dated) = IsDueNow
    BY <1>1, <1>2, <1>3 DEF Due, IsDueNow, TicketTypeOK, TicketRead
  <2> HIDE DEF q
  <2>2. /\ call'[r] \in {NoCall, Advancing}
        /\ \A t \in Calls \ {r} : call'[t] = call[t]
        /\ r \notin stale' /\ call'[r].op = "advance" => IsDueNow
        /\ DueIsPending'
    BY <1>1, <1>3, <2>1, Evaluated
  <2> QED BY <1>1, <1>3, <2>2, TicketOthersKeep DEF TicketInv, promo
<1>4. CASE ready' = date /\ Overtakes(r) /\ Evaluate(r, q.seen, q.staffed, date)
  <2>1. r \in stale \/ Due(q.seen, q.staffed, date) = IsDueNow
    BY <1>1, <1>2, <1>4 DEF Due, IsDueNow, TicketTypeOK, TicketRead
  <2> HIDE DEF q, date
  <2>2. stale' \cap {r} = stale \cap {r}
    BY <1>4 DEF Overtakes
  <2>3. /\ call'[r] \in {NoCall, Advancing}
        /\ \A t \in Calls \ {r} : call'[t] = call[t]
        /\ r \notin stale' /\ call'[r].op = "advance" => IsDueNow
        /\ DueIsPending'
    BY <1>1, <1>4, <2>1, <2>2, Evaluated
  <2> QED BY <1>4, <2>3, TicketOthersKeep DEF TicketInv
<1>5. CASE (Overtakes(r) \/ UNCHANGED <<ready, stale>>) /\ Abort(r)
  <2>1. call'[r] = NoCall /\ (\A t \in Calls \ {r} : call'[t] = call[t]) /\ DueIsPending'
    BY <1>1, <1>5, Aborted
  <2> QED BY <1>1, <1>5, <2>1, TicketOthersKeep DEF TicketInv, NoCall, promo
<1> QED BY <1>3, <1>4, <1>5 DEF WriteTicket

LEMMA AssignStep ==
  ASSUME TicketInv, NEW r \in Calls, AddAssignee(r)
  PROVE  ReadsAreCurrent' /\ AdvancesAreDue' /\ DueIsPending'
<1> DEFINE q == call[r]
<1>1. TicketTypeOK /\ q \in AssignRead /\ q.op = "assign" /\ r \in Changing /\ UNCHANGED <<status, ready>>
  BY Requested DEF TicketInv, TicketTypeOK, AddAssignee, Changing
<1>2. r \in stale \/ (q.seen = status /\ q.staffed = (team # {}) /\ q.dated = ready)
  BY <1>1 DEF TicketInv, ReadsAreCurrent, AssignRead
<1>3. CASE Proceed(r, NoCall) /\ UNCHANGED <<team, stale, mishaps, excuses>>
  <2>1. call'[r] = NoCall /\ \A t \in Calls \ {r} : call'[t] = call[t]
    BY <1>1, <1>3, TicketBecomes, RequestForms
  <2>2. DueIsPending'
    BY <1>1, <1>3, <2>1 DEF TicketInv, DueIsPending
  <2> QED BY <1>1, <1>3, <2>1, <2>2, TicketOthersKeep DEF TicketInv, NoCall, promo
<1>4. CASE /\ team' = team \cup {q.who} /\ Overtakes(r)
           /\ Evaluate(r, q.seen, StaffedWith(q.staffed), q.dated)
  <2>1. r \in stale \/ Due(q.seen, StaffedWith(q.staffed), q.dated) = IsDueNow
    BY <1>1, <1>2, <1>4 DEF Due, IsDueNow, TicketTypeOK, AssignRead,
         StaffedWith
  <2> HIDE DEF q
  <2>2. stale' \cap {r} = stale \cap {r}
    BY <1>4 DEF Overtakes
  <2>3. /\ call'[r] \in {NoCall, Advancing}
        /\ \A t \in Calls \ {r} : call'[t] = call[t]
        /\ r \notin stale' /\ call'[r].op = "advance" => IsDueNow
        /\ DueIsPending'
    BY <1>1, <1>4, <2>1, <2>2, Evaluated
  <2> QED BY <1>4, <2>3, TicketOthersKeep DEF TicketInv
<1>5. CASE (Overtakes(r) \/ UNCHANGED <<team, stale>>) /\ Abort(r)
  <2>1. call'[r] = NoCall /\ (\A t \in Calls \ {r} : call'[t] = call[t]) /\ DueIsPending'
    BY <1>1, <1>5, Aborted
  <2> QED BY <1>1, <1>5, <2>1, TicketOthersKeep DEF TicketInv, NoCall, promo
<1> QED BY <1>3, <1>4, <1>5 DEF AddAssignee

LEMMA AdvanceStep ==
  ASSUME TicketInv, NEW r \in Calls, Advance(r)
  PROVE  ReadsAreCurrent' /\ AdvancesAreDue' /\ DueIsPending'
<1>1. TicketTypeOK /\ r \in Changing /\ UNCHANGED <<ready, team>>
  BY DEF TicketInv, Advance, Changing
<1>2. Overtakes(r) \/ (UNCHANGED promo /\ UNCHANGED stale)
  BY <1>1 DEF Advance, promo
<1>3. CASE status' = "Scoped" /\ Proceed(r, NoCall)
  <2>1. call'[r] = NoCall /\ \A t \in Calls \ {r} : call'[t] = call[t]
    BY <1>1, <1>3, TicketBecomes, RequestForms
  <2>2. DueIsPending'
    BY <1>3 DEF DueIsPending, Due
  <2> QED BY <1>1, <1>2, <2>1, <2>2, TicketOthersKeep DEF TicketInv, NoCall
<1>4. CASE Abort(r)
  <2>1. call'[r] = NoCall /\ (\A t \in Calls \ {r} : call'[t] = call[t]) /\ DueIsPending'
    BY <1>1, <1>4, Aborted
  <2> QED BY <1>1, <1>2, <2>1, TicketOthersKeep DEF TicketInv, NoCall
<1> QED BY <1>3, <1>4 DEF Advance

LEMMA StatusStep ==
  ASSUME TicketInv, NEW r \in Calls,
         (\E to \in Statuses : ReadStatus(r,
         to)) \/ WriteStatus(r) \/ EvictTicket(r)
  PROVE  ReadsAreCurrent' /\ AdvancesAreDue' /\ DueIsPending'
<1>1. CASE \E to \in Statuses : ReadStatus(r, to)
  <2>1. PICK to \in Statuses : ReadStatus(r, to)
    BY <1>1
  <2>2. [op |-> "status", to |-> to] \in StatusRead
    BY DEF StatusRead
  <2>3. call'[r] \in StatusRead /\ \A t \in Calls \ {r} : call'[t] = call[t]
    BY <2>1, <2>2, TicketBecomes, RequestForms DEF ReadStatus, TicketInv
  <2>4. UNCHANGED promo /\ UNCHANGED stale /\ UNCHANGED excuses /\ call[r] = NoCall
    BY <2>1 DEF ReadStatus
  <2>5. DueIsPending'
    BY <2>3, <2>4 DEF TicketInv, DueIsPending, NoCall, promo
  <2>6. call'[r].op = "status"
    BY <2>3 DEF StatusRead
  <2> QED BY <2>3, <2>4, <2>5, <2>6, TicketOthersKeep DEF TicketInv
<1>2. CASE WriteStatus(r)
  <2>1. call[r].op = "status" /\ UNCHANGED <<ready, team>>
    BY <1>2 DEF WriteStatus
  <2>2. call'[r] = NoCall /\ \A t \in Calls \ {r} : call'[t] = call[t]
    BY <1>2, TicketBecomes, RequestForms DEF WriteStatus, TicketInv
  <2>3. Overtakes(r) \/ (UNCHANGED promo /\ UNCHANGED stale)
    BY <1>2, <2>1 DEF WriteStatus, promo
  <2>4. DueIsPending'
    <3>1. CASE UNCHANGED <<status, stale, excuses>>
      BY <2>1, <2>2, <3>1 DEF TicketInv, DueIsPending
    <3>2. CASE excuses' = IF status' = "Submitted" THEN {"hand"} ELSE {}
      BY <3>2 DEF DueIsPending, Due
    <3> QED BY <1>2, <3>1, <3>2 DEF WriteStatus
  <2> QED BY <2>2, <2>3, <2>4, TicketOthersKeep DEF TicketInv, NoCall
<1>3. CASE EvictTicket(r)
  <2>1. UNCHANGED promo /\ UNCHANGED stale /\ Abort(r)
    BY <1>3 DEF EvictTicket
  <2>2. call'[r] = NoCall /\ \A t \in Calls \ {r} : call'[t] = call[t]
    BY <2>1, TicketBecomes, RequestForms DEF Abort, TicketInv
  <2>3. DueIsPending'
    <3>1. CASE r \in Changing
      BY <2>1, <3>1, Aborted DEF TicketInv
    <3>2. CASE r \notin Changing
      <4>1. UNCHANGED excuses /\ call[r].op # "advance"
        BY <2>1, <3>2 DEF Abort, Changing
      <4> QED BY <2>1, <2>2, <4>1 DEF TicketInv, DueIsPending, promo
    <3> QED BY <3>1, <3>2
  <2> QED BY <2>1, <2>2, <2>3, TicketOthersKeep DEF TicketInv, NoCall
<1> QED BY <1>1, <1>2, <1>3

LEMMA RemoveStep ==
  ASSUME TicketInv, NEW who \in Users, RemoveAssignee(who)
  PROVE  ReadsAreCurrent' /\ AdvancesAreDue' /\ DueIsPending'
<1>1. UNCHANGED <<status, ready, call, excuses>> /\ stale' = stale \cup Changing
  BY DEF RemoveAssignee
<1>2. ReadsAreCurrent' /\ AdvancesAreDue'
  BY <1>1 DEF ReadsAreCurrent, AdvancesAreDue, Changing
<1>3. DueIsPending'
  BY <1>1 DEF RemoveAssignee, TicketInv, DueIsPending, Due
<1> QED BY <1>2, <1>3

LEMMA TicketInvStep == TicketInv /\ [TicketNext]_ticketVars => TicketInv'
<1> SUFFICES ASSUME TicketInv, [TicketNext]_ticketVars PROVE TicketInv'
  OBVIOUS
<1>1. TicketTypeOK'
  BY TicketTypeStep DEF TicketInv
<1>2. CASE UNCHANGED ticketVars
  BY <1>1, <1>2 DEF ticketVars, promo, TicketInv, ReadsAreCurrent, AdvancesAreDue,
       DueIsPending
<1>3. ASSUME NEW r \in Calls, NEW what \in Writes, ReadTicket(r, what) PROVE TicketInv'
  <2> DEFINE q == [op |-> "ticket", what |-> what, seen |-> status,
                   staffed |-> team # {}, dated |-> ready]
  <2>1. q \in Call
    BY RequestForms DEF TicketRead, TicketInv, TicketTypeOK
  <2>2. q.op = "ticket" /\ q.seen = status /\ q.staffed = (team # {}) /\ q.dated = ready
    OBVIOUS
  <2>3. /\ call[r] = NoCall /\ Proceed(r, q) /\ stale' = stale \ {r}
        /\ UNCHANGED <<promo, mishaps, excuses>>
    BY <1>3 DEF ReadTicket
  <2> HIDE DEF q
  <2> QED BY <1>1, <2>1, <2>2, <2>3, ReadStep DEF TicketInv
<1>4. ASSUME NEW r \in Calls, NEW who \in Users, ReadAssignees(r, who) PROVE TicketInv'
  <2> DEFINE q == [op |-> "assign", who |-> who, seen |-> status,
                   staffed |-> team # {}, dated |-> ready]
  <2>1. q \in Call
    BY RequestForms DEF AssignRead, TicketInv, TicketTypeOK
  <2>2. q.op = "assign" /\ q.seen = status /\ q.staffed = (team # {}) /\ q.dated = ready
    OBVIOUS
  <2>3. /\ call[r] = NoCall /\ Proceed(r, q) /\ stale' = stale \ {r}
        /\ UNCHANGED <<promo, mishaps, excuses>>
    BY <1>4 DEF ReadAssignees
  <2> HIDE DEF q
  <2> QED BY <1>1, <2>1, <2>2, <2>3, ReadStep DEF TicketInv
<1>5. ASSUME NEW who \in Users, RemoveAssignee(who) PROVE TicketInv'
  BY <1>1, <1>5, RemoveStep DEF TicketInv
<1>6. ASSUME NEW r \in Calls,
             \/ WriteTicket(r) \/ AddAssignee(r) \/ Advance(r)
             \/ (\E to \in Statuses : ReadStatus(r, to))
             \/ WriteStatus(r) \/ EvictTicket(r)
      PROVE  TicketInv'
  BY <1>1, <1>6, TicketStep, AssignStep, AdvanceStep, StatusStep DEF TicketInv
<1> QED BY <1>2, <1>3, <1>4, <1>5, <1>6 DEF TicketNext

\* A promotion with a date and an assignee stays Submitted, once its requests
\* have ended, only for a failed call, a hand or a request that read too early.
THEOREM Advanced == TicketSpec => []AdvanceIsNotMissed
<1>1. TicketInv /\ [TicketNext]_ticketVars => TicketInv'
  BY TicketInvStep
<1> QED BY TicketInvInit, <1>1, Implied, PTL DEF TicketSpec

\* The automatic advance is due when it is written, unless somebody wrote after
\* the request had read.
THEOREM AdvancesAreExcused == TicketSpec => AutoAdvanceIsDue
<1>1. TicketInv /\ [TicketNext]_ticketVars =>
        [\A r \in Calls :
           call[r].op = "advance" /\ call'[r].op = "idle" /\ status' # status =>
             (status = "Submitted" /\ team # {} /\ ready) \/ r \in stale]_ticketVars
  BY DEF TicketInv, AdvancesAreDue, Due
<1>2. TicketSpec => [][TicketNext]_ticketVars /\ []TicketInv
  BY TicketInvInit, TicketInvStep, PTL DEF TicketSpec
<1> QED BY <1>1, <1>2, PTL DEF AutoAdvanceIsDue
=============================================================================
