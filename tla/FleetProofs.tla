----------------------------- MODULE FleetProofs ----------------------------
(***************************************************************************)
(* The tables keep what AssetLifecycle promises when the seed script       *)
(* writes them too, a seeding is all or nothing, and what a reading        *)
(* handler answers agrees with itself: for every fleet, every plan of      *)
(* statuses and every number of readers.                                   *)
(***************************************************************************)
EXTENDS FleetTables, AssetLifecycleProofs, FiniteSetTheorems, TLAPS

\* A trail is empty only where nothing but an assignment before its first row can have been.
EmptyTrail == \A a \in Assets : history[a] = <<>> => status[a] \in {"in_stock", "in_use"}

\* asset_id is NOT NULL.
RequestsOfAssets == \A c \in Codes : request[c].status # "absent" => request[c].asset \in Assets

\* What the script has built of a request and of its asset.
PlanRow(c) ==
    IF Planned(c)
    THEN /\ draft.request[c].status \in PlanStatus
         /\ draft.request[c].asset = AssetOfCode(c)
         /\ draft.request[c].requester = SeedHolder(AssetOfCode(c))
    ELSE draft.request[c] = NoRequest
PlanAsset(a) ==
    draft.status[a] = IF HasPlan(a) THEN AfterRequest(draft.request[InUseRank(a)].status)
                      ELSE SeedStatus(a)

Draft == [status : [Assets -> AssetStatus], holder : [Assets -> Holders \cup {NoOne}],
          request : [Codes -> RequestRow], history : [Assets -> Seq(AuditRow)],
          images : SUBSET files]

\* The script's own rows, statement by statement.
DraftInv ==
    /\ draft \in Draft
    /\ \A i \in draft.images : i[1] = seeds
    /\ seeding \in Statements
    /\ seeding \in {"requests", "images", "commit"} => \A a \in Assets : draft.holder[a] = SeedHolder(a)
    /\ seeding = "requests" => \A a \in Assets : draft.status[a] = SeedStatus(a)
    /\ seeding \in {"images", "commit"} =>
          (\A c \in Codes : PlanRow(c)) /\ (\A a \in Assets : PlanAsset(a))
    /\ seeding = "commit" => \A a \in Assets : draft.history[a] = Trail(a)

TablesInv == IInv /\ RequestsOfAssets /\ EmptyTrail /\ TrailLeadsHere

-----------------------------------------------------------------------------
(* What the script computes by index.                                       *)

LEMMA HolderOfSeed ==
    ASSUME NEW a \in Assets
    PROVE  /\ SeedHolder(a) \in Holders \cup {NoOne} /\ SeedStatus(a) \in AssetStatus
           /\ SeedStatus(a) \in {"in_stock", "in_use", "disposed"}
           /\ SeedHolder(a) = NoOne <=> SeedStatus(a) \in {"in_stock", "disposed"}
<1>1. a \in Nat /\ Fleet \in Nat /\ HolderOrder \in Seq(Holders) /\ Len(HolderOrder) \in Nat \ {0}
  BY SeedAssumption
<1>2. (a % Len(HolderOrder)) + 1 \in 1..Len(HolderOrder)
  BY <1>1
<1>3. HolderOrder[(a % Len(HolderOrder)) + 1] \in Holders
  BY <1>1, <1>2
<1>4. SeedHolder(a) \in Holders \cup {NoOne}
  BY <1>3 DEF SeedHolder
<1>5. a >= Fleet => SeedHolder(a) = NoOne
  BY <1>1 DEF SeedHolder
<1> QED
  BY <1>4, <1>5 DEF SeedStatus, AssetStatus

\* Ranks count from one without repetition, so every request of the plan has its asset.
LEMMA RanksDiffer ==
    ASSUME NEW a \in Assets, NEW b \in Assets, SeedStatus(a) = "in_use", SeedStatus(b) = "in_use"
    PROVE  InUseRank(a) \in Nat \ {0} /\ (InUseRank(a) = InUseRank(b) => a = b)
<1> DEFINE Below(x) == {d \in Assets : d <= x /\ SeedStatus(d) = "in_use"}
<1>1. ASSUME NEW x \in Assets
      PROVE  IsFiniteSet(Below(x)) /\ InUseRank(x) = Cardinality(Below(x))
  <2>1. Below(x) \in SUBSET Nat /\ x \in Nat /\ \A d \in Below(x) : d <= x
    BY SeedAssumption
  <2> QED
    BY <2>1, FS_BoundedSetOfNaturals DEF InUseRank
<1>2. ASSUME NEW x \in Assets, NEW y \in Assets, SeedStatus(y) = "in_use", x < y
      PROVE  InUseRank(x) # InUseRank(y)
  <2>1. x \in Nat /\ y \in Nat /\ \A d \in Assets : d \in Nat
    BY SeedAssumption
  <2>2. Below(x) \in SUBSET Below(y)
    <3>1. ASSUME NEW d \in Below(x) PROVE d \in Below(y)
      <4>1. d \in Assets /\ d <= x /\ SeedStatus(d) = "in_use"
        OBVIOUS
      <4>2. d <= y
        BY <1>2, <2>1, <4>1
      <4> QED
        BY <4>1, <4>2
    <3> HIDE DEF Below
    <3> QED
      BY <3>1
  <2>3. y \in Below(y) /\ y \notin Below(x)
    BY <1>2, <2>1
  <2>4. Below(x) # Below(y)
    BY <2>3
  <2> HIDE DEF Below
  <2> QED
    BY <1>1, <2>2, <2>4, FS_Subset
<1>3. InUseRank(a) \in Nat \ {0}
  <2>1. a \in Below(a)
    BY SeedAssumption
  <2> HIDE DEF Below
  <2>2. Cardinality(Below(a)) \in Nat /\ Cardinality(Below(a)) # 0
    BY <1>1, <2>1, FS_CardinalityType, FS_EmptySet
  <2> QED
    BY <1>1, <2>2
<1>4. a \in Nat /\ b \in Nat
  BY SeedAssumption
<1> QED
  BY <1>2, <1>3, <1>4

LEMMA PlanIsOneToOne ==
    /\ \A a \in Assets : HasPlan(a) =>
          InUseRank(a) \in Codes /\ Planned(InUseRank(a)) /\ AssetOfCode(InUseRank(a)) = a
    /\ \A c \in Codes : Planned(c) =>
          AssetOfCode(c) \in Assets /\ HasPlan(AssetOfCode(c)) /\ InUseRank(AssetOfCode(c)) = c
<1>1. ASSUME NEW c, Planned(c)
      PROVE  AssetOfCode(c) \in Assets /\ HasPlan(AssetOfCode(c)) /\ InUseRank(AssetOfCode(c)) = c
  BY <1>1 DEF Planned, AssetOfCode
<1>2. ASSUME NEW a \in Assets, HasPlan(a)
      PROVE  InUseRank(a) \in Codes /\ Planned(InUseRank(a)) /\ AssetOfCode(InUseRank(a)) = a
  <2>1. Planned(InUseRank(a))
    BY <1>2 DEF Planned
  <2>2. AssetOfCode(InUseRank(a)) = a
    BY <1>1, <1>2, <2>1, RanksDiffer DEF HasPlan
  <2>3. InUseRank(a) \in 1..PlanLength
    BY <1>2, RanksDiffer, SeedAssumption DEF HasPlan
  <2> QED
    BY <2>1, <2>2, <2>3, SeedAssumption
<1> QED
  BY <1>1, <1>2

LEMMA AfterRequestTyped ==
    ASSUME NEW s \in PlanStatus
    PROVE  /\ AfterRequest(s) \in {"in_use", "pending_repair", "under_repair"}
           /\ AfterRequest(s) = "pending_repair" <=> s = "pending_review"
           /\ AfterRequest(s) = "under_repair" <=> s = "under_repair"
  BY DEF PlanStatus, RequestStatus, ActiveStatus, AfterRequest

LEMMA SameSequence ==
    ASSUME NEW S, NEW p \in Seq(S), NEW q \in Seq(S), Len(p) = Len(q),
           \A i \in 1..Len(p) : p[i] = q[i]
    PROVE  p = q
  OBVIOUS

LEMMA TwoJoined ==
    ASSUME NEW x, NEW y
    PROVE  <<x>> \o <<y>> = <<x, y>>
<1> DEFINE S == {x, y}
           p == <<x>> \o <<y>>
           q == <<x, y>>
<1>1. p \in Seq(S) /\ Len(p) = 2 /\ p[1] = x /\ p[2] = y
  OBVIOUS
<1>2. q \in Seq(S) /\ Len(q) = 2 /\ q[1] = x /\ q[2] = y
  OBVIOUS
<1> HIDE DEF p, q
<1>3. \A i \in 1..Len(p) : p[i] = q[i]
  BY <1>1, <1>2
<1>4. p = q
  BY <1>1, <1>2, <1>3, SameSequence
<1> QED
  BY <1>4 DEF p, q

LEMMA ThreeJoined ==
    ASSUME NEW x, NEW y, NEW z
    PROVE  <<x>> \o <<y, z>> = <<x, y, z>>
<1> DEFINE S == {x, y, z}
           p == <<x>> \o <<y, z>>
           q == <<x, y, z>>
<1>1. p \in Seq(S) /\ Len(p) = 3 /\ p[1] = x /\ p[2] = y /\ p[3] = z
  OBVIOUS
<1>2. q \in Seq(S) /\ Len(q) = 3 /\ q[1] = x /\ q[2] = y /\ q[3] = z
  OBVIOUS
<1> HIDE DEF p, q
<1>3. \A i \in 1..Len(p) : p[i] = q[i]
  BY <1>1, <1>2
<1>4. p = q
  BY <1>1, <1>2, <1>3, SameSequence
<1> QED
  BY <1>4 DEF p, q

LEMMA FourJoined ==
    ASSUME NEW x, NEW y, NEW z, NEW w
    PROVE  <<x>> \o <<y, z, w>> = <<x, y, z, w>>
<1> DEFINE S == {x, y, z, w}
           p == <<x>> \o <<y, z, w>>
           q == <<x, y, z, w>>
<1>1. p \in Seq(S) /\ Len(p) = 4 /\ p[1] = x /\ p[2] = y /\ p[3] = z /\ p[4] = w
  OBVIOUS
<1>2. q \in Seq(S) /\ Len(q) = 4 /\ q[1] = x /\ q[2] = y /\ q[3] = z /\ q[4] = w
  OBVIOUS
<1> HIDE DEF p, q
<1>3. \A i \in 1..Len(p) : p[i] = q[i]
  BY <1>1, <1>2
<1>4. p = q
  BY <1>1, <1>2, <1>3, SameSequence
<1> QED
  BY <1>4 DEF p, q

\* build_action_histories: the rows an asset of the demo fleet gets lead to its status.
LEMMA TrailsOfSeed ==
    ASSUME NEW a \in Assets, draft \in Draft, PlanAsset(a),
           HasPlan(a) => draft.request[InUseRank(a)].status \in PlanStatus
    PROVE  /\ Trail(a) \in Seq(AuditRow)
           /\ Trail(a) = <<>> => draft.status[a] = "in_stock"
           /\ Trail(a) # <<>> =>
                 /\ Trail(a)[Len(Trail(a))].to = draft.status[a]
                 /\ \A i \in 1..(Len(Trail(a)) - 1) : Trail(a)[i].to = Trail(a)[i + 1].from
                 /\ Trail(a)[1].from = "in_stock"
<1> DEFINE assigned == Row("assign", "in_stock", "in_use")
           submitted == Row("submit", "in_use", "pending_repair")
           rejected == Row("reject", "pending_repair", "in_use")
           approved == Row("approve", "pending_repair", "under_repair")
           completed == Row("complete", "under_repair", "in_use")
           disposed == Row("dispose", "in_stock", "disposed")
           s == draft.request[InUseRank(a)].status
<1>1. /\ assigned \in AuditRow /\ submitted \in AuditRow /\ rejected \in AuditRow
      /\ approved \in AuditRow /\ completed \in AuditRow /\ disposed \in AuditRow
  BY DEF Row, AuditRow, AssetAction, AssetStatus
<1>2. /\ assigned.from = "in_stock" /\ assigned.to = "in_use"
      /\ submitted.from = "in_use" /\ submitted.to = "pending_repair"
      /\ rejected.from = "pending_repair" /\ rejected.to = "in_use"
      /\ approved.from = "pending_repair" /\ approved.to = "under_repair"
      /\ completed.from = "under_repair" /\ completed.to = "in_use"
      /\ disposed.from = "in_stock" /\ disposed.to = "disposed"
  BY DEF Row
<1>3. /\ draft.status[a] \in AssetStatus
      /\ SeedStatus(a) \in {"in_stock", "in_use", "disposed"}
      /\ draft.status[a] = IF HasPlan(a) THEN AfterRequest(s) ELSE SeedStatus(a)
  BY HolderOfSeed DEF Draft, PlanAsset
<1>4. CASE draft.status[a] = "in_stock"
  <2>1. Trail(a) = <<>>
    BY <1>4 DEF Trail
  <2> QED
    BY <1>4, <2>1
<1>5. CASE draft.status[a] = "disposed"
  <2>1. Trail(a) = <<disposed>>
    BY <1>5 DEF Trail
  <2> HIDE DEF disposed
  <2> QED
    BY <1>1, <1>2, <1>5, <2>1
<1>6. CASE draft.status[a] \notin {"in_stock", "disposed"} /\ ~HasPlan(a)
  <2>1. Trail(a) = <<assigned>> \o <<>> /\ draft.status[a] = "in_use"
    BY <1>3, <1>6 DEF Trail
  <2> HIDE DEF assigned
  <2>2. Trail(a) = <<assigned>>
    BY <1>1, <2>1
  <2> QED
    BY <1>1, <1>2, <2>1, <2>2
<1>7. CASE draft.status[a] \notin {"in_stock", "disposed"} /\ HasPlan(a)
  <2>1. Trail(a) = <<assigned>> \o RepairTrail(s) /\ draft.status[a] = AfterRequest(s)
    BY <1>3, <1>7 DEF Trail
  <2>2. s \in {"pending_review", "rejected", "under_repair", "completed"}
    BY <1>7 DEF PlanStatus, RequestStatus, ActiveStatus
  <2> HIDE DEF s
  <2>3. CASE s = "pending_review"
    <3>1. RepairTrail(s) = <<submitted>> \o <<>> /\ AfterRequest(s) = "pending_repair"
      BY <2>3 DEF RepairTrail, AfterRequest
    <3> HIDE DEF assigned, submitted
    <3>2. <<submitted>> \o <<>> = <<submitted>>
      BY <1>1
    <3>3. <<assigned>> \o <<submitted>> = <<assigned, submitted>>
      BY TwoJoined
    <3>4. Trail(a) = <<assigned, submitted>>
      BY <2>1, <3>1, <3>2, <3>3
    <3> QED
      BY <1>1, <1>2, <2>1, <3>1, <3>4
  <2>4. CASE s = "rejected"
    <3>1. RepairTrail(s) = <<submitted>> \o <<rejected>> /\ AfterRequest(s) = "in_use"
      BY <2>4 DEF RepairTrail, AfterRequest
    <3> HIDE DEF assigned, submitted, rejected
    <3>2. <<submitted>> \o <<rejected>> = <<submitted, rejected>>
      BY TwoJoined
    <3>3. <<assigned>> \o <<submitted, rejected>> = <<assigned, submitted, rejected>>
      BY ThreeJoined
    <3>4. Trail(a) = <<assigned, submitted, rejected>>
      BY <2>1, <3>1, <3>2, <3>3
    <3> QED
      BY <1>1, <1>2, <2>1, <3>1, <3>4
  <2>5. CASE s = "under_repair"
    <3>1. RepairTrail(s) = <<submitted>> \o <<approved>> /\ AfterRequest(s) = "under_repair"
      BY <2>5 DEF RepairTrail, AfterRequest
    <3> HIDE DEF assigned, submitted, approved
    <3>2. <<submitted>> \o <<approved>> = <<submitted, approved>>
      BY TwoJoined
    <3>3. <<assigned>> \o <<submitted, approved>> = <<assigned, submitted, approved>>
      BY ThreeJoined
    <3>4. Trail(a) = <<assigned, submitted, approved>>
      BY <2>1, <3>1, <3>2, <3>3
    <3> QED
      BY <1>1, <1>2, <2>1, <3>1, <3>4
  <2>6. CASE s = "completed"
    <3>1. RepairTrail(s) = <<submitted>> \o <<approved, completed>> /\ AfterRequest(s) = "in_use"
      BY <2>6 DEF RepairTrail, AfterRequest
    <3> HIDE DEF assigned, submitted, approved, completed
    <3>2. <<submitted>> \o <<approved, completed>> = <<submitted, approved, completed>>
      BY ThreeJoined
    <3>3. <<assigned>> \o <<submitted, approved, completed>> = <<assigned, submitted, approved, completed>>
      BY FourJoined
    <3>4. Trail(a) = <<assigned, submitted, approved, completed>>
      BY <2>1, <3>1, <3>2, <3>3
    <3> QED
      BY <1>1, <1>2, <2>1, <3>1, <3>4
  <2> QED
    BY <2>2, <2>3, <2>4, <2>5, <2>6
<1> QED
  BY <1>4, <1>5, <1>6, <1>7

-----------------------------------------------------------------------------
(* The script's transaction.                                                *)

LEMMA EmptyDraft ==
    /\ Empty \in Draft /\ Empty.images = {}
    /\ \A c \in Codes : Empty.request[c] = NoRequest
<1>1. NoRequest \in RequestRow
  BY DEF NoRequest, RequestRow, RequestStatus
<1> QED
  BY <1>1 DEF Empty, Draft, AssetStatus

\* One table of the draft is rewritten.
LEMMA DraftTyped ==
    ASSUME NEW f, NEW d \in [status : [Assets -> AssetStatus], holder : [Assets -> Holders \cup {NoOne}],
                             request : [Codes -> RequestRow], history : [Assets -> Seq(AuditRow)],
                             images : SUBSET f],
           NEW g, f \subseteq g,
           NEW s \in [Assets -> AssetStatus], NEW h \in [Assets -> Holders \cup {NoOne}],
           NEW q \in [Codes -> RequestRow], NEW y \in [Assets -> Seq(AuditRow)], NEW i \in SUBSET g
    PROVE  LET D == [status : [Assets -> AssetStatus], holder : [Assets -> Holders \cup {NoOne}],
                     request : [Codes -> RequestRow], history : [Assets -> Seq(AuditRow)],
                     images : SUBSET g] IN
           /\ LET e == [d EXCEPT !.status = s, !.holder = h] IN
              e \in D /\ e.status = s /\ e.holder = h /\ e.images = d.images
           /\ LET e == [d EXCEPT !.request = q, !.status = s] IN
              e \in D /\ e.status = s /\ e.request = q /\ e.holder = d.holder /\ e.images = d.images
           /\ LET e == [d EXCEPT !.images = i] IN
              /\ e \in D /\ e.images = i /\ e.status = d.status /\ e.holder = d.holder
              /\ e.request = d.request /\ e.history = d.history
           /\ LET e == [d EXCEPT !.history = y] IN
              /\ e \in D /\ e.images = d.images /\ e.status = d.status /\ e.holder = d.holder
              /\ e.request = d.request /\ e.history = y
  OBVIOUS

LEMMA DraftInit == SeedInit => DraftInv
<1> SUFFICES ASSUME SeedInit PROVE DraftInv
  OBVIOUS
<1>1. draft \in Draft /\ draft.images = {} /\ seeding = "none"
  BY EmptyDraft DEF SeedInit
<1> QED
  BY <1>1 DEF DraftInv, Statements

LEMMA DraftKept ==
    ASSUME DraftInv, UNCHANGED <<seeding, seeds, draft, files>>
    PROVE  DraftInv'
<1>1. draft' \in Draft'
  BY DEF DraftInv, Draft
<1>2. \A a \in Assets : Trail(a)' = Trail(a)
  BY DEF Trail
<1> QED
  BY <1>1, <1>2 DEF DraftInv, PlanRow, PlanAsset

\* The transaction starts anew, is rolled back or is committed.
LEMMA DraftEmptied ==
    ASSUME DraftInv, draft' = Empty, seeding' \in {"none", "assets"}, files' = files
    PROVE  DraftInv'
<1>1. draft' \in Draft' /\ draft'.images = {}
  BY EmptyDraft DEF Draft
<1> QED
  BY <1>1 DEF DraftInv, Statements

LEMMA AssetsBuilt ==
    ASSUME DraftInv, BuildAssets
    PROVE  DraftInv'
<1> DEFINE s == [a \in Assets |-> SeedStatus(a)]
           h == [a \in Assets |-> SeedHolder(a)]
<1>1. s \in [Assets -> AssetStatus] /\ h \in [Assets -> Holders \cup {NoOne}]
  BY HolderOfSeed
<1>2. draft' = [draft EXCEPT !.status = s, !.holder = h] /\ seeding' = "requests"
      /\ seeds' = seeds /\ files' = files
  BY DEF BuildAssets
<1>3. \A a \in Assets : s[a] = SeedStatus(a) /\ h[a] = SeedHolder(a)
  OBVIOUS
<1> HIDE DEF s, h
<1>4. draft.request \in [Codes -> RequestRow] /\ draft.history \in [Assets -> Seq(AuditRow)]
      /\ draft.images \in SUBSET files
  BY DEF DraftInv, Draft
<1>5. draft' \in Draft /\ draft'.status = s /\ draft'.holder = h /\ draft'.images = draft.images
  BY <1>1, <1>2, <1>4, DraftTyped DEF DraftInv, Draft
<1>6. draft' \in Draft'
  BY <1>2, <1>5 DEF Draft
<1> QED
  BY <1>2, <1>3, <1>5, <1>6 DEF DraftInv, Statements

LEMMA RequestsBuilt ==
    ASSUME DraftInv, BuildRequests
    PROVE  DraftInv'
<1>1. PICK plan \in [1..PlanLength -> PlanStatus] :
          draft' = [draft EXCEPT
              !.request = [c \in Codes |->
                  IF Planned(c)
                  THEN [status |-> plan[c], asset |-> AssetOfCode(c),
                        requester |-> draft.holder[AssetOfCode(c)]]
                  ELSE NoRequest],
              !.status = [a \in Assets |->
                  IF HasPlan(a) THEN AfterRequest(plan[InUseRank(a)]) ELSE draft.status[a]]]
  BY DEF BuildRequests
<1> DEFINE q == [c \in Codes |->
                  IF Planned(c)
                  THEN [status |-> plan[c], asset |-> AssetOfCode(c),
                        requester |-> draft.holder[AssetOfCode(c)]]
                  ELSE NoRequest]
           s == [a \in Assets |->
                  IF HasPlan(a) THEN AfterRequest(plan[InUseRank(a)]) ELSE draft.status[a]]
<1>2. draft' = [draft EXCEPT !.request = q, !.status = s]
      /\ seeding = "requests" /\ seeding' = "images" /\ seeds' = seeds /\ files' = files
  BY <1>1 DEF BuildRequests
<1>3. \A a \in Assets : draft.holder[a] = SeedHolder(a) /\ draft.status[a] = SeedStatus(a)
  BY <1>2 DEF DraftInv
<1>4. ASSUME NEW c \in Codes, Planned(c)
      PROVE  /\ q[c] \in RequestRow /\ q[c].status = plan[c] /\ plan[c] \in PlanStatus
             /\ q[c].asset = AssetOfCode(c) /\ q[c].requester = SeedHolder(AssetOfCode(c))
  <2>1. AssetOfCode(c) \in Assets /\ HasPlan(AssetOfCode(c)) /\ InUseRank(AssetOfCode(c)) = c
    BY <1>4, PlanIsOneToOne
  <2>2. c \in 1..PlanLength
    BY <2>1, RanksDiffer, SeedAssumption DEF HasPlan
  <2>3. plan[c] \in PlanStatus
    BY <2>2
  <2>4. draft.holder[AssetOfCode(c)] = SeedHolder(AssetOfCode(c))
        /\ SeedHolder(AssetOfCode(c)) \in Holders \cup {NoOne}
    BY <1>3, <2>1, HolderOfSeed
  <2> QED
    BY <1>4, <2>1, <2>3, <2>4 DEF PlanStatus, RequestRow
<1>5. \A c \in Codes : ~Planned(c) => q[c] = NoRequest
  OBVIOUS
<1>6. NoRequest \in RequestRow
  BY DEF NoRequest, RequestRow, RequestStatus
<1>7. q \in [Codes -> RequestRow]
  <2>1. \A c \in Codes : q[c] \in RequestRow
    BY <1>4, <1>5, <1>6
  <2> QED
    BY <2>1
<1>8. ASSUME NEW a \in Assets, HasPlan(a)
      PROVE  /\ s[a] = AfterRequest(q[InUseRank(a)].status) /\ s[a] \in AssetStatus
  <2>1. InUseRank(a) \in Codes /\ Planned(InUseRank(a))
    BY <1>8, PlanIsOneToOne
  <2>2. q[InUseRank(a)].status = plan[InUseRank(a)] /\ plan[InUseRank(a)] \in PlanStatus
    BY <1>4, <2>1
  <2>3. s[a] = AfterRequest(plan[InUseRank(a)])
    BY <1>8
  <2> QED
    BY <2>2, <2>3, AfterRequestTyped DEF AssetStatus
<1>9. \A a \in Assets : ~HasPlan(a) => s[a] = SeedStatus(a) /\ s[a] \in AssetStatus
  BY <1>3, HolderOfSeed
<1>10. s \in [Assets -> AssetStatus]
  <2>1. \A a \in Assets : s[a] \in AssetStatus
    BY <1>8, <1>9
  <2> QED
    BY <2>1
<1> HIDE DEF q, s
<1>11. /\ draft.holder \in [Assets -> Holders \cup {NoOne}]
       /\ draft.history \in [Assets -> Seq(AuditRow)] /\ draft.images \in SUBSET files
  BY DEF DraftInv, Draft
<1>12. draft' \in Draft /\ draft'.status = s /\ draft'.request = q
       /\ draft'.holder = draft.holder /\ draft'.images = draft.images
  BY <1>2, <1>7, <1>10, <1>11, DraftTyped DEF DraftInv, Draft
<1>13. draft' \in Draft'
  BY <1>2, <1>12 DEF Draft
<1>14. \A c \in Codes : PlanRow(c)'
  BY <1>4, <1>5, <1>12 DEF PlanRow
<1>15. \A a \in Assets : PlanAsset(a)'
  BY <1>8, <1>9, <1>12 DEF PlanAsset
<1> QED
  BY <1>2, <1>3, <1>12, <1>13, <1>14, <1>15 DEF DraftInv, Statements

LEMMA ImageBuilt ==
    ASSUME DraftInv, BuildImage
    PROVE  DraftInv'
<1> DEFINE i == draft.images \cup {<<seeds, CHOOSE d \in ToWrite : \A e \in ToWrite : d <= e>>}
<1>1. i \subseteq files' /\ files \subseteq files' /\ draft' = [draft EXCEPT !.images = i]
  BY DEF BuildImage, DraftInv, Draft
<1>2. seeding = "images" /\ seeding' = "images" /\ seeds' = seeds
  BY DEF BuildImage
<1>3. \A p \in i : p[1] = seeds
  BY DEF DraftInv
<1>4. draft.images \subseteq i
  OBVIOUS
<1> HIDE DEF i
<1>5. /\ draft.status \in [Assets -> AssetStatus] /\ draft.holder \in [Assets -> Holders \cup {NoOne}]
      /\ draft.request \in [Codes -> RequestRow] /\ draft.history \in [Assets -> Seq(AuditRow)]
      /\ draft.images \in SUBSET files
  BY DEF DraftInv, Draft
<1>6. draft' \in Draft' /\ draft'.images = i /\ draft'.status = draft.status
      /\ draft'.holder = draft.holder /\ draft'.request = draft.request
  BY <1>1, <1>5, DraftTyped DEF DraftInv, Draft
<1> QED
  BY <1>2, <1>3, <1>6 DEF DraftInv, Statements, PlanRow, PlanAsset

LEMMA TrailsTyped ==
    ASSUME DraftInv, seeding \in {"images", "commit"}, NEW a \in Assets
    PROVE  /\ Trail(a) \in Seq(AuditRow)
           /\ Trail(a) = <<>> => draft.status[a] = "in_stock"
           /\ Trail(a) # <<>> =>
                 /\ Trail(a)[Len(Trail(a))].to = draft.status[a]
                 /\ \A i \in 1..(Len(Trail(a)) - 1) : Trail(a)[i].to = Trail(a)[i + 1].from
                 /\ Trail(a)[1].from = "in_stock"
<1>1. draft \in Draft /\ PlanAsset(a)
  BY DEF DraftInv
<1>2. HasPlan(a) => draft.request[InUseRank(a)].status \in PlanStatus
  BY PlanIsOneToOne DEF DraftInv, PlanRow
<1> QED
  BY <1>1, <1>2, TrailsOfSeed

LEMMA HistoriesBuilt ==
    ASSUME DraftInv, BuildHistories
    PROVE  DraftInv'
<1> DEFINE y == [a \in Assets |-> Trail(a)]
<1>1. draft' = [draft EXCEPT !.history = y] /\ seeding = "images" /\ seeding' = "commit"
      /\ seeds' = seeds /\ files' = files
  BY DEF BuildHistories
<1>2. y \in [Assets -> Seq(AuditRow)]
  <2>1. \A a \in Assets : Trail(a) \in Seq(AuditRow)
    BY <1>1, TrailsTyped
  <2> HIDE DEF Trail
  <2> QED
    BY <2>1
<1>3. \A a \in Assets : y[a] = Trail(a)
  OBVIOUS
<1> HIDE DEF y
<1>4. /\ draft.status \in [Assets -> AssetStatus] /\ draft.holder \in [Assets -> Holders \cup {NoOne}]
      /\ draft.request \in [Codes -> RequestRow] /\ draft.images \in SUBSET files
  BY DEF DraftInv, Draft
<1>5. draft' \in Draft /\ draft'.images = draft.images /\ draft'.status = draft.status
      /\ draft'.holder = draft.holder /\ draft'.request = draft.request /\ draft'.history = y
  BY <1>1, <1>2, <1>4, DraftTyped DEF DraftInv, Draft
<1>6. draft' \in Draft'
  BY <1>1, <1>5 DEF Draft
<1>7. \A a \in Assets : Trail(a)' = Trail(a)
  BY <1>5 DEF Trail
<1> QED
  BY <1>1, <1>3, <1>5, <1>6, <1>7 DEF DraftInv, Statements, PlanRow, PlanAsset

LEMMA DraftStep == DraftInv /\ [FleetNext]_<<vars, seedVars, reader>> => DraftInv'
<1> SUFFICES ASSUME DraftInv, [FleetNext]_<<vars, seedVars, reader>> PROVE DraftInv'
  OBVIOUS
<1>1. CASE HandlerNext \/ UNCHANGED seedVars
  BY <1>1, DraftKept DEF HandlerNext, seedVars
<1>2. CASE Wipe \/ CommitSeed \/ SeedFails
  BY <1>2, DraftEmptied DEF Wipe, CommitSeed, SeedFails
<1>3. CASE BuildAssets \/ BuildRequests \/ BuildImage \/ BuildHistories
  BY <1>3, AssetsBuilt, RequestsBuilt, ImageBuilt, HistoriesBuilt
<1> QED
  BY <1>1, <1>2, <1>3 DEF FleetNext, SeedNext, seedVars

-----------------------------------------------------------------------------
(* The committed tables, whoever writes them.                               *)

LEMMA TablesInit == Init => TablesInv
<1> SUFFICES ASSUME Init PROVE TablesInv
  OBVIOUS
<1>1. RequestsOfAssets
  BY DEF Init, NoRequest, RequestsOfAssets
<1>2. EmptyTrail /\ TrailLeadsHere
  BY DEF Init, EmptyTrail, TrailLeadsHere
<1> QED
  BY <1>1, <1>2, InitInvariant DEF TablesInv

\* One audit row more, from where the asset was to where it is.
LEMMA TrailGrows ==
    ASSUME TypeOK, EmptyTrail, TrailLeadsHere,
           NEW a \in Assets, NEW action \in AssetAction, NEW to \in AssetStatus,
           Transition(a, action, to)
    PROVE  EmptyTrail' /\ TrailLeadsHere'
<1> DEFINE row == [action |-> action, from |-> status[a], to |-> to]
<1>1. row \in AuditRow /\ row.from = status[a] /\ row.to = to
  BY DEF TypeOK, AuditRow
<1> HIDE DEF row
<1>2. /\ status' = [status EXCEPT ![a] = to]
      /\ history' = [history EXCEPT ![a] = Append(history[a], row)]
  BY DEF Transition, row
<1>3. history[a] \in Seq(AuditRow) /\ history \in [Assets -> Seq(AuditRow)]
      /\ status \in [Assets -> AssetStatus]
  BY DEF TypeOK
<1>4. /\ history'[a] = Append(history[a], row) /\ status'[a] = to
      /\ \A b \in Assets : b # a => history'[b] = history[b] /\ status'[b] = status[b]
  BY <1>2, <1>3
<1> DEFINE n == Len(history[a])
           h == history'[a]
<1>5. /\ n \in Nat /\ h # <<>> /\ Len(h) = n + 1 /\ h[n + 1] = row
      /\ \A i \in 1..n : h[i] = history[a][i]
  <2>1. ASSUME NEW s \in Seq(AuditRow)
        PROVE  LET t == Append(s, row) IN
               /\ t # <<>> /\ Len(t) = Len(s) + 1 /\ t[Len(s) + 1] = row
               /\ \A i \in 1..Len(s) : t[i] = s[i]
    BY <1>1
  <2> QED
    BY <1>3, <1>4, <2>1
<1>6. n = 0 <=> history[a] = <<>>
  BY <1>3
<1>7. n # 0 => h[1] = history[a][1] /\ h[n] = history[a][n]
  BY <1>5
<1>8. h[1].from \in {"in_stock", "in_use"}
  BY <1>1, <1>5, <1>6, <1>7 DEF EmptyTrail, TrailLeadsHere
<1>9. ASSUME NEW i \in 1..(Len(h) - 1) PROVE h[i].to = h[i + 1].from
  <2>1. CASE i = n
    BY <1>1, <1>5, <1>6, <1>7, <2>1 DEF TrailLeadsHere
  <2>2. CASE i # n
    <3>1. i \in 1..(n - 1) /\ i + 1 \in 1..n /\ i \in 1..n
      BY <1>5, <2>2
    <3>2. history[a][i].to = history[a][i + 1].from
      BY <1>5, <1>6, <3>1 DEF TrailLeadsHere
    <3> QED
      BY <1>5, <3>1, <3>2
  <2> QED
    BY <2>1, <2>2
<1>10. h[Len(h)].to = status'[a]
  BY <1>1, <1>4, <1>5
<1>11. EmptyTrail'
  BY <1>4, <1>5 DEF EmptyTrail
<1>12. ASSUME NEW b \in Assets, history'[b] # <<>>
       PROVE  /\ history'[b][Len(history'[b])].to = status'[b]
              /\ \A i \in 1..(Len(history'[b]) - 1) : history'[b][i].to = history'[b][i + 1].from
              /\ history'[b][1].from \in {"in_stock", "in_use"}
  <2>1. CASE b = a
    BY <1>8, <1>9, <1>10, <2>1
  <2>2. CASE b # a
    BY <1>4, <1>12, <2>2 DEF TrailLeadsHere
  <2> QED
    BY <2>1, <2>2
<1> QED
  BY <1>11, <1>12 DEF TrailLeadsHere

LEMMA TablesHandled ==
    ASSUME TablesInv, [Next]_vars
    PROVE  TablesInv'
<1>1. IInv'
  BY TypeStep, CouplingStep DEF TablesInv, IInv
<1>2. ASSUME NEW a \in Assets, NEW action \in AssetAction, NEW to \in AssetStatus,
             Transition(a, action, to)
      PROVE  EmptyTrail' /\ TrailLeadsHere'
  BY <1>2, TrailGrows DEF TablesInv, IInv
<1>3. ASSUME UNCHANGED request PROVE RequestsOfAssets'
  BY <1>3 DEF TablesInv, RequestsOfAssets
<1>4. ASSUME NEW c \in Codes, NEW d \in RequestStatus, Decide(c, d),
             request[c].status # "absent"
      PROVE  RequestsOfAssets'
  BY <1>4 DEF TablesInv, IInv, TypeOK, RequestRow, RequestsOfAssets, Decide
<1> USE DEF AssetStatus, AssetAction, RequestStatus, ActiveStatus
<1>5. ASSUME NEW a \in Assets, NEW h \in Holders, Assign(a, h) PROVE TablesInv'
  BY <1>1, <1>2, <1>3, <1>5 DEF TablesInv, Assign
<1>6. ASSUME NEW a \in Assets, Unassign(a) \/ Dispose(a) PROVE TablesInv'
  BY <1>1, <1>2, <1>3, <1>6 DEF TablesInv, Unassign, Dispose
<1>7. ASSUME NEW a \in Assets, NEW c \in Codes, Submit(a, c) PROVE TablesInv'
  <2>1. RequestsOfAssets'
    BY <1>7 DEF TablesInv, IInv, TypeOK, RequestRow, RequestsOfAssets, Submit
  <2> QED
    BY <1>1, <1>2, <1>7, <2>1 DEF TablesInv, Submit
<1>8. ASSUME NEW a \in Assets, NEW c \in Codes, Approve(a, c) \/ Reject(a, c) \/ Complete(a, c)
      PROVE  TablesInv'
  BY <1>1, <1>2, <1>4, <1>8 DEF TablesInv, Approve, Reject, Complete
<1>9. CASE UNCHANGED vars
  BY <1>1, <1>9 DEF vars, TablesInv, RequestsOfAssets, EmptyTrail, TrailLeadsHere
<1> QED
  BY <1>5, <1>6, <1>7, <1>8, <1>9 DEF Next

\* What is committed is the plan: one request per planned asset, and a trail that fits.
LEMMA TablesSeeded ==
    ASSUME DraftInv, CommitSeed
    PROVE  TablesInv'
<1>1. /\ seeding = "commit" /\ status' = draft.status /\ holder' = draft.holder
      /\ request' = draft.request /\ history' = draft.history
  BY DEF CommitSeed
<1>2. /\ draft \in Draft /\ \A a \in Assets : draft.holder[a] = SeedHolder(a)
      /\ \A c \in Codes : PlanRow(c)
      /\ \A a \in Assets : PlanAsset(a) /\ draft.history[a] = Trail(a)
  BY <1>1 DEF DraftInv
<1>3. TypeOK'
  BY <1>1, <1>2 DEF TypeOK, Draft
<1>4. ASSUME NEW c \in Codes, NEW a \in Assets, request'[c].asset = a
      PROVE  HasPlan(a) /\ c = InUseRank(a) /\ request'[c].status \in PlanStatus
             /\ request'[c].requester = SeedHolder(a)
  <2>1. Planned(c)
    BY <1>1, <1>2, <1>4, NoOneAssumption DEF PlanRow, NoRequest
  <2> QED
    BY <1>1, <1>2, <1>4, <2>1, PlanIsOneToOne DEF PlanRow
<1>5. ASSUME NEW a \in Assets, HasPlan(a)
      PROVE  /\ InUseRank(a) \in Codes /\ request'[InUseRank(a)].asset = a
             /\ request'[InUseRank(a)].status \in PlanStatus
             /\ status'[a] = AfterRequest(request'[InUseRank(a)].status)
  BY <1>1, <1>2, <1>5, PlanIsOneToOne DEF PlanRow, PlanAsset
<1>6. ASSUME NEW a \in Assets, ~HasPlan(a)
      PROVE  /\ status'[a] = SeedStatus(a) /\ \A c \in Codes : request'[c].asset # a
  BY <1>1, <1>2, <1>4, <1>6 DEF PlanAsset
<1>7. OneActiveRequest'
  BY <1>4 DEF OneActiveRequest, Active
<1>8. AssetFollowsRequest'
  <2>1. ASSUME NEW a \in Assets, HasPlan(a)
        PROVE  /\ status'[a] = "pending_repair" <=>
                     \E c \in Codes : request'[c].asset = a /\ request'[c].status = "pending_review"
               /\ status'[a] = "under_repair" <=>
                     \E c \in Codes : request'[c].asset = a /\ request'[c].status = "under_repair"
    BY <1>4, <1>5, <2>1, AfterRequestTyped
  <2>2. ASSUME NEW a \in Assets, ~HasPlan(a)
        PROVE  /\ status'[a] \notin {"pending_repair", "under_repair"}
               /\ \A c \in Codes : request'[c].asset # a
    BY <1>6, <2>2, HolderOfSeed
  <2> QED
    BY <2>1, <2>2 DEF AssetFollowsRequest
<1>9. CustodyHeld'
  <2>1. ASSUME NEW a \in Assets
        PROVE  holder'[a] = NoOne <=> status'[a] \in {"in_stock", "disposed"}
    <3>1. holder'[a] = SeedHolder(a)
      BY <1>1, <1>2
    <3>2. CASE HasPlan(a)
      BY <1>5, <3>1, <3>2, AfterRequestTyped, HolderOfSeed DEF HasPlan
    <3>3. CASE ~HasPlan(a)
      BY <1>6, <3>1, <3>3, HolderOfSeed
    <3> QED
      BY <3>2, <3>3
  <2>2. ASSUME NEW a \in Assets, NEW c \in Codes, request'[c].asset = a
        PROVE  request'[c].requester = holder'[a]
    BY <1>1, <1>2, <1>4, <2>2
  <2> QED
    BY <2>1, <2>2 DEF CustodyHeld, Active
<1>10. RequestsOfAssets'
  <2>1. ASSUME NEW c \in Codes, request'[c].status # "absent" PROVE request'[c].asset \in Assets
    <3>1. Planned(c)
      BY <1>1, <1>2, <2>1 DEF PlanRow, NoRequest
    <3> QED
      BY <1>1, <1>2, <3>1, PlanIsOneToOne DEF PlanRow
  <2> QED
    BY <2>1 DEF RequestsOfAssets
<1>11. EmptyTrail' /\ TrailLeadsHere'
  <2>1. ASSUME NEW a \in Assets
        PROVE  /\ history'[a] = <<>> => status'[a] = "in_stock"
               /\ history'[a] # <<>> =>
                     /\ history'[a][Len(history'[a])].to = status'[a]
                     /\ \A i \in 1..(Len(history'[a]) - 1) :
                           history'[a][i].to = history'[a][i + 1].from
                     /\ history'[a][1].from = "in_stock"
    BY <1>1, <1>2, TrailsTyped
  <2> QED
    BY <2>1 DEF EmptyTrail, TrailLeadsHere
<1> QED
  BY <1>3, <1>7, <1>8, <1>9, <1>10, <1>11 DEF TablesInv, IInv

LEMMA TablesStep == DraftInv /\ TablesInv /\ [FleetNext]_<<vars, seedVars, reader>> => TablesInv'
<1> SUFFICES ASSUME DraftInv, TablesInv, [FleetNext]_<<vars, seedVars, reader>> PROVE TablesInv'
  OBVIOUS
<1>1. CASE HandlerNext \/ UNCHANGED vars
  BY <1>1, TablesHandled DEF HandlerNext
<1>2. CASE CommitSeed
  BY <1>2, TablesSeeded
<1>3. CASE SeedNext /\ ~CommitSeed
  <2>1. UNCHANGED vars
    BY <1>3 DEF SeedNext, Wipe, BuildAssets, BuildRequests, BuildImage, BuildHistories, SeedFails,
                tables, vars
  <2> QED
    BY <2>1, TablesHandled
<1> QED
  BY <1>1, <1>2, <1>3 DEF FleetNext

LEMMA TablesInvariant == FleetSpec => [](DraftInv /\ TablesInv)
<1>1. FleetInit => DraftInv /\ TablesInv
  BY DraftInit, TablesInit DEF FleetInit
<1>2. DraftInv /\ TablesInv /\ [FleetNext]_<<vars, seedVars, reader>> => (DraftInv /\ TablesInv)'
  BY DraftStep, TablesStep
<1> QED
  BY <1>1, <1>2, PTL DEF FleetSpec

\* Seeding a database in use breaks none of what the handlers rely on: the rows the script
\* commits have the declared types, no asset has two open requests, assets and requests
\* agree, and custody is held.
THEOREM SeedKeepsLifecycle ==
    FleetSpec => [](TypeOK /\ OneActiveRequest /\ AssetFollowsRequest /\ CustodyHeld)
<1>1. TablesInv => TypeOK /\ OneActiveRequest /\ AssetFollowsRequest /\ CustodyHeld
  BY DEF TablesInv, IInv
<1> QED
  BY <1>1, TablesInvariant, PTL

\* Every audit trail is one walk through the lifecycle to where its asset is, whether the
\* handlers wrote it, build_action_histories, or first the one and then the other.
THEOREM TrailsLeadHere == FleetSpec => []TrailLeadsHere
<1>1. TablesInv => TrailLeadsHere
  BY DEF TablesInv
<1> QED
  BY <1>1, TablesInvariant, PTL

\* However many seedings end half-way, a committed image row names a file that is there.
THEOREM SeededFilesExist == FleetSpec => []SeededImagesExist
<1>1. FleetInit => SeededImagesExist
  BY DEF FleetInit, SeedInit, SeededImagesExist
<1>2. DraftInv /\ SeededImagesExist /\ [FleetNext]_<<vars, seedVars, reader>> => SeededImagesExist'
  <2> SUFFICES ASSUME DraftInv, SeededImagesExist, [FleetNext]_<<vars, seedVars, reader>>
               PROVE  SeededImagesExist'
    OBVIOUS
  <2>1. CASE CommitSeed
    BY <2>1 DEF CommitSeed, DraftInv, Draft, SeededImagesExist
  <2>2. CASE BuildImage
    BY <2>2 DEF BuildImage, SeededImagesExist
  <2>3. CASE Wipe \/ BuildAssets \/ BuildRequests \/ BuildHistories \/ SeedFails
    BY <2>3 DEF Wipe, BuildAssets, BuildRequests, BuildHistories, SeedFails, SeededImagesExist
  <2>4. CASE HandlerNext \/ UNCHANGED seedVars
    BY <2>4 DEF HandlerNext, seedVars, SeededImagesExist
  <2> QED
    BY <2>1, <2>2, <2>3, <2>4 DEF FleetNext, SeedNext
<1>3. DraftInv /\ TablesInv => DraftInv
  OBVIOUS
<1> QED
  BY <1>1, <1>2, <1>3, TablesInvariant, PTL DEF FleetSpec

\* In the step that shows a client the images of a seeding, nothing of the old fleet is left
\* and every planned asset has its request.
LEMMA CommitReplacesAll ==
    ASSUME DraftInv, [FleetNext]_<<vars, seedVars, reader>>, images' # images
    PROVE  /\ {i[1] : i \in images'} \subseteq {seeds}
           /\ {c \in Codes : request'[c] # NoRequest} = {c \in Codes : Planned(c)}
           /\ \A a \in Assets : HasPlan(a) <=> \E c \in Codes : request'[c].asset = a
<1>1. CommitSeed
  BY DEF FleetNext, HandlerNext, SeedNext, seedVars, Wipe, BuildAssets, BuildRequests, BuildImage,
         BuildHistories, SeedFails
<1>2. request' = draft.request /\ images' = draft.images /\ seeding = "commit"
  BY <1>1 DEF CommitSeed
<1>3. {i[1] : i \in images'} \subseteq {seeds}
  BY <1>2 DEF DraftInv
<1>4. \A c \in Codes : PlanRow(c)
  BY <1>2 DEF DraftInv
<1>5. ASSUME NEW c \in Codes
      PROVE  /\ Planned(c) => request'[c].asset = AssetOfCode(c) /\ request'[c] # NoRequest
             /\ ~Planned(c) => request'[c] = NoRequest
  BY <1>2, <1>4 DEF PlanRow, PlanStatus, NoRequest
<1>6. ASSUME NEW a \in Assets PROVE HasPlan(a) <=> \E c \in Codes : request'[c].asset = a
  <2>1. CASE HasPlan(a)
    BY <1>5, <2>1, PlanIsOneToOne
  <2>2. ASSUME NEW c \in Codes, request'[c].asset = a PROVE HasPlan(a)
    BY <1>5, <2>2, PlanIsOneToOne, NoOneAssumption DEF NoRequest
  <2> QED
    BY <2>1, <2>2
<1> QED
  BY <1>3, <1>5, <1>6

THEOREM SeedingIsAtomic == FleetSpec => SeedReplacesAll
<1>1. DraftInv /\ [FleetNext]_<<vars, seedVars, reader>>
        => [ images' # images =>
                /\ {i[1] : i \in images'} \subseteq {seeds}
                /\ {c \in Codes : request'[c] # NoRequest} = {c \in Codes : Planned(c)}
                /\ \A a \in Assets : HasPlan(a) <=> \E c \in Codes : request'[c].asset = a
           ]_<<seedVars, tables>>
  BY CommitReplacesAll
<1>2. DraftInv /\ TablesInv => DraftInv
  OBVIOUS
<1> QED
  BY <1>1, <1>2, TablesInvariant, PTL DEF FleetSpec, SeedReplacesAll

-----------------------------------------------------------------------------
(* What the counts of one snapshot have to do with each other.              *)

\* The columns a reading handler looks at.
Rows == [Assets -> AssetStatus] \X [Assets -> Holders \cup {NoOne}] \X [Codes -> RequestRow]

\* The assets and the requests of a snapshot tell the same story.
Agreeing(v) ==
    /\ \A c, d \in Codes :
          /\ v[3][c].status \in ActiveStatus /\ v[3][d].status \in ActiveStatus
          /\ v[3][c].asset = v[3][d].asset
          => c = d
    /\ \A c \in Codes : v[3][c].status # "absent" => v[3][c].asset \in Assets
    /\ \A a \in Assets :
          /\ v[1][a] = "pending_repair" <=>
                \E c \in Codes : v[3][c].asset = a /\ v[3][c].status = "pending_review"
          /\ v[1][a] = "under_repair" <=>
                \E c \in Codes : v[3][c].asset = a /\ v[3][c].status = "under_repair"

LEMMA SameSize ==
    ASSUME NEW S, NEW T, IsFiniteSet(S), IsFiniteSet(T), NEW f \in [S -> T],
           \A x, y \in S : f[x] = f[y] => x = y,
           \A t \in T : \E x \in S : f[x] = t
    PROVE  Cardinality(S) = Cardinality(T)
<1> DEFINE g == [t \in T |-> CHOOSE x \in S : f[x] = t]
<1>1. g \in [T -> S] /\ \A t \in T : f[g[t]] = t
  OBVIOUS
<1>2. \A t, u \in T : g[t] = g[u] => t = u
  BY <1>1
<1> HIDE DEF g
<1>3. Cardinality(S) \in Nat /\ Cardinality(T) \in Nat
  BY FS_CardinalityType
<1>4. ~(Cardinality(T) < Cardinality(S))
  BY FS_PigeonHole
<1>5. ~(Cardinality(S) < Cardinality(T))
  BY <1>1, <1>2, FS_PigeonHole
<1> QED
  BY <1>3, <1>4, <1>5

LEMMA DisjointUnion ==
    ASSUME NEW S, NEW T, IsFiniteSet(S), IsFiniteSet(T), S \cap T = {}
    PROVE  /\ IsFiniteSet(S \cup T)
           /\ Cardinality(S \cup T) = Cardinality(S) + Cardinality(T)
           /\ Cardinality(S) \in Nat /\ Cardinality(T) \in Nat
<1>1. Cardinality(S) \in Nat /\ Cardinality(T) \in Nat
  BY FS_CardinalityType
<1>2. Cardinality(S \cap T) = 0
  BY FS_EmptySet
<1>3. /\ IsFiniteSet(S \cup T)
      /\ Cardinality(S \cup T) = Cardinality(S) + Cardinality(T) - Cardinality(S \cap T)
  BY FS_Union
<1> QED
  BY <1>1, <1>2, <1>3

LEMMA CountsAgree ==
    ASSUME NEW v \in Rows, Agreeing(v)
    PROVE  LET assets(s) == Cardinality({a \in Assets : v[1][a] = s})
               asked(s) == Cardinality({c \in Codes : v[3][c].status = s}) IN
           /\ \A s \in AssetStatus : assets(s) \in Nat
           /\ asked("pending_review") \in Nat /\ asked("under_repair") \in Nat
           /\ Cardinality(Assets \ {a \in Assets : v[1][a] = "disposed"})
                 = assets("in_stock") + assets("in_use") + assets("pending_repair")
                   + assets("under_repair")
           /\ assets("pending_repair") = asked("pending_review")
           /\ assets("under_repair") = asked("under_repair")
<1> DEFINE In(s) == {a \in Assets : v[1][a] = s}
           Asked(s) == {c \in Codes : v[3][c].status = s}
<1>1. /\ v[1] \in [Assets -> AssetStatus] /\ v[3] \in [Codes -> RequestRow]
      /\ IsFiniteSet(Assets) /\ IsFiniteSet(Codes)
  BY ReadsAssumption DEF Rows
<1>2. \A s : IsFiniteSet(In(s)) /\ Cardinality(In(s)) \in Nat
  <2>1. \A s : In(s) \in SUBSET Assets
    OBVIOUS
  <2> HIDE DEF In
  <2> QED
    BY <1>1, <2>1, FS_Subset, FS_CardinalityType
<1>3. \A s : IsFiniteSet(Asked(s)) /\ Cardinality(Asked(s)) \in Nat
  <2>1. \A s : Asked(s) \in SUBSET Codes
    OBVIOUS
  <2> HIDE DEF Asked
  <2> QED
    BY <1>1, <2>1, FS_Subset, FS_CardinalityType
<1>4. Cardinality(Assets \ In("disposed"))
        = Cardinality(In("in_stock")) + Cardinality(In("in_use"))
          + Cardinality(In("pending_repair")) + Cardinality(In("under_repair"))
  <2> DEFINE P == In("in_stock") \cup In("in_use")
             Q == In("pending_repair") \cup In("under_repair")
  <2>1. Assets \ In("disposed") = P \cup Q /\ P \cap Q = {}
    BY <1>1 DEF AssetStatus
  <2>2. /\ In("in_stock") \cap In("in_use") = {}
        /\ In("pending_repair") \cap In("under_repair") = {}
    OBVIOUS
  <2> HIDE DEF In
  <2>3. /\ IsFiniteSet(P) /\ Cardinality(P) = Cardinality(In("in_stock")) + Cardinality(In("in_use"))
    BY <1>2, <2>2, DisjointUnion
  <2>4. /\ IsFiniteSet(Q)
        /\ Cardinality(Q) = Cardinality(In("pending_repair")) + Cardinality(In("under_repair"))
    BY <1>2, <2>2, DisjointUnion
  <2> HIDE DEF P, Q
  <2>5. Cardinality(P \cup Q) = Cardinality(P) + Cardinality(Q)
    BY <2>1, <2>3, <2>4, DisjointUnion
  <2>6. Cardinality(Assets \ In("disposed")) = Cardinality(P) + Cardinality(Q)
    BY <2>1, <2>5
  <2> QED
    BY <1>2, <2>3, <2>4, <2>6
<1>5. ASSUME NEW s, NEW q, q \in ActiveStatus,
             \A a \in Assets : v[1][a] = s <=>
                 \E c \in Codes : v[3][c].asset = a /\ v[3][c].status = q
      PROVE  Cardinality(In(s)) = Cardinality(Asked(q))
  <2> DEFINE f == [c \in Asked(q) |-> v[3][c].asset]
  <2>1. \A c \in Asked(q) : v[3][c].asset \in Assets /\ v[1][v[3][c].asset] = s
    BY <1>1, <1>5 DEF Agreeing, ActiveStatus
  <2>2. f \in [Asked(q) -> In(s)]
    BY <2>1
  <2>3. \A x, y \in Asked(q) : f[x] = f[y] => x = y
    BY <1>5 DEF Agreeing
  <2>4. \A t \in In(s) : \E x \in Asked(q) : f[x] = t
    BY <1>5
  <2> HIDE DEF f, In, Asked
  <2> QED
    BY <1>2, <1>3, <2>2, <2>3, <2>4, SameSize
<1>6. /\ \A a \in Assets : v[1][a] = "pending_repair" <=>
             \E c \in Codes : v[3][c].asset = a /\ v[3][c].status = "pending_review"
      /\ \A a \in Assets : v[1][a] = "under_repair" <=>
             \E c \in Codes : v[3][c].asset = a /\ v[3][c].status = "under_repair"
  BY DEF Agreeing
<1>7. "pending_review" \in ActiveStatus /\ "under_repair" \in ActiveStatus
  BY DEF ActiveStatus
<1> HIDE DEF In, Asked
<1>8. Cardinality(In("pending_repair")) = Cardinality(Asked("pending_review"))
  BY <1>5, <1>6, <1>7
<1>9. Cardinality(In("under_repair")) = Cardinality(Asked("under_repair"))
  BY <1>5, <1>6, <1>7
<1> QED
  BY <1>2, <1>3, <1>4, <1>8, <1>9 DEF In, Asked

-----------------------------------------------------------------------------
(* The reading handlers.                                                    *)

Answer ==
    Nat \cup [total : Nat, in_stock : Nat, in_use : Nat, pending_repair : Nat, under_repair : Nat]
    \cup [pending_review : Nat, under_repair : Nat]

Reading == [ask : Asks \cup {NoAsk}, view : Rows \cup {<<>>}, got : Seq(Answer),
            code : {0, 200, 403, 503}]

\* Counts in the snapshot v, and the rows a list request q is about.
AssetsAt(v, s) == Cardinality({a \in Assets : v[1][a] = s})
RequestsAt(v, s) == Cardinality({c \in Codes : v[3][c].status = s})
InService(v) == Cardinality(Assets \ {a \in Assets : v[1][a] = "disposed"})
Matching(q) ==
    CASE q.ask.kind = "assets" -> {a \in Assets : q.ask.filter \in {"any", q.view[1][a]}}
      [] q.ask.kind = "mine" -> {a \in Assets : q.view[2][a] = q.ask.user}
      [] OTHER -> {c \in Codes : /\ q.view[3][c].status # "absent"
                                 /\ q.ask.user \in {Manager, q.view[3][c].requester}}

Lists == {"assets", "mine", "requests"}

\* What the SELECTs of q returned so far is what its snapshot holds.
DashboardSoFar(q) ==
    /\ Len(q.got) <= 4
    /\ Len(q.got) >= 1 =>
          /\ q.got[1].total = InService(q.view)
          /\ q.got[1].in_stock = AssetsAt(q.view, "in_stock")
          /\ q.got[1].in_use = AssetsAt(q.view, "in_use")
          /\ q.got[1].pending_repair = AssetsAt(q.view, "pending_repair")
          /\ q.got[1].under_repair = AssetsAt(q.view, "under_repair")
    /\ Len(q.got) >= 2 => q.got[2] = InService(q.view)
    /\ Len(q.got) >= 3 =>
          /\ q.got[3].pending_review = RequestsAt(q.view, "pending_review")
          /\ q.got[3].under_repair = RequestsAt(q.view, "under_repair")
    /\ Len(q.got) >= 4 =>
          q.got[4] = Smaller(RecentLimit, RequestsAt(q.view, "pending_review"))
ListSoFar(q) ==
    /\ Len(q.got) <= 2
    /\ Len(q.got) >= 1 => q.got[1] = Cardinality(Matching(q))
    /\ Len(q.got) >= 2 => q.got[2] = OnPage(Cardinality(Matching(q)), q.ask.page)

\* Until it replies a request reads one snapshot in which the tables agree.
SnapshotRead(q) ==
    /\ q.ask.kind = "none" => q = Waiting
    /\ q.ask.kind # "none" /\ q.code = 0 => q.view \in Rows /\ Agreeing(q.view)
    /\ q.ask.kind = "dashboard" /\ q.code = 0 => DashboardSoFar(q)
    /\ q.ask.kind \in Lists /\ q.code = 0 => ListSoFar(q)

\* What a complete answer says fits together.
AnswerAgrees(q) ==
    /\ q.ask.kind = "dashboard" /\ q.code = 200 =>
          /\ q.got[1].total = q.got[1].in_stock + q.got[1].in_use + q.got[1].pending_repair
                                + q.got[1].under_repair
          /\ q.got[2] = q.got[1].total
          /\ q.got[1].pending_repair = q.got[3].pending_review
          /\ q.got[1].under_repair = q.got[3].under_repair
          /\ q.got[4] = Smaller(RecentLimit, q.got[3].pending_review)
    /\ q.ask.kind \in Lists /\ q.code = 200 => q.got[2] = OnPage(q.got[1], q.ask.page)

ReadersInv ==
    /\ reader \in [Readers -> Reading]
    /\ \A r \in Readers : SnapshotRead(reader[r]) /\ AnswerAgrees(reader[r])

LEMMA Appended ==
    ASSUME NEW S, NEW s \in Seq(S), NEW x \in S
    PROVE  LET t == Append(s, x) IN
           /\ t \in Seq(S) /\ Len(s) \in Nat /\ Len(t) = Len(s) + 1 /\ t[Len(s) + 1] = x
           /\ \A i \in 1..Len(s) : t[i] = s[i]
  OBVIOUS

\* Some fields of a request change.
LEMMA GotChanges ==
    ASSUME NEW q \in Reading, NEW got \in Seq(Answer)
    PROVE  LET e == [q EXCEPT !.got = got] IN
           e \in Reading /\ e.ask = q.ask /\ e.view = q.view /\ e.code = q.code /\ e.got = got
<1> DEFINE A == Asks \cup {NoAsk}
           V == Rows \cup {<<>>}
           G == Seq(Answer)
           N == {0, 200, 403, 503}
<1>1. q \in [ask : A, view : V, got : G, code : N] /\ got \in G
  BY DEF Reading
<1> HIDE DEF A, V, G, N
<1>2. LET e == [q EXCEPT !.got = got] IN
      e \in [ask : A, view : V, got : G, code : N] /\ e.ask = q.ask /\ e.view = q.view /\ e.code = q.code /\ e.got = got
  BY <1>1, SMTT(30)
<1> QED
  BY <1>2, SMTT(30) DEF Reading, A, V, G, N

LEMMA Replied ==
    ASSUME NEW q \in Reading
    PROVE  LET e == [q EXCEPT !.code = 200, !.view = <<>>] IN
           e \in Reading /\ e.ask = q.ask /\ e.got = q.got /\ e.code = 200
<1> DEFINE A == Asks \cup {NoAsk}
           V == Rows \cup {<<>>}
           G == Seq(Answer)
           N == {0, 200, 403, 503}
           none == <<>>
           n == 200
<1>1. q \in [ask : A, view : V, got : G, code : N] /\ none \in V /\ n \in N
  BY DEF Reading
<1> HIDE DEF A, V, G, N, none, n
<1>2. LET e == [q EXCEPT !.code = n, !.view = none] IN
      e \in [ask : A, view : V, got : G, code : N] /\ e.ask = q.ask /\ e.got = q.got /\ e.code = n
  BY <1>1
<1> QED
  BY <1>2 DEF Reading, A, V, G, N, none, n

LEMMA Failed ==
    ASSUME NEW q \in Reading
    PROVE  LET e == [q EXCEPT !.code = 503, !.got = <<>>] IN
           e \in Reading /\ e.ask = q.ask /\ e.code = 503
<1> DEFINE A == Asks \cup {NoAsk}
           V == Rows \cup {<<>>}
           G == Seq(Answer)
           N == {0, 200, 403, 503}
           none == <<>>
           n == 503
<1>1. q \in [ask : A, view : V, got : G, code : N] /\ none \in G /\ n \in N
  BY DEF Reading
<1> HIDE DEF A, V, G, N, none, n
<1>2. LET e == [q EXCEPT !.code = n, !.got = none] IN
      e \in [ask : A, view : V, got : G, code : N] /\ e.ask = q.ask /\ e.code = n
  BY <1>1
<1> QED
  BY <1>2 DEF Reading, A, V, G, N, none, n

LEMMA WaitingTyped ==
    /\ Waiting \in Reading /\ Waiting.ask = NoAsk /\ Waiting.got = <<>> /\ Waiting.code = 0
    /\ NoAsk.kind = "none"
    /\ \A ask \in Asks :
          /\ ask.kind \in {"dashboard"} \cup Lists
          /\ ask.page \in Nat \ {0}
<1>1. <<>> \in Seq(Answer)
  OBVIOUS
<1>2. Waiting \in Reading /\ Waiting.ask = NoAsk /\ Waiting.got = <<>> /\ Waiting.code = 0
  BY <1>1 DEF Waiting, Reading
<1> QED
  BY <1>2, ReadsAssumption DEF NoAsk, Asks, Lists

LEMMA PageTyped ==
    ASSUME NEW n \in Nat, NEW p \in Nat \ {0}
    PROVE  OnPage(n, p) \in Nat
<1> DEFINE m == (p - 1) * PerPage
<1>1. m \in Nat /\ PerPage \in Nat
  BY ReadsAssumption
<1> HIDE DEF m
<1>2. OnPage(n, p) = IF n <= m THEN 0 ELSE Smaller(PerPage, n - m)
  BY DEF OnPage, m
<1> QED
  BY <1>1, <1>2 DEF Smaller

LEMMA MatchingTyped ==
    ASSUME NEW q \in Reading
    PROVE  Cardinality(Matching(q)) \in Nat
<1>1. Matching(q) \in SUBSET Assets \/ Matching(q) \in SUBSET Codes
  BY DEF Matching
<1> QED
  BY <1>1, ReadsAssumption, FS_Subset, FS_CardinalityType

\* A new request takes its snapshot of tables that agree.
LEMMA SnapshotAgrees ==
    ASSUME TablesInv
    PROVE  rows \in Rows /\ Agreeing(rows)
<1>1. rows \in Rows /\ rows[1] = status /\ rows[3] = request
  BY DEF rows, Rows, TablesInv, IInv, TypeOK
<1> QED
  BY <1>1 DEF Agreeing, TablesInv, IInv, OneActiveRequest, Active, AssetFollowsRequest,
              RequestsOfAssets, ActiveStatus

\* One SELECT more.
LEMMA OneSelect ==
    ASSUME NEW q \in Reading, NEW x \in Answer
    PROVE  LET e == [q EXCEPT !.got = Append(q.got, x)] IN
           /\ e \in Reading /\ e.ask = q.ask /\ e.view = q.view /\ e.code = q.code
           /\ Len(q.got) \in Nat /\ Len(e.got) = Len(q.got) + 1 /\ e.got[Len(q.got) + 1] = x
           /\ \A i \in 1..Len(q.got) : e.got[i] = q.got[i]
<1>1. q.ask \in Asks \cup {NoAsk} /\ q.view \in Rows \cup {<<>>} /\ q.got \in Seq(Answer)
      /\ q.code \in {0, 200, 403, 503}
  BY DEF Reading
<1> DEFINE s == Append(q.got, x)
<1>2. /\ s \in Seq(Answer) /\ Len(q.got) \in Nat /\ Len(s) = Len(q.got) + 1
      /\ s[Len(q.got) + 1] = x /\ \A i \in 1..Len(q.got) : s[i] = q.got[i]
  BY <1>1, Appended
<1> HIDE DEF s
<1>3. LET e == [q EXCEPT !.got = s] IN
      e \in Reading /\ e.ask = q.ask /\ e.view = q.view /\ e.code = q.code /\ e.got = s
  BY <1>2, GotChanges
<1> QED
  BY <1>2, <1>3 DEF s

LEMMA DashboardSelects ==
    ASSUME NEW q \in Reading, SnapshotRead(q), q.ask.kind = "dashboard", q.code = 0,
           NEW x \in Answer,
           \/ /\ Len(q.got) = 0
              /\ x.total = InService(q.view)
              /\ x.in_stock = AssetsAt(q.view, "in_stock")
              /\ x.in_use = AssetsAt(q.view, "in_use")
              /\ x.pending_repair = AssetsAt(q.view, "pending_repair")
              /\ x.under_repair = AssetsAt(q.view, "under_repair")
           \/ Len(q.got) = 1 /\ x = InService(q.view)
           \/ /\ Len(q.got) = 2
              /\ x.pending_review = RequestsAt(q.view, "pending_review")
              /\ x.under_repair = RequestsAt(q.view, "under_repair")
           \/ Len(q.got) = 3 /\ x = Smaller(RecentLimit, RequestsAt(q.view, "pending_review"))
    PROVE  LET e == [q EXCEPT !.got = Append(q.got, x)] IN
           e \in Reading /\ SnapshotRead(e) /\ e.code = 0
<1> DEFINE e == [q EXCEPT !.got = Append(q.got, x)]
<1>1. /\ e \in Reading /\ e.ask = q.ask /\ e.view = q.view /\ e.code = q.code
      /\ Len(q.got) \in Nat /\ Len(e.got) = Len(q.got) + 1 /\ e.got[Len(q.got) + 1] = x
      /\ \A i \in 1..Len(q.got) : e.got[i] = q.got[i]
  BY OneSelect
<1>2. DashboardSoFar(q) /\ q.view \in Rows /\ Agreeing(q.view)
  BY DEF SnapshotRead
<1> HIDE DEF e
<1>4. DashboardSoFar(e)
  <2>1. CASE Len(q.got) = 0
    BY <1>1, <1>2, <2>1 DEF DashboardSoFar
  <2>2. CASE Len(q.got) = 1
    BY <1>1, <1>2, <2>2 DEF DashboardSoFar
  <2>3. CASE Len(q.got) = 2
    BY <1>1, <1>2, <2>3 DEF DashboardSoFar
  <2>4. CASE Len(q.got) = 3
    BY <1>1, <1>2, <2>4 DEF DashboardSoFar
  <2> QED
    BY <2>1, <2>2, <2>3, <2>4
<1>5. SnapshotRead(e)
  BY <1>1, <1>2, <1>4 DEF SnapshotRead, Lists
<1> QED
  BY <1>1, <1>5 DEF e

LEMMA ListSelects ==
    ASSUME NEW q \in Reading, SnapshotRead(q), q.ask.kind \in Lists, q.code = 0,
           NEW x \in Answer,
           \/ Len(q.got) = 0 /\ x = Cardinality(Matching(q))
           \/ Len(q.got) = 1 /\ x = OnPage(Cardinality(Matching(q)), q.ask.page)
    PROVE  LET e == [q EXCEPT !.got = Append(q.got, x)] IN
           e \in Reading /\ SnapshotRead(e) /\ e.code = 0
<1> DEFINE e == [q EXCEPT !.got = Append(q.got, x)]
<1>1. /\ e \in Reading /\ e.ask = q.ask /\ e.view = q.view /\ e.code = q.code
      /\ Len(q.got) \in Nat /\ Len(e.got) = Len(q.got) + 1 /\ e.got[Len(q.got) + 1] = x
      /\ \A i \in 1..Len(q.got) : e.got[i] = q.got[i]
  BY OneSelect
<1>2. ListSoFar(q) /\ q.view \in Rows /\ Agreeing(q.view) /\ q.ask.kind \notin {"dashboard", "none"}
  BY DEF SnapshotRead, Lists
<1> HIDE DEF e
<1>3. Matching(e) = Matching(q)
  BY <1>1 DEF Matching
<1>4. ListSoFar(e)
  <2>1. CASE Len(q.got) = 0
    BY <1>1, <1>2, <1>3, <2>1 DEF ListSoFar
  <2>2. CASE Len(q.got) = 1
    <3>1. Len(e.got) = 2 /\ e.got[2] = OnPage(Cardinality(Matching(q)), q.ask.page)
      BY <1>1, <1>2, <2>2
    <3>2. e.got[1] = Cardinality(Matching(q))
      BY <1>1, <1>2, <2>2 DEF ListSoFar
    <3> QED
      BY <1>1, <1>3, <3>1, <3>2 DEF ListSoFar
  <2> QED
    BY <2>1, <2>2
<1>5. SnapshotRead(e)
  BY <1>1, <1>2, <1>4 DEF SnapshotRead
<1> QED
  BY <1>1, <1>5 DEF e

\* The reply to a dashboard request sums up one snapshot.
LEMMA RepliesAgree ==
    ASSUME NEW q \in Reading, SnapshotRead(q), q.code = 0,
           \/ q.ask.kind = "dashboard" /\ Len(q.got) = 4
           \/ q.ask.kind \in Lists /\ Len(q.got) = 2,
           NEW e \in Reading, e.ask = q.ask, e.got = q.got, e.code = 200
    PROVE  SnapshotRead(e) /\ AnswerAgrees(e)
<1>1. SnapshotRead(e)
  BY DEF SnapshotRead, Lists
<1>2. q.view \in Rows /\ Agreeing(q.view)
  BY DEF SnapshotRead, Lists
<1>3. CASE q.ask.kind = "dashboard" /\ Len(q.got) = 4
  <2>1. /\ q.got[1].total = InService(q.view)
        /\ q.got[1].in_stock = AssetsAt(q.view, "in_stock")
        /\ q.got[1].in_use = AssetsAt(q.view, "in_use")
        /\ q.got[1].pending_repair = AssetsAt(q.view, "pending_repair")
        /\ q.got[1].under_repair = AssetsAt(q.view, "under_repair")
        /\ q.got[2] = InService(q.view)
        /\ q.got[3].pending_review = RequestsAt(q.view, "pending_review")
        /\ q.got[3].under_repair = RequestsAt(q.view, "under_repair")
        /\ q.got[4] = Smaller(RecentLimit, RequestsAt(q.view, "pending_review"))
    BY <1>3 DEF SnapshotRead, DashboardSoFar
  <2>2. /\ InService(q.view) = AssetsAt(q.view, "in_stock") + AssetsAt(q.view, "in_use")
             + AssetsAt(q.view, "pending_repair") + AssetsAt(q.view, "under_repair")
        /\ AssetsAt(q.view, "pending_repair") = RequestsAt(q.view, "pending_review")
        /\ AssetsAt(q.view, "under_repair") = RequestsAt(q.view, "under_repair")
    BY <1>2, CountsAgree DEF InService, AssetsAt, RequestsAt
  <2> QED
    BY <1>1, <1>3, <2>1, <2>2 DEF AnswerAgrees, Lists
<1>4. CASE q.ask.kind \in Lists /\ Len(q.got) = 2
  <2>1. q.got[1] = Cardinality(Matching(q)) /\ q.got[2] = OnPage(Cardinality(Matching(q)), q.ask.page)
    BY <1>4 DEF SnapshotRead, ListSoFar
  <2> QED
    BY <1>1, <1>4, <2>1 DEF AnswerAgrees, Lists
<1> QED
  BY <1>3, <1>4

LEMMA ReaderMoves ==
    ASSUME TablesInv, ReadersInv, NEW r \in Readers,
           \/ \E ask \in Asks : Authenticate(r, ask)
           \/ SelectTotal(r) \/ SelectPage(r)
           \/ SelectAssetKpis(r) \/ SelectCategories(r)
           \/ SelectRepairSummary(r) \/ SelectRecentPending(r)
           \/ Reply(r) \/ ReadFails(r) \/ Close(r)
    PROVE  /\ reader' = [reader EXCEPT ![r] = reader'[r]]
           /\ reader'[r] \in Reading /\ SnapshotRead(reader'[r]) /\ AnswerAgrees(reader'[r])
<1> DEFINE q == reader[r]
           Goal == /\ reader' = [reader EXCEPT ![r] = reader'[r]]
                   /\ reader'[r] \in Reading /\ SnapshotRead(reader'[r]) /\ AnswerAgrees(reader'[r])
<1>1. reader \in [Readers -> Reading] /\ q \in Reading /\ SnapshotRead(q) /\ AnswerAgrees(q)
  BY DEF ReadersInv
<1>2. /\ q.ask \in Asks \cup {NoAsk} /\ q.view \in Rows \cup {<<>>} /\ q.got \in Seq(Answer)
      /\ q.code \in {0, 200, 403, 503} /\ <<>> \in Seq(Answer)
  BY <1>1 DEF Reading
<1>3. ASSUME NEW e, reader' = [reader EXCEPT ![r] = e]
      PROVE  reader'[r] = e /\ reader' = [reader EXCEPT ![r] = reader'[r]]
  BY <1>1, <1>3
<1>4. ASSUME NEW ask \in Asks, Authenticate(r, ask) PROVE Goal
  <2> DEFINE n == IF Allowed(ask) THEN 0 ELSE 403
             e == [q EXCEPT !.ask = ask, !.view = rows, !.code = n]
  <2>1. q = Waiting /\ reader' = [reader EXCEPT ![r] = e]
    BY <1>1, <1>4 DEF Authenticate
  <2>2. q.got = <<>> /\ ask.kind \in {"dashboard"} \cup Lists
    BY <2>1, WaitingTyped
  <2>3. n \in {0, 403}
    OBVIOUS
  <2> HIDE DEF n
  <2>4. rows \in Rows /\ Agreeing(rows)
    BY SnapshotAgrees
  <2>5. e \in Reading /\ e.ask = ask /\ e.view = rows /\ e.code = n /\ e.got = q.got
    <3> DEFINE A == Asks \cup {NoAsk}
               V == Rows \cup {<<>>}
               G == Seq(Answer)
               N == {0, 200, 403, 503}
    <3>1. q \in [ask : A, view : V, got : G, code : N] /\ ask \in A /\ rows \in V /\ n \in N
      BY <1>1, <2>3, <2>4 DEF Reading
    <3> HIDE DEF A, V, G, N, q
    <3>2. /\ e \in [ask : A, view : V, got : G, code : N]
          /\ e.ask = ask /\ e.view = rows /\ e.code = n /\ e.got = q.got
      BY <3>1
    <3> QED
      BY <3>2 DEF Reading, A, V, G, N
  <2> HIDE DEF q, e
  <2>6. SnapshotRead(e) /\ AnswerAgrees(e)
    BY <2>2, <2>3, <2>4, <2>5
       DEF SnapshotRead, AnswerAgrees, DashboardSoFar, ListSoFar, Lists
  <2> QED
    BY <1>3, <2>1, <2>5, <2>6
<1>5. ASSUME NEW x \in Answer, Returned(r, x), q.code = 0,
             \/ /\ q.ask.kind = "dashboard"
                /\ \/ /\ Len(q.got) = 0
                      /\ x.total = InService(q.view)
                      /\ x.in_stock = AssetsAt(q.view, "in_stock")
                      /\ x.in_use = AssetsAt(q.view, "in_use")
                      /\ x.pending_repair = AssetsAt(q.view, "pending_repair")
                      /\ x.under_repair = AssetsAt(q.view, "under_repair")
                   \/ Len(q.got) = 1 /\ x = InService(q.view)
                   \/ /\ Len(q.got) = 2
                      /\ x.pending_review = RequestsAt(q.view, "pending_review")
                      /\ x.under_repair = RequestsAt(q.view, "under_repair")
                   \/ /\ Len(q.got) = 3
                      /\ x = Smaller(RecentLimit, RequestsAt(q.view, "pending_review"))
             \/ /\ q.ask.kind \in Lists
                /\ \/ Len(q.got) = 0 /\ x = Cardinality(Matching(q))
                   \/ Len(q.got) = 1 /\ x = OnPage(Cardinality(Matching(q)), q.ask.page)
      PROVE  Goal
  <2> DEFINE e == [q EXCEPT !.got = Append(q.got, x)]
  <2>1. reader' = [reader EXCEPT ![r] = e]
    BY <1>1, <1>5 DEF Returned
  <2> HIDE DEF q
  <2>2. e \in Reading /\ SnapshotRead(e) /\ e.code = 0
    BY <1>1, <1>5, DashboardSelects, ListSelects
  <2> HIDE DEF e
  <2>3. AnswerAgrees(e)
    BY <2>2 DEF AnswerAgrees
  <2> QED
    BY <1>3, <2>1, <2>2, <2>3
<1>6. Sees(r) = q.view /\ Matches(r) = Matching(q)
  BY DEF Sees, Matches, Matching
<1>7. /\ \A s : Cardinality(StatusIn(r, s)) = AssetsAt(q.view, s)
      /\ \A s : Cardinality(RequestsIn(r, s)) = RequestsAt(q.view, s)
      /\ Cardinality(NonDisposed(r)) = InService(q.view)
  BY DEF StatusIn, RequestsIn, NonDisposed, AssetsAt, RequestsAt, InService, Sees
<1>8. ASSUME q.ask.kind = "dashboard", q.code = 0
      PROVE  /\ \A s \in AssetStatus : AssetsAt(q.view, s) \in Nat
             /\ RequestsAt(q.view, "pending_review") \in Nat
             /\ RequestsAt(q.view, "under_repair") \in Nat
             /\ InService(q.view) \in Nat
  <2>1. q.view \in Rows /\ Agreeing(q.view)
    BY <1>1, <1>8 DEF SnapshotRead
  <2>2. /\ \A s \in AssetStatus : AssetsAt(q.view, s) \in Nat
        /\ RequestsAt(q.view, "pending_review") \in Nat
        /\ RequestsAt(q.view, "under_repair") \in Nat
    BY <2>1, CountsAgree DEF AssetsAt, RequestsAt
  <2>3. InService(q.view) = AssetsAt(q.view, "in_stock") + AssetsAt(q.view, "in_use")
             + AssetsAt(q.view, "pending_repair") + AssetsAt(q.view, "under_repair")
    BY <2>1, CountsAgree DEF InService, AssetsAt
  <2> HIDE DEF q
  <2> QED
    BY <2>2, <2>3 DEF AssetStatus
<1>9. CASE SelectTotal(r)
  <2>1. q.ask.kind \in Lists /\ q.code = 0 /\ Len(q.got) = 0 /\ Returned(r, Cardinality(Matching(q)))
    BY <1>6, <1>9 DEF SelectTotal, Asking, Got, Lists
  <2>2. Cardinality(Matching(q)) \in Answer
    BY <1>1, MatchingTyped DEF Answer
  <2> QED
    BY <1>5, <2>1, <2>2
<1>10. CASE SelectPage(r)
  <2>1. /\ q.ask.kind \in Lists /\ q.code = 0 /\ Len(q.got) = 1
        /\ Returned(r, OnPage(Cardinality(Matching(q)), q.ask.page))
    BY <1>6, <1>10 DEF SelectPage, Asking, Got, Lists
  <2>2. q.ask \in Asks
    BY <1>2, <2>1, WaitingTyped DEF Lists
  <2>3. OnPage(Cardinality(Matching(q)), q.ask.page) \in Answer
    BY <1>1, <2>2, MatchingTyped, PageTyped, WaitingTyped DEF Answer
  <2> QED
    BY <1>5, <2>1, <2>3
<1>11. CASE SelectAssetKpis(r)
  <2> DEFINE x == [total |-> InService(q.view), in_stock |-> AssetsAt(q.view, "in_stock"),
                   in_use |-> AssetsAt(q.view, "in_use"),
                   pending_repair |-> AssetsAt(q.view, "pending_repair"),
                   under_repair |-> AssetsAt(q.view, "under_repair")]
  <2>1. q.ask.kind = "dashboard" /\ q.code = 0 /\ Len(q.got) = 0 /\ Returned(r, x)
    BY <1>7, <1>11 DEF SelectAssetKpis, Asking, Got
  <2>2. x \in Answer
    BY <1>8, <2>1 DEF Answer, AssetStatus
  <2>3. /\ x.total = InService(q.view) /\ x.in_stock = AssetsAt(q.view, "in_stock")
        /\ x.in_use = AssetsAt(q.view, "in_use")
        /\ x.pending_repair = AssetsAt(q.view, "pending_repair")
        /\ x.under_repair = AssetsAt(q.view, "under_repair")
    OBVIOUS
  <2> HIDE DEF x
  <2> QED
    BY <1>5, <2>1, <2>2, <2>3
<1>12. CASE SelectCategories(r)
  <2>1. q.ask.kind = "dashboard" /\ q.code = 0 /\ Len(q.got) = 1 /\ Returned(r, InService(q.view))
    BY <1>7, <1>12 DEF SelectCategories, Asking, Got
  <2>2. InService(q.view) \in Answer
    BY <1>8, <2>1 DEF Answer
  <2> QED
    BY <1>5, <2>1, <2>2
<1>13. CASE SelectRepairSummary(r)
  <2> DEFINE x == [pending_review |-> RequestsAt(q.view, "pending_review"),
                   under_repair |-> RequestsAt(q.view, "under_repair")]
  <2>1. q.ask.kind = "dashboard" /\ q.code = 0 /\ Len(q.got) = 2 /\ Returned(r, x)
    BY <1>7, <1>13 DEF SelectRepairSummary, Asking, Got
  <2>2. x \in Answer
    BY <1>8, <2>1 DEF Answer
  <2>3. /\ x.pending_review = RequestsAt(q.view, "pending_review")
        /\ x.under_repair = RequestsAt(q.view, "under_repair")
    OBVIOUS
  <2> HIDE DEF x
  <2> QED
    BY <1>5, <2>1, <2>2, <2>3
<1>14. CASE SelectRecentPending(r)
  <2>1. /\ q.ask.kind = "dashboard" /\ q.code = 0 /\ Len(q.got) = 3
        /\ Returned(r, Smaller(RecentLimit, RequestsAt(q.view, "pending_review")))
    BY <1>7, <1>14 DEF SelectRecentPending, Asking, Got
  <2>2. Smaller(RecentLimit, RequestsAt(q.view, "pending_review")) \in Answer
    BY <1>8, <2>1, ReadsAssumption DEF Answer, Smaller
  <2> QED
    BY <1>5, <2>1, <2>2
<1>15. CASE Reply(r)
  <2> DEFINE e == [q EXCEPT !.code = 200, !.view = <<>>]
  <2>1. /\ q.ask # NoAsk /\ q.code = 0 /\ reader' = [reader EXCEPT ![r] = e]
        /\ Len(q.got) = IF q.ask.kind = "dashboard" THEN 4 ELSE 2
    BY <1>1, <1>15 DEF Reply, Got, LastSelect
  <2>2. q.ask.kind \in {"dashboard"} \cup Lists
    BY <1>2, <2>1, WaitingTyped
  <2>3. e \in Reading /\ e.ask = q.ask /\ e.got = q.got /\ e.code = 200
    BY <1>1, Replied
  <2> HIDE DEF q, e
  <2>4. SnapshotRead(e) /\ AnswerAgrees(e)
    BY <1>1, <2>1, <2>2, <2>3, RepliesAgree DEF Lists
  <2>5. reader'[r] = e /\ reader' = [reader EXCEPT ![r] = reader'[r]]
    BY <1>3, <2>1
  <2> QED
    BY <2>3, <2>4, <2>5
<1>16. CASE ReadFails(r)
  <2> DEFINE e == [q EXCEPT !.code = 503, !.got = <<>>]
  <2>1. q.ask # NoAsk /\ reader' = [reader EXCEPT ![r] = e]
    BY <1>16 DEF ReadFails
  <2>2. q.ask.kind \in {"dashboard"} \cup Lists
    BY <1>2, <2>1, WaitingTyped
  <2>3. e \in Reading /\ e.ask = q.ask /\ e.code = 503
    BY <1>1, Failed
  <2> HIDE DEF q, e
  <2>4. SnapshotRead(e) /\ AnswerAgrees(e)
    BY <2>2, <2>3 DEF SnapshotRead, AnswerAgrees, Lists
  <2>5. reader'[r] = e /\ reader' = [reader EXCEPT ![r] = reader'[r]]
    BY <1>3, <2>1
  <2> QED
    BY <2>3, <2>4, <2>5
<1>17. CASE Close(r)
  <2>1. reader' = [reader EXCEPT ![r] = Waiting]
    BY <1>17 DEF Close
  <2>2. SnapshotRead(Waiting) /\ AnswerAgrees(Waiting)
    BY WaitingTyped DEF SnapshotRead, AnswerAgrees, Lists
  <2> QED
    BY <1>3, <2>1, <2>2, WaitingTyped
<1> QED
  BY <1>4, <1>9, <1>10, <1>11, <1>12, <1>13, <1>14, <1>15, <1>16, <1>17

LEMMA ReadersInit == ReadsInit => ReadersInv
<1> SUFFICES ASSUME ReadsInit PROVE ReadersInv
  OBVIOUS
<1>1. \A r \in Readers : reader[r] = Waiting
  BY DEF ReadsInit
<1>2. SnapshotRead(Waiting) /\ AnswerAgrees(Waiting)
  BY WaitingTyped DEF SnapshotRead, AnswerAgrees, Lists
<1>3. reader \in [Readers -> Reading]
  BY WaitingTyped DEF ReadsInit
<1> QED
  BY <1>1, <1>2, <1>3 DEF ReadersInv

LEMMA ReadersStep ==
    TablesInv /\ ReadersInv /\ [FleetNext]_<<vars, seedVars, reader>> => ReadersInv'
<1> SUFFICES ASSUME TablesInv, ReadersInv, [FleetNext]_<<vars, seedVars, reader>>
             PROVE  ReadersInv'
  OBVIOUS
<1>1. CASE ReadsNext
  <2>1. PICK r \in Readers :
           \/ \E ask \in Asks : Authenticate(r, ask)
           \/ SelectTotal(r) \/ SelectPage(r)
           \/ SelectAssetKpis(r) \/ SelectCategories(r)
           \/ SelectRepairSummary(r) \/ SelectRecentPending(r)
           \/ Reply(r) \/ ReadFails(r) \/ Close(r)
    BY <1>1 DEF ReadsNext
  <2> DEFINE e == reader'[r]
  <2>2. /\ reader' = [reader EXCEPT ![r] = e]
        /\ e \in Reading /\ SnapshotRead(e) /\ AnswerAgrees(e)
    BY <2>1, ReaderMoves
  <2>3. reader \in [Readers -> Reading]
        /\ \A s \in Readers : SnapshotRead(reader[s]) /\ AnswerAgrees(reader[s])
    BY DEF ReadersInv
  <2> HIDE DEF e
  <2>4. reader' \in [Readers -> Reading]
        /\ \A s \in Readers : reader'[s] = IF s = r THEN e ELSE reader[s]
    BY <2>2, <2>3
  <2>5. \A s \in Readers : SnapshotRead(reader'[s]) /\ AnswerAgrees(reader'[s])
    BY <2>2, <2>3, <2>4
  <2> QED
    BY <2>4, <2>5 DEF ReadersInv
<1>2. CASE UNCHANGED reader
  BY <1>2 DEF ReadersInv
<1> QED
  BY <1>1, <1>2 DEF FleetNext

LEMMA ReadersInvariant == FleetSpec => []ReadersInv
<1>1. FleetInit => ReadersInv
  BY ReadersInit DEF FleetInit
<1>2. TablesInv /\ ReadersInv /\ [FleetNext]_<<vars, seedVars, reader>> => ReadersInv'
  BY ReadersStep
<1>3. DraftInv /\ TablesInv => TablesInv
  OBVIOUS
<1> QED
  BY <1>1, <1>2, <1>3, TablesInvariant, PTL DEF FleetSpec

\* The five cards of a dashboard answer agree for every fleet and however many writers and
\* seedings commit between the statements behind them.
THEOREM DashboardIsConsistent == FleetSpec => []DashboardAgrees
<1>1. ReadersInv => DashboardAgrees
  BY DEF ReadersInv, AnswerAgrees, DashboardAgrees, Answered
<1> QED
  BY <1>1, ReadersInvariant, PTL

\* Every page a list answer carries has the length its total promises.
THEOREM PagesFit == FleetSpec => []PageFitsTotal
<1>1. ReadersInv => PageFitsTotal
  BY DEF ReadersInv, AnswerAgrees, PageFitsTotal, Answered, Lists
<1> QED
  BY <1>1, ReadersInvariant, PTL

=============================================================================
