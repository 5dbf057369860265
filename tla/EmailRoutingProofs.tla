------------------------- MODULE EmailRoutingProofs --------------------------
(***************************************************************************)
(* Theorems about EmailRouting, for tables of any length over any number   *)
(* of routes, domains and names.  Facts about every finite set - that it   *)
(* has a largest number, say - are proved from a smallest counterexample:  *)
(* the subsets of a finite set are well-founded under inclusion.           *)
(***************************************************************************)
EXTENDS EmailRouting, FiniteSets, FiniteSetTheorems, WellFoundedInduction, TLAPS

-----------------------------------------------------------------------------
(* Finite sets of numbers.                                                 *)

\* A family of finite sets that is not empty has a member without a smaller one in it.
LEMMA SmallestMember ==
  ASSUME NEW S, IsFiniteSet(S), NEW F, F \subseteq SUBSET S, F # {}
  PROVE  \E X \in F : \A Y \in F : Y \subseteq X => Y = X
<1>1. F \subseteq FiniteSubsetsOf(S)
  BY FS_Subset DEF FiniteSubsetsOf
<1>2. PICK X \in F : \A Y \in F : ~(<<Y, X>> \in StrictSubsetOrdering(S))
  BY <1>1, FS_StrictSubsetOrderingWellFounded, WFMin, SMT
<1> QED
  BY <1>2 DEF StrictSubsetOrdering

\* A family of subsets of a finite set in which each contains a smaller one is empty.
LEMMA NoDescent ==
  ASSUME NEW S, IsFiniteSet(S), NEW F, F \subseteq SUBSET S
  PROVE  (\A X \in F : \E Y \in F : Y \subseteq X /\ Y # X) => F = {}
<1>1. F # {} => \E X \in F : \A Y \in F : Y \subseteq X => Y = X
  BY SmallestMember
<1> QED
  BY <1>1

\* Max is the largest number of a finite set.
LEMMA LargestNumber ==
  ASSUME NEW S \in SUBSET Int, IsFiniteSet(S), S # {}
  PROVE  Max(S) \in S /\ \A n \in S : Max(S) >= n
<1> DEFINE HasLargest(X) == \E m \in X : \A n \in X : m >= n
           Bad == {X \in SUBSET S : X # {} /\ ~HasLargest(X)}
<1>1. Bad \subseteq SUBSET S
  OBVIOUS
<1>2. ASSUME NEW X \in Bad
      PROVE  \E Y \in Bad : Y \subseteq X /\ Y # X
  <2>1. PICK x \in X : TRUE
    BY Zenon
  <2>2. SUFFICES ASSUME X \ {x} \notin Bad PROVE FALSE
    BY <2>1
  <2>3. CASE X \ {x} = {}
    <3>1. X = {x} BY <2>1, <2>3
    <3> QED BY <3>1
  <2>4. CASE X \ {x} # {}
    <3>1. PICK y \in X \ {x} : \A n \in X \ {x} : y >= n
      BY <2>2, <2>4
    <3>2. x \in Int /\ y \in Int /\ X \subseteq Int
      OBVIOUS
    <3>3. HasLargest(X)
      <4>1. CASE x >= y BY <2>1, <3>1, <3>2, <4>1
      <4>2. CASE ~(x >= y) BY <2>1, <3>1, <3>2, <4>2
      <4> QED BY <4>1, <4>2
    <3> QED BY <3>3
  <2> QED
    BY <2>3, <2>4
<1>3. S \in Bad \/ HasLargest(S)
  BY Zenon
<1> HIDE DEF Bad
<1>4. Bad = {}
  BY <1>1, <1>2, NoDescent
<1> QED
  BY <1>3, <1>4 DEF Max

\* Min is the smallest number of a finite set.
LEMMA SmallestNumber ==
  ASSUME NEW S \in SUBSET Int, IsFiniteSet(S), S # {}
  PROVE  Min(S) \in S /\ \A n \in S : Min(S) <= n
<1> DEFINE HasSmallest(X) == \E m \in X : \A n \in X : m <= n
           Bad == {X \in SUBSET S : X # {} /\ ~HasSmallest(X)}
<1>1. Bad \subseteq SUBSET S
  OBVIOUS
<1>2. ASSUME NEW X \in Bad
      PROVE  \E Y \in Bad : Y \subseteq X /\ Y # X
  <2>1. PICK x \in X : TRUE
    BY Zenon
  <2>2. SUFFICES ASSUME X \ {x} \notin Bad PROVE FALSE
    BY <2>1
  <2>3. CASE X \ {x} = {}
    <3>1. X = {x} BY <2>1, <2>3
    <3> QED BY <3>1
  <2>4. CASE X \ {x} # {}
    <3>1. PICK y \in X \ {x} : \A n \in X \ {x} : y <= n
      BY <2>2, <2>4
    <3>2. x \in Int /\ y \in Int /\ X \subseteq Int
      OBVIOUS
    <3>3. HasSmallest(X)
      <4>1. CASE x <= y BY <2>1, <3>1, <3>2, <4>1
      <4>2. CASE ~(x <= y) BY <2>1, <3>1, <3>2, <4>2
      <4> QED BY <4>1, <4>2
    <3> QED BY <3>3
  <2> QED
    BY <2>3, <2>4
<1>3. S \in Bad \/ HasSmallest(S)
  BY Zenon
<1> HIDE DEF Bad
<1>4. Bad = {}
  BY <1>1, <1>2, NoDescent
<1> QED
  BY <1>3, <1>4 DEF Min

LEMMA SmallestIndex ==
  ASSUME NEW n \in Nat, NEW S, S \subseteq 1 .. n, S # {}
  PROVE  Min(S) \in S
<1>1. IsFiniteSet(1 .. n) /\ S \in SUBSET (1 .. n)
  BY FS_Interval
<1>2. IsFiniteSet(S)
  BY <1>1, FS_Subset
<1>3. S \in SUBSET Int
  OBVIOUS
<1> QED
  BY <1>2, <1>3, SmallestNumber

\* The values a function takes on a finite set are finitely many.
LEMMA FiniteImage ==
  ASSUME NEW S, IsFiniteSet(S), NEW f
  PROVE  IsFiniteSet({f[x] : x \in S})
<1> DEFINE T == {f[x] : x \in S}
           g == [x \in S |-> f[x]]
<1>1. g \in Surjection(S, T)
  BY DEF Surjection
<1> QED
  BY <1>1, FS_Surjection

\* best_len: no length is larger, and unless it is still zero it is one of them.
LEMMA LongestOfAll ==
  ASSUME NEW S \in SUBSET Nat, IsFiniteSet(S)
  PROVE  /\ Longest(S) \in Nat
         /\ \A n \in S : n <= Longest(S)
         /\ Longest(S) # 0 => Longest(S) \in S
<1> DEFINE T == S \cup {0}
<1>1. IsFiniteSet(T) /\ T \in SUBSET Int /\ T # {}
  BY FS_AddElement
<1>2. Max(T) \in T /\ \A n \in T : Max(T) >= n
  <2> HIDE DEF T
  <2> QED BY <1>1, LargestNumber
<1>3. PICK m : m = Max(T)
  OBVIOUS
<1>4. Longest(S) = m
  BY <1>3 DEF Longest
<1>5. m \in S \cup {0} /\ \A n \in S : m >= n
  BY <1>2, <1>3
<1> QED
  BY <1>4, <1>5

-----------------------------------------------------------------------------
(* The loops of match_client.                                              *)

LEMMA TeamsAreFinite == IsFiniteSet(Teams) /\ Teams \subseteq Nat \ {0} /\ NumRoutes \in Nat
  BY RoutingAssumption, FS_Interval DEF Teams

LEMMA InFileIsAnOrder == InFile \in Orders
  BY DEF InFile, Orders

\* The loop over the routes returns one with a longest match, whatever the order, and None
\* only if no route matches.
LEMMA BestIsLongest ==
  ASSUME NEW order \in Orders, NEW length \in [Teams -> Nat]
  PROVE  \/ BestOf(order, length) = 0 /\ \A t \in Teams : length[t] = 0
         \/ /\ BestOf(order, length) \in Teams /\ length[BestOf(order, length)] # 0
            /\ \A t \in Teams : length[t] <= length[BestOf(order, length)]
<1> DEFINE lengths == {length[t] : t \in Teams}
           best == Longest(lengths)
           winners == {i \in Teams : length[order[i]] = best}
<1>1. lengths \in SUBSET Nat /\ IsFiniteSet(lengths)
  BY FiniteImage, TeamsAreFinite
<1>2. /\ best \in Nat
      /\ \A n \in lengths : n <= best
      /\ best # 0 => best \in lengths
  <2> HIDE DEF lengths
  <2> QED BY <1>1, LongestOfAll
<1>3. CASE best = 0
  <2>1. BestOf(order, length) = 0
    BY <1>3 DEF BestOf
  <2>2. \A t \in Teams : length[t] <= 0
    BY <1>2, <1>3
  <2> QED BY <2>1, <2>2
<1>4. CASE best # 0
  <2>1. PICK t \in Teams : length[t] = best
    BY <1>2, <1>4
  <2>2. PICK i \in Teams : order[i] = t
    BY DEF Orders
  <2>3. winners # {} /\ winners \in SUBSET Teams /\ Teams \subseteq Int /\ IsFiniteSet(Teams)
    <3>1. i \in winners BY <2>1, <2>2
    <3>2. winners \in SUBSET Teams OBVIOUS
    <3> HIDE DEF winners
    <3> QED BY <3>1, <3>2, TeamsAreFinite
  <2>4. Min(winners) \in winners
    <3> HIDE DEF winners
    <3>1. IsFiniteSet(winners) BY <2>3, FS_Subset
    <3> QED BY <2>3, <3>1, SmallestNumber
  <2>5. BestOf(order, length) = order[Min(winners)]
    BY <1>4 DEF BestOf
  <2>6. order[Min(winners)] \in Teams /\ length[order[Min(winners)]] = best
    BY <2>4 DEF Orders
  <2> QED BY <1>2, <1>4, <2>5, <2>6
<1> QED
  BY <1>3, <1>4

-----------------------------------------------------------------------------
(* The state of parse_routing.                                             *)

RoutesAreFinite ==
  \A t \in Teams : IsFiniteSet(routes[t].domain) /\ IsFiniteSet(routes[t].company)

\* a key that a route has taken is in seen_domains or seen_companies, as that route's
KeysAreSeen ==
  \A t \in Teams :
    /\ \A d \in routes[t].domain : <<"domain", d>> \in DOMAIN seen /\ seen[<<"domain", d>>][1] = t
    /\ \A c \in routes[t].company : <<"company", c>> \in DOMAIN seen /\ seen[<<"company", c>>][1] = t

RoutingInv == RoutingTypeOK /\ RoutesAreFinite /\ KeysAreSeen

LEMMA TablesAreSequences ==
  ASSUME NEW t \in Tables
  PROVE  t \in Seq(Entry)
<1>1. PICK n \in 0 .. MaxEntries : t \in [1 .. n -> Entry]
  BY DEF Tables
<1> QED
  BY <1>1, RoutingAssumption

LEMMA EntryRead ==
  ASSUME RoutingTypeOK, Reading
  PROVE  /\ At \in Entry /\ At.team \in Teams /\ At.owner \in Owners
         /\ \/ At.kind = "domain" /\ At.key \in Domains
            \/ At.kind = "company" /\ At.key \in Names
         /\ taken + 1 \in 0 .. Len(table)
<1>1. table \in Seq(Entry)
  BY TablesAreSequences DEF RoutingTypeOK
<1>2. taken + 1 \in 1 .. Len(table)
  BY <1>1 DEF RoutingTypeOK, Reading
<1>3. At \in Entry
  BY <1>1, <1>2 DEF At
<1> QED
  BY <1>2, <1>3 DEF Entry

LEMMA KeyIsTaken ==
  ASSUME RoutingInv, TakeNewKey
  PROVE  RoutingInv'
<1> USE DEF RoutingInv
<1>1. /\ At.team \in Teams /\ At.owner \in Owners
      /\ \/ At.kind = "domain" /\ At.key \in Domains
         \/ At.kind = "company" /\ At.key \in Names
      /\ taken + 1 \in 0 .. Len(table)
  BY EntryRead DEF TakeNewKey
<1>2. /\ Key \notin DOMAIN seen
      /\ DOMAIN seen' = DOMAIN seen \cup {Key}
      /\ seen'[Key] = Where /\ \A k \in DOMAIN seen : seen'[k] = seen[k]
      /\ taken' = taken + 1 /\ table' = table /\ verdict' = verdict
  BY DEF TakeNewKey
<1>3. Where \in Teams \X Owners /\ Where[1] = At.team
  BY <1>1 DEF Where
<1>4. Key \in {"domain", "company"} \X (Domains \cup Names)
  BY <1>1 DEF Key
<1>5. CASE At.kind = "domain"
  <2>1. At.key \in Domains /\ Key = <<"domain", At.key>>
    BY <1>1, <1>5 DEF Key
  <2>2. routes' = [routes EXCEPT ![At.team].domain = @ \cup {At.key}]
    BY <1>5 DEF TakeNewKey
  <2>3. /\ routes' \in [Teams -> [domain : SUBSET Domains, company : SUBSET Names]]
        /\ \A t \in Teams : routes'[t].company = routes[t].company
        /\ routes'[At.team].domain = routes[At.team].domain \cup {At.key}
        /\ \A t \in Teams \ {At.team} : routes'[t].domain = routes[t].domain
    BY <1>1, <2>1, <2>2 DEF RoutingTypeOK
  <2>4. RoutingTypeOK'
    BY <1>1, <1>2, <1>3, <1>4, <2>3 DEF RoutingTypeOK
  <2>5. RoutesAreFinite'
    <3>1. IsFiniteSet(routes[At.team].domain \cup {At.key})
      BY <1>1, FS_AddElement DEF RoutesAreFinite
    <3> QED
      BY <1>1, <2>3, <3>1 DEF RoutesAreFinite
  <2>6. KeysAreSeen'
    BY <1>1, <1>2, <1>3, <2>1, <2>3 DEF KeysAreSeen
  <2> QED
    BY <2>4, <2>5, <2>6
<1>6. CASE At.kind = "company"
  <2>1. At.key \in Names /\ Key = <<"company", At.key>>
    BY <1>1, <1>6 DEF Key
  <2>2. routes' = [routes EXCEPT ![At.team].company = @ \cup {At.key}]
    BY <1>6 DEF TakeNewKey
  <2>3. /\ routes' \in [Teams -> [domain : SUBSET Domains, company : SUBSET Names]]
        /\ \A t \in Teams : routes'[t].domain = routes[t].domain
        /\ routes'[At.team].company = routes[At.team].company \cup {At.key}
        /\ \A t \in Teams \ {At.team} : routes'[t].company = routes[t].company
    BY <1>1, <2>1, <2>2 DEF RoutingTypeOK
  <2>4. RoutingTypeOK'
    BY <1>1, <1>2, <1>3, <1>4, <2>3 DEF RoutingTypeOK
  <2>5. RoutesAreFinite'
    <3>1. IsFiniteSet(routes[At.team].company \cup {At.key})
      BY <1>1, FS_AddElement DEF RoutesAreFinite
    <3> QED
      BY <1>1, <2>3, <3>1 DEF RoutesAreFinite
  <2>6. KeysAreSeen'
    BY <1>1, <1>2, <1>3, <2>1, <2>3 DEF KeysAreSeen
  <2> QED
    BY <2>4, <2>5, <2>6
<1> QED
  BY <1>1, <1>5, <1>6

LEMMA RoutingStep ==
  ASSUME RoutingInv, [RoutingNext]_routingVars
  PROVE  RoutingInv'
<1>1. CASE TakeNewKey
  BY <1>1, KeyIsTaken
<1>2. CASE SkipSpelling
  <2>1. taken + 1 \in 0 .. Len(table)
    BY <1>2, EntryRead DEF SkipSpelling, RoutingInv
  <2>2. UNCHANGED <<table, seen, routes, verdict>> /\ taken' = taken + 1
    BY <1>2 DEF SkipSpelling
  <2> QED
    BY <2>1, <2>2 DEF RoutingInv, RoutingTypeOK, RoutesAreFinite, KeysAreSeen
<1>3. CASE RejectDuplicate
  BY <1>3 DEF RejectDuplicate, RoutingInv, RoutingTypeOK, RoutesAreFinite, KeysAreSeen
<1>4. CASE Accept
  BY <1>4 DEF Accept, RoutingInv, RoutingTypeOK, RoutesAreFinite, KeysAreSeen
<1>5. CASE UNCHANGED routingVars
  BY <1>5 DEF routingVars, RoutingInv, RoutingTypeOK, RoutesAreFinite, KeysAreSeen
<1> QED
  BY <1>1, <1>2, <1>3, <1>4, <1>5 DEF RoutingNext

LEMMA RoutingStarts == RoutingInit => RoutingInv
<1> SUFFICES ASSUME RoutingInit PROVE RoutingInv
  OBVIOUS
<1>1. table \in Seq(Entry)
  BY TablesAreSequences DEF RoutingInit
<1>2. RoutingTypeOK
  BY <1>1 DEF RoutingInit, RoutingTypeOK
<1>3. RoutesAreFinite /\ KeysAreSeen
  BY FS_EmptySet DEF RoutingInit, RoutesAreFinite, KeysAreSeen
<1> QED
  BY <1>2, <1>3 DEF RoutingInv

LEMMA RoutingAlways == RoutingSpec => []RoutingInv
  BY RoutingStarts, RoutingStep, PTL DEF RoutingSpec

\* parse_routing files every key under its own kind and its own route, whatever the table.
THEOREM RoutingTypesAreCorrect == RoutingSpec => []RoutingTypeOK
<1>1. RoutingInv => RoutingTypeOK
  BY DEF RoutingInv
<1> QED
  BY <1>1, RoutingAlways, PTL

-----------------------------------------------------------------------------
(* The matching over a table that was read.                                *)

\* The inner loop of _route_for_domain: no listed parent of the domain is longer than what
\* the route is credited with, and unless that is nothing one is as long.
LEMMA DomainsAreMeasured ==
  ASSUME RoutingInv, NEW x
  PROVE  /\ DomainLength(x) \in [Teams -> Nat]
         /\ \A t \in Teams : \A d \in routes[t].domain :
              Under(x, d) => Len(d) <= DomainLength(x)[t] /\ Len(d) # 0
         /\ \A t \in Teams : DomainLength(x)[t] # 0 =>
              \E d \in routes[t].domain : Under(x, d) /\ Len(d) = DomainLength(x)[t]
<1>1. ASSUME NEW t \in Teams
      PROVE  /\ DomainLength(x)[t] \in Nat
             /\ \A d \in routes[t].domain :
                  Under(x, d) => Len(d) <= DomainLength(x)[t] /\ Len(d) # 0
             /\ DomainLength(x)[t] # 0 =>
                  \E d \in routes[t].domain : Under(x, d) /\ Len(d) = DomainLength(x)[t]
  <2> DEFINE under == {d \in routes[t].domain : Under(x, d)}
             len == [d \in under |-> Len(d)]
             sizes == {len[d] : d \in under}
  <2>1. \A d \in routes[t].domain : Len(d) \in Nat /\ Len(d) # 0
    <3>1. \A d \in routes[t].domain : d \in Seq(STRING) /\ d # <<>>
      BY RoutingAssumption DEF RoutingInv, RoutingTypeOK
    <3> QED
      BY <3>1
  <2>2. IsFiniteSet(under)
    BY FS_Subset DEF RoutingInv, RoutesAreFinite
  <2>3. IsFiniteSet(sizes)
    <3> HIDE DEF under, len
    <3> QED BY <2>2, FiniteImage
  <2>4. sizes \in SUBSET Nat
    BY <2>1
  <2>5. DomainLength(x)[t] = Longest(sizes)
    <3>1. sizes = {Len(d) : d \in under}
      OBVIOUS
    <3> QED
      BY <3>1 DEF DomainLength
  <2>6. /\ Longest(sizes) \in Nat
        /\ \A n \in sizes : n <= Longest(sizes)
        /\ Longest(sizes) # 0 => Longest(sizes) \in sizes
    <3> HIDE DEF sizes
    <3> QED BY <2>3, <2>4, LongestOfAll
  <2>7. \A d \in routes[t].domain : Under(x, d) => Len(d) <= Longest(sizes)
    BY <2>6
  <2>8. Longest(sizes) # 0 => \E d \in routes[t].domain : Under(x, d) /\ Len(d) = Longest(sizes)
    BY <2>6
  <2> QED
    BY <2>1, <2>5, <2>6, <2>7, <2>8
<1>2. DomainLength(x) = [t \in Teams |-> DomainLength(x)[t]]
  BY DEF DomainLength
<1> QED
  BY <1>1, <1>2

\* The same of _route_for_company.
LEMMA NamesAreMeasured ==
  ASSUME RoutingInv, NEW x
  PROVE  /\ NameLength(x) \in [Teams -> Nat]
         /\ \A t \in Teams : \A c \in routes[t].company :
              Mentions(x, c) => Letters[c] <= NameLength(x)[t] /\ Letters[c] # 0
         /\ \A t \in Teams : NameLength(x)[t] # 0 =>
              \E c \in routes[t].company : Mentions(x, c) /\ Letters[c] = NameLength(x)[t]
<1>1. ASSUME NEW t \in Teams
      PROVE  /\ NameLength(x)[t] \in Nat
             /\ \A c \in routes[t].company :
                  Mentions(x, c) => Letters[c] <= NameLength(x)[t] /\ Letters[c] # 0
             /\ NameLength(x)[t] # 0 =>
                  \E c \in routes[t].company : Mentions(x, c) /\ Letters[c] = NameLength(x)[t]
  <2> DEFINE mentioned == {c \in routes[t].company : Mentions(x, c)}
             sizes == {Letters[c] : c \in mentioned}
  <2>1. \A c \in routes[t].company : Letters[c] \in Nat /\ Letters[c] # 0
    BY RoutingAssumption DEF RoutingInv, RoutingTypeOK
  <2>2. IsFiniteSet(mentioned)
    BY FS_Subset DEF RoutingInv, RoutesAreFinite
  <2>3. IsFiniteSet(sizes)
    <3> HIDE DEF mentioned
    <3> QED BY <2>2, FiniteImage
  <2>4. sizes \in SUBSET Nat
    BY <2>1
  <2>5. NameLength(x)[t] = Longest(sizes)
    BY DEF NameLength
  <2>6. /\ Longest(sizes) \in Nat
        /\ \A n \in sizes : n <= Longest(sizes)
        /\ Longest(sizes) # 0 => Longest(sizes) \in sizes
    <3> HIDE DEF sizes
    <3> QED BY <2>3, <2>4, LongestOfAll
  <2>7. \A c \in routes[t].company : Mentions(x, c) => Letters[c] <= Longest(sizes)
    BY <2>6
  <2>8. Longest(sizes) # 0 =>
          \E c \in routes[t].company : Mentions(x, c) /\ Letters[c] = Longest(sizes)
    BY <2>6
  <2> QED
    BY <2>1, <2>5, <2>6, <2>7, <2>8
<1>2. NameLength(x) = [t \in Teams |-> NameLength(x)[t]]
  BY DEF NameLength
<1> QED
  BY <1>1, <1>2

\* d is the most specific of the domains any route lists for x
IsBestDomain(x, d) ==
  Under(x, d) /\ \A t \in Teams : \A e \in routes[t].domain : Under(x, e) => Len(e) <= Len(d)

\* _route_for_domain finds the route of a most specific domain, or no route knows it.
LEMMA DomainIsRouted ==
  ASSUME RoutingInv, NEW order \in Orders, NEW x
  PROVE  \/ RouteForDomain(order, x) = 0 /\ \A t \in Teams : ~Knows(t, x)
         \/ /\ RouteForDomain(order, x) \in Teams
            /\ \E d \in routes[RouteForDomain(order, x)].domain : IsBestDomain(x, d)
<1> DEFINE length == DomainLength(x)
<1>1. /\ length \in [Teams -> Nat]
      /\ \A t \in Teams : \A d \in routes[t].domain :
           Under(x, d) => Len(d) <= length[t] /\ Len(d) # 0
      /\ \A t \in Teams : length[t] # 0 =>
           \E d \in routes[t].domain : Under(x, d) /\ Len(d) = length[t]
  BY DomainsAreMeasured
<1>2. \A t \in Teams : \A d \in routes[t].domain : Len(d) \in Nat
  <2>1. \A t \in Teams : \A d \in routes[t].domain : d \in Seq(STRING)
    BY RoutingAssumption DEF RoutingInv, RoutingTypeOK
  <2> QED
    BY <2>1
<1> HIDE DEF length
<1>3. \/ BestOf(order, length) = 0 /\ \A t \in Teams : length[t] = 0
      \/ /\ BestOf(order, length) \in Teams /\ length[BestOf(order, length)] # 0
         /\ \A t \in Teams : length[t] <= length[BestOf(order, length)]
  BY <1>1, BestIsLongest
<1>4. PICK best : best = BestOf(order, length)
  OBVIOUS
<1>5. RouteForDomain(order, x) = best
  BY <1>4 DEF RouteForDomain, length
<1>6. CASE best = 0 /\ \A t \in Teams : length[t] = 0
  BY <1>1, <1>2, <1>5, <1>6 DEF Knows
<1>7. CASE best \in Teams /\ length[best] # 0 /\ \A t \in Teams : length[t] <= length[best]
  <2>1. PICK d \in routes[best].domain : Under(x, d) /\ Len(d) = length[best]
    BY <1>1, <1>7
  <2>2. IsBestDomain(x, d)
    BY <1>1, <1>2, <1>7, <2>1 DEF IsBestDomain
  <2> QED
    BY <1>5, <1>7, <2>2
<1> QED
  BY <1>3, <1>4, <1>6, <1>7

\* _route_for_company finds the route of a longest name, or no route's name is mentioned.
LEMMA NameIsRouted ==
  ASSUME RoutingInv, NEW order \in Orders, NEW x
  PROVE  \/ /\ RouteForCompany(order, x) = 0
            /\ \A t \in Teams : \A c \in routes[t].company : ~Mentions(x, c)
         \/ /\ RouteForCompany(order, x) \in Teams
            /\ \E c \in routes[RouteForCompany(order, x)].company : IsBestName(x, c)
<1> DEFINE length == NameLength(x)
<1>1. /\ length \in [Teams -> Nat]
      /\ \A t \in Teams : \A c \in routes[t].company :
           Mentions(x, c) => Letters[c] <= length[t] /\ Letters[c] # 0
      /\ \A t \in Teams : length[t] # 0 =>
           \E c \in routes[t].company : Mentions(x, c) /\ Letters[c] = length[t]
  BY NamesAreMeasured
<1>2. \A t \in Teams : \A c \in routes[t].company : Letters[c] \in Nat
  BY RoutingAssumption DEF RoutingInv, RoutingTypeOK
<1> HIDE DEF length
<1>3. \/ BestOf(order, length) = 0 /\ \A t \in Teams : length[t] = 0
      \/ /\ BestOf(order, length) \in Teams /\ length[BestOf(order, length)] # 0
         /\ \A t \in Teams : length[t] <= length[BestOf(order, length)]
  BY <1>1, BestIsLongest
<1>4. PICK best : best = BestOf(order, length)
  OBVIOUS
<1>5. RouteForCompany(order, x) = best
  BY <1>4 DEF RouteForCompany, length
<1>6. CASE best = 0 /\ \A t \in Teams : length[t] = 0
  BY <1>1, <1>2, <1>5, <1>6
<1>7. CASE best \in Teams /\ length[best] # 0 /\ \A t \in Teams : length[t] <= length[best]
  <2>1. PICK c \in routes[best].company : Mentions(x, c) /\ Letters[c] = length[best]
    BY <1>1, <1>7
  <2>2. IsBestName(x, c)
    BY <1>1, <1>2, <1>7, <2>1 DEF IsBestName
  <2> QED
    BY <1>5, <1>7, <2>2
<1> QED
  BY <1>3, <1>4, <1>6, <1>7

\* Two domains above the same one that are as long as each other are the same.
LEMMA OneBestDomain ==
  ASSUME RoutingInv, NEW x, NEW s \in Teams, NEW t \in Teams,
         NEW d \in routes[s].domain, NEW e \in routes[t].domain,
         IsBestDomain(x, d), IsBestDomain(x, e)
  PROVE  s = t
<1>1. d \in Seq(STRING) /\ e \in Seq(STRING)
  BY RoutingAssumption DEF RoutingInv, RoutingTypeOK
<1>2. Len(d) \in Nat /\ Len(e) \in Nat
  BY <1>1
<1>3. Len(d) <= Len(e) /\ Len(e) <= Len(d)
  BY DEF IsBestDomain
<1>4. Len(d) = Len(e)
  BY <1>2, <1>3
<1>5. d = e
  BY <1>4 DEF IsBestDomain, Under
<1> QED
  BY <1>5 DEF RoutingInv, KeysAreSeen

-----------------------------------------------------------------------------
(* The properties of an accepted table.                                    *)

\* Two best domains of two orders are suffixes of the same length, hence one domain, and
\* seen_domains knows it as one route's.
LEMMA DomainsHaveOneRoute ==
  ASSUME RoutingInv, NEW x, NEW order \in Orders
  PROVE  RouteForDomain(order, x) = RouteForDomain(InFile, x)
<1>1. \/ RouteForDomain(order, x) = 0 /\ \A t \in Teams : ~Knows(t, x)
      \/ /\ RouteForDomain(order, x) \in Teams
         /\ \E d \in routes[RouteForDomain(order, x)].domain : IsBestDomain(x, d)
  BY DomainIsRouted
<1>2. \/ RouteForDomain(InFile, x) = 0 /\ \A t \in Teams : ~Knows(t, x)
      \/ /\ RouteForDomain(InFile, x) \in Teams
         /\ \E d \in routes[RouteForDomain(InFile, x)].domain : IsBestDomain(x, d)
  BY DomainIsRouted, InFileIsAnOrder
<1>3. \A t \in Teams : \A d \in routes[t].domain : IsBestDomain(x, d) => Knows(t, x)
  BY DEF IsBestDomain, Knows
<1>4. PICK a, b : a = RouteForDomain(order, x) /\ b = RouteForDomain(InFile, x)
  OBVIOUS
<1>5. CASE a = 0 \/ b = 0
  BY <1>1, <1>2, <1>3, <1>4, <1>5, TeamsAreFinite
<1>6. CASE a # 0 /\ b # 0
  <2>1. PICK d \in routes[a].domain : a \in Teams /\ IsBestDomain(x, d)
    BY <1>1, <1>4, <1>6
  <2>2. PICK e \in routes[b].domain : b \in Teams /\ IsBestDomain(x, e)
    BY <1>2, <1>4, <1>6
  <2>3. a = b
    BY <2>1, <2>2, OneBestDomain
  <2> QED
    BY <1>4, <2>3
<1> QED
  BY <1>5, <1>6

\* Two longest names of two orders are one name, which seen_companies knows as one route's,
\* or the company is tied.
LEMMA NamesHaveOneRoute ==
  ASSUME RoutingInv, NEW x, NEW order \in Orders, ~Tied(x)
  PROVE  RouteForCompany(order, x) = RouteForCompany(InFile, x)
<1>1. \/ /\ RouteForCompany(order, x) = 0
         /\ \A t \in Teams : \A c \in routes[t].company : ~Mentions(x, c)
      \/ /\ RouteForCompany(order, x) \in Teams
         /\ \E c \in routes[RouteForCompany(order, x)].company : IsBestName(x, c)
  BY NameIsRouted
<1>2. \/ /\ RouteForCompany(InFile, x) = 0
         /\ \A t \in Teams : \A c \in routes[t].company : ~Mentions(x, c)
      \/ /\ RouteForCompany(InFile, x) \in Teams
         /\ \E c \in routes[RouteForCompany(InFile, x)].company : IsBestName(x, c)
  BY NameIsRouted, InFileIsAnOrder
<1>3. \A c : IsBestName(x, c) => Mentions(x, c)
  BY DEF IsBestName
<1>4. PICK a, b : a = RouteForCompany(order, x) /\ b = RouteForCompany(InFile, x)
  OBVIOUS
<1>5. CASE a = 0 \/ b = 0
  BY <1>1, <1>2, <1>3, <1>4, <1>5, TeamsAreFinite
<1>6. CASE a # 0 /\ b # 0
  <2>1. PICK c \in routes[a].company : a \in Teams /\ IsBestName(x, c)
    BY <1>1, <1>4, <1>6
  <2>2. PICK d \in routes[b].company : b \in Teams /\ IsBestName(x, d)
    BY <1>2, <1>4, <1>6
  <2>3. CASE c = d
    <3>1. a = b
      BY <2>1, <2>2, <2>3 DEF RoutingInv, KeysAreSeen
    <3> QED
      BY <1>4, <3>1
  <2>4. CASE c # d
    BY <1>4, <2>1, <2>2, <2>4 DEF Tied
  <2> QED
    BY <2>3, <2>4
<1> QED
  BY <1>5, <1>6

LEMMA TranscriptsHaveOneRoute ==
  ASSUME RoutingInv, NEW addresses, NEW order \in Orders
  PROVE  RouteInTranscript(order, addresses) = RouteInTranscript(InFile, addresses)
<1> DEFINE known(o) == {i \in DOMAIN addresses : RouteForDomain(o, addresses[i]) # 0}
<1>1. known(order) = known(InFile)
  BY DomainsHaveOneRoute
<1>2. RouteForDomain(order, addresses[Min(known(order))])
        = RouteForDomain(InFile, addresses[Min(known(order))])
  BY DomainsHaveOneRoute
<1> QED
  BY <1>1, <1>2 DEF RouteInTranscript

\* The order in which the file lists the teams decides only between two different names of
\* the same length that are both mentioned: on every other evidence a call goes to the
\* same team in any order, so no table the service starts with sends a client to two.
THEOREM OrderDecidesTiesOnly == RoutingSpec => []OrderDecidesOnlyTies
<1>1. RoutingInv => OrderDecidesOnlyTies
  <2> SUFFICES ASSUME RoutingInv, NEW call \in Calls, NEW order \in Orders,
                      ~Tied(call.company), ~Tied(SecondLevel(call.domain))
               PROVE  Match(order, call) = Match(InFile, call)
    BY DEF OrderDecidesOnlyTies
  <2>1. RouteForDomain(order, call.domain) = RouteForDomain(InFile, call.domain)
    BY DomainsHaveOneRoute
  <2>2. RouteForCompany(order, call.company) = RouteForCompany(InFile, call.company)
    BY NamesHaveOneRoute
  <2>3. RouteForCompany(order, SecondLevel(call.domain))
          = RouteForCompany(InFile, SecondLevel(call.domain))
    BY NamesHaveOneRoute
  <2>4. RouteInTranscript(order, call.addresses) = RouteInTranscript(InFile, call.addresses)
    BY TranscriptsHaveOneRoute
  <2> QED
    BY <2>1, <2>2, <2>3, <2>4 DEF Match
<1> QED
  BY <1>1, RoutingAlways, PTL

\* The most specific of all the listed domains and the longest of all the listed names
\* decide, wherever the table has them.
THEOREM TheMostSpecificWins == RoutingSpec => []MostSpecificWins
<1>1. RoutingInv => MostSpecificWins
  <2> SUFFICES ASSUME RoutingInv PROVE MostSpecificWins
    OBVIOUS
  <2>1. ASSUME NEW x \in Seen, NEW t \in Teams, NEW d \in routes[t].domain, Under(x, d)
        PROVE  \E e \in routes[RouteForDomain(InFile, x)].domain :
                 Under(x, e) /\ Len(e) >= Len(d)
    <3>1. Knows(t, x)
      BY <2>1 DEF Knows
    <3>2. PICK e \in routes[RouteForDomain(InFile, x)].domain : IsBestDomain(x, e)
      BY <3>1, DomainIsRouted, InFileIsAnOrder
    <3>3. Under(x, e) /\ Len(d) <= Len(e)
      BY <2>1, <3>2 DEF IsBestDomain
    <3> QED
      BY <3>3
  <2>2. ASSUME NEW x \in Heard, NEW t \in Teams, NEW c \in routes[t].company, Mentions(x, c)
        PROVE  \E e \in routes[RouteForCompany(InFile, x)].company :
                 Mentions(x, e) /\ Letters[e] >= Letters[c]
    <3>1. PICK e \in routes[RouteForCompany(InFile, x)].company : IsBestName(x, e)
      BY <2>2, NameIsRouted, InFileIsAnOrder
    <3>2. Mentions(x, e) /\ Letters[c] <= Letters[e]
      BY <2>2, <3>1 DEF IsBestName
    <3> QED
      BY <3>2
  <2> QED
    BY <2>1, <2>2 DEF MostSpecificWins
<1> QED
  BY <1>1, RoutingAlways, PTL

\* The loop over the transcript's addresses: None only if no address is known.
LEMMA TranscriptIsRouted ==
  ASSUME RoutingInv, NEW order \in Orders, NEW addresses, NEW n \in Nat,
         DOMAIN addresses = 1 .. n, RouteInTranscript(order, addresses) = 0
  PROVE  \A i \in DOMAIN addresses : \A t \in Teams : ~Knows(t, addresses[i])
<1> DEFINE known == {i \in DOMAIN addresses : RouteForDomain(order, addresses[i]) # 0}
<1>1. CASE known = {}
  <2>1. \A i \in DOMAIN addresses : RouteForDomain(order, addresses[i]) = 0
    BY <1>1
  <2> QED
    BY <2>1, DomainIsRouted, TeamsAreFinite
<1>2. CASE known # {}
  <2>1. known \subseteq 1 .. n
    OBVIOUS
  <2>2. Min(known) \in known
    <3> HIDE DEF known
    <3> QED BY <1>2, <2>1, SmallestIndex
  <2>3. RouteInTranscript(order, addresses) = RouteForDomain(order, addresses[Min(known)])
    BY <1>2 DEF RouteInTranscript
  <2> QED
    BY <2>2, <2>3
<1> QED
  BY <1>1, <1>2

\* A call is left to the default mailbox only if each kind of evidence found no route.
LEMMA DefaultIsLast ==
  ASSUME NEW order, NEW call, Match(order, call).by = "default"
  PROVE  /\ RouteForDomain(order, call.domain) = 0
         /\ RouteForCompany(order, call.company) = 0
         /\ RouteInTranscript(order, call.addresses) = 0
<1> DEFINE evidence ==
             << [team |-> RouteForDomain(order, call.domain), by |-> "domain"],
                [team |-> RouteForCompany(order, call.company), by |-> "company"],
                [team |-> RouteForCompany(order, SecondLevel(call.domain)), by |-> "company"],
                [team |-> RouteInTranscript(order, call.addresses), by |-> "transcript"] >>
           known == {i \in DOMAIN evidence : evidence[i].team # 0}
<1>1. DOMAIN evidence = 1 .. 4
  OBVIOUS
<1>2. \A i \in 1 .. 4 : evidence[i].by # "default"
  BY <1>1
<1>3. known = {}
  <2>1. SUFFICES ASSUME known # {} PROVE FALSE
    OBVIOUS
  <2>2. known \subseteq 1 .. 4
    <3> HIDE DEF evidence
    <3> QED BY <1>1
  <2>3. Min(known) \in known
    <3> HIDE DEF known
    <3> QED BY <2>1, <2>2, SmallestIndex
  <2>4. Match(order, call) = evidence[Min(known)]
    BY <2>1 DEF Match
  <2> QED
    BY <1>2, <2>2, <2>3, <2>4
<1>4. evidence[1].team = 0 /\ evidence[2].team = 0 /\ evidence[4].team = 0
  BY <1>1, <1>3
<1> QED
  BY <1>4

\* Only a call nobody knows is left to the default mailbox.
THEOREM KnownClientsReachATeam == RoutingSpec => []KnownClientsAreRouted
<1>1. RoutingInv => KnownClientsAreRouted
  <2> SUFFICES ASSUME RoutingInv, NEW call \in Calls, Match(InFile, call).by = "default",
                      NEW t \in Teams
               PROVE  /\ ~Knows(t, call.domain)
                      /\ \A i \in DOMAIN call.addresses : ~Knows(t, call.addresses[i])
                      /\ \A c \in routes[t].company : ~Mentions(call.company, c)
    BY DEF KnownClientsAreRouted
  <2>1. /\ RouteForDomain(InFile, call.domain) = 0
        /\ RouteForCompany(InFile, call.company) = 0
        /\ RouteInTranscript(InFile, call.addresses) = 0
    BY DefaultIsLast
  <2>2. ~Knows(t, call.domain)
    BY <2>1, DomainIsRouted, InFileIsAnOrder, TeamsAreFinite
  <2>3. \A c \in routes[t].company : ~Mentions(call.company, c)
    BY <2>1, NameIsRouted, InFileIsAnOrder, TeamsAreFinite
  <2>4. \E n \in Nat : DOMAIN call.addresses = 1 .. n
    <3>1. \/ call.addresses = <<>>
          \/ \E d \in Seen, e \in Seen : call.addresses = <<d, e>>
      BY DEF Calls
    <3>2. CASE call.addresses = <<>>
      <4>1. DOMAIN call.addresses = 1 .. 0 BY <3>2
      <4> QED BY <4>1
    <3>3. CASE \E d \in Seen, e \in Seen : call.addresses = <<d, e>>
      <4>1. DOMAIN call.addresses = 1 .. 2 BY <3>3
      <4> QED BY <4>1
    <3> QED
      BY <3>1, <3>2, <3>3
  <2>5. \A i \in DOMAIN call.addresses : ~Knows(t, call.addresses[i])
    BY <2>1, <2>4, TranscriptIsRouted, InFileIsAnOrder
  <2> QED
    BY <2>2, <2>3, <2>5
<1> QED
  BY <1>1, RoutingAlways, PTL
=============================================================================
