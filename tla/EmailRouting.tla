---------------------------- MODULE EmailRouting -----------------------------
(***************************************************************************)
(* The e-mail routing of ai-service: reading the routing table at startup  *)
(* (ai_service/routing.py, parse_routing) and the decision which team's    *)
(* mailbox a call goes to (match_client there).  The file-name rules that  *)
(* route_message of ai_service/mailer.py tries first are left out.         *)
(*                                                                         *)
(* A domain is the sequence of its labels, a company name that of its      *)
(* words after normalize_company, with its length in letters beside it for *)
(* the comparisons.  The table is flattened into its entries in the order  *)
(* parse_routing visits them.                                              *)
(***************************************************************************)
EXTENDS Integers, Sequences, FiniteSetsExt

CONSTANTS
  NumRoutes,   \* how many [[route]] tables there are
  Domains,     \* domains a table may list
  Names,       \* company names a table may list, normalized
  Letters,     \* how long each of them is
  Owners,      \* the clients of a route (one here), and "bare" for the route's own lists
  MaxEntries,  \* bound: entries of a table
  Seen,        \* domains a summary or a transcript may hold
  Heard,       \* company names a summary may hold, normalized
  Normalized(_)  \* the words of a domain's label: normalize_company breaks it at a hyphen

\* take_domains and take_companies refuse what is no domain and what is empty
ASSUME RoutingAssumption ==
  /\ NumRoutes \in Nat /\ MaxEntries \in Nat
  /\ Domains \subseteq Seq(STRING) \ {<<>>} /\ Names \subseteq Seq(STRING) \ {<<>>}
  /\ Letters \in [Names -> Nat \ {0}]

Teams == 1 .. NumRoutes      \* the [[route]] tables, in order

Entry == [team : Teams, owner : Owners, kind : {"domain"}, key : Domains]
         \cup [team : Teams, owner : Owners, kind : {"company"}, key : Names]

\* parse_routing goes through the routes in order; within one through its clients, then
\* its own lists; within those through the domains, then the companies
Place(e) == 4 * e.team + (IF e.owner = "bare" THEN 2 ELSE 0)
                       + (IF e.kind = "company" THEN 1 ELSE 0)

\* a client has a name, which is its first company
Named(t) ==
  \A i \in DOMAIN t : t[i].owner # "bare" =>
    \E k \in DOMAIN t : t[k] \in [team : {t[i].team}, owner : {t[i].owner},
                                   kind : {"company"}, key : Names]

Tables ==
  {t \in UNION {[1 .. n -> Entry] : n \in 0 .. MaxEntries} :
     Named(t) /\ \A i \in 2 .. Len(t) : Place(t[i - 1]) <= Place(t[i])}

VARIABLES
  table,    \* the entries of the file
  taken,    \* how many of them parse_routing has visited
  seen,     \* seen_domains and seen_companies: where a key was listed first
  routes,   \* per team, the keys taken so far
  verdict   \* "reading", "accepted" or "rejected" (RoutingError: the service does not start)

routingVars == <<table, taken, seen, routes, verdict>>

RoutingTypeOK ==
  /\ table \in Tables
  /\ taken \in 0 .. Len(table)
  /\ DOMAIN seen \subseteq {"domain", "company"} \X (Domains \cup Names)
  /\ \A k \in DOMAIN seen : seen[k] \in Teams \X Owners
  /\ routes \in [Teams -> [domain : SUBSET Domains, company : SUBSET Names]]
  /\ verdict \in {"reading", "accepted", "rejected"}

RoutingInit ==
  /\ table \in Tables
  /\ taken = 0
  /\ seen = [k \in {} |-> <<1, "bare">>]
  /\ routes = [t \in Teams |-> [domain |-> {}, company |-> {}]]
  /\ verdict = "reading"

-----------------------------------------------------------------------------
(* parse_routing.                                                          *)

At == table[taken + 1]
Key == <<At.kind, At.key>>
Where == <<At.team, At.owner>>

Reading == verdict = "reading" /\ taken < Len(table)

TakeNewKeyAsDomain ==
  /\ Reading /\ Key \notin DOMAIN seen
  /\ seen' = [k \in DOMAIN seen \cup {Key} |-> IF k = Key THEN Where ELSE seen[k]]
  /\ routes' = [routes EXCEPT ![At.team].domain = @ \cup {At.key}]
  /\ taken' = taken + 1
  /\ UNCHANGED <<table, verdict>>

\* take_domains, take_companies: a key not listed before
TakeNewKey ==
  /\ Reading /\ Key \notin DOMAIN seen
  /\ seen' = [k \in DOMAIN seen \cup {Key} |-> IF k = Key THEN Where ELSE seen[k]]
  /\ routes' = [routes EXCEPT ![At.team][At.kind] = @ \cup {At.key}]
  /\ taken' = taken + 1
  /\ UNCHANGED <<table, verdict>>

\* another spelling of a company in the same entry
SkipSpelling ==
  /\ Reading /\ Key \in DOMAIN seen
  /\ At.kind = "company" /\ seen[Key] = Where
  /\ taken' = taken + 1
  /\ UNCHANGED <<table, seen, routes, verdict>>

RejectCompaniesOnly ==
  /\ Reading /\ Key \in DOMAIN seen
  /\ IF At.kind = "domain"
       THEN /\ routes' = [routes EXCEPT ![At.team][At.kind] = @ \cup {At.key}]
            /\ taken' = taken + 1 /\ UNCHANGED verdict
       ELSE seen[Key] # Where /\ verdict' = "rejected" /\ UNCHANGED <<routes, taken>>
  /\ UNCHANGED <<table, seen>>

\* a domain listed before, or a company listed before by another entry
RejectDuplicate ==
  /\ Reading /\ Key \in DOMAIN seen
  /\ ~(At.kind = "company" /\ seen[Key] = Where)
  /\ verdict' = "rejected"
  /\ UNCHANGED <<table, taken, seen, routes>>

Accept ==
  /\ verdict = "reading" /\ taken = Len(table)
  /\ verdict' = "accepted"
  /\ UNCHANGED <<table, taken, seen, routes>>

RoutingNext == TakeNewKey \/ SkipSpelling \/ RejectDuplicate \/ Accept

RoutingSpec == RoutingInit /\ [][RoutingNext]_routingVars

-----------------------------------------------------------------------------
(* match_client.  A route is a team number; 0 is None.                     *)

\* domain == d or domain.endswith("." + d)
Under(domain, d) ==
  Len(d) <= Len(domain) /\ SubSeq(domain, Len(domain) - Len(d) + 1, Len(domain)) = d

\* f" {c} " in padded: whole words, next to each other
Mentions(name, c) ==
  \E i \in 1 .. Len(name) - Len(c) + 1 : SubSeq(name, i, i + Len(c) - 1) = c

Longest(sizes) == Max(sizes \cup {0})

\* the loop over the routes with `best, best_len` and its strict comparison: the first
\* of the routes with the longest match, None when nothing matches
BestOf(order, length) ==
  LET best == Longest({length[t] : t \in Teams})
  IN IF best = 0 THEN 0 ELSE order[Min({i \in Teams : length[order[i]] = best})]

\* the routes in the order of the file, and in any other
InFile == [i \in Teams |-> i]
Orders == {order \in [Teams -> Teams] : \A t \in Teams : \E i \in Teams : order[i] = t}

DomainLength(domain) ==
  [t \in Teams |-> Longest({Len(d) : d \in {d \in routes[t].domain : Under(domain, d)}})]

RouteForDomain(order, domain) == BestOf(order, DomainLength(domain))

NameLength(name) ==
  [t \in Teams |-> Longest({Letters[c] : c \in {c \in routes[t].company : Mentions(name, c)}})]

RouteForFirstCompany(order, name) ==
  LET hits == {i \in Teams : NameLength(name)[order[i]] # 0}
  IN IF hits = {} THEN 0 ELSE order[Min(hits)]

RouteForCompany(order, name) == BestOf(order, NameLength(name))

RouteInFirstAddress(order, addresses) ==
  IF addresses = <<>> THEN 0 ELSE RouteForDomain(order, addresses[1])

\* the first address of the transcript that any route knows
RouteInTranscript(order, addresses) ==
  LET known == {i \in DOMAIN addresses : RouteForDomain(order, addresses[i]) # 0}
  IN IF known = {} THEN 0 ELSE RouteForDomain(order, addresses[Min(known)])

\* the label before the last dot, read as a company name
SecondLevel(domain) == IF Len(domain) >= 2 THEN Normalized(domain[Len(domain) - 1]) ELSE <<>>

\* a call: the client's domain and company as recognized in the summary (<<>> when they
\* are not) and the addresses spelled in the transcript
Match(order, call) ==
  LET evidence ==
        << [team |-> RouteForDomain(order, call.domain), by |-> "domain"],
           [team |-> RouteForCompany(order, call.company), by |-> "company"],
           [team |-> RouteForCompany(order, SecondLevel(call.domain)), by |-> "company"],
           [team |-> RouteInTranscript(order, call.addresses), by |-> "transcript"] >>
      known == {i \in DOMAIN evidence : evidence[i].team # 0}
  IN IF known = {} THEN [team |-> 0, by |-> "default"] ELSE evidence[Min(known)]

Calls == [domain : Seen \cup {<<>>}, company : Heard \cup {<<>>},
          addresses : {<<>>} \cup {<<d, e>> : d \in Seen, e \in Seen}]

-----------------------------------------------------------------------------
(* Properties.                                                             *)

Accepted == verdict = "accepted"

Knows(t, domain) == \E d \in routes[t].domain : Under(domain, d)

\* c is the longest of the names any route lists for a company
IsBestName(name, c) ==
  Mentions(name, c) /\ \A t \in Teams : \A e \in routes[t].company :
                         Mentions(name, e) => Letters[e] <= Letters[c]

\* two teams list different names for it, neither longer than the other
Tied(name) ==
  \E s, t \in Teams : s # t /\ \E c \in routes[s].company, d \in routes[t].company :
    c # d /\ IsBestName(name, c) /\ IsBestName(name, d)

\* "So a large table can't silently send a client to two teams": with a table the service
\* starts with, the teams can be listed in any order and a call goes to the same one, on
\* the same evidence.  One exception: of two different names of the same length that are
\* both mentioned, the first in the file wins, as nothing else tells them apart.
OrderDecidesOnlyTies ==
  Accepted => \A call \in Calls, order \in Orders :
    Match(order, call) # Match(InFile, call) => Tied(call.company) \/ Tied(SecondLevel(call.domain))

\* The most specific domain wins ("es.irkutskenergo.ru" over "irkutskenergo.ru") and the
\* longest company name ("Delta Leasing" over "Delta"), wherever the table lists them.
MostSpecificWins ==
  Accepted =>
    /\ \A x \in Seen, t \in Teams : \A d \in routes[t].domain : Under(x, d) =>
         \E e \in routes[RouteForDomain(InFile, x)].domain : Under(x, e) /\ Len(e) >= Len(d)
    /\ \A x \in Heard, t \in Teams : \A c \in routes[t].company : Mentions(x, c) =>
         \E e \in routes[RouteForCompany(InFile, x)].company :
           Mentions(x, e) /\ Letters[e] >= Letters[c]

\* Only a call nobody knows goes to the default mailbox: when any domain recognized in the
\* summary or spelled in the transcript, or the company, is in the table, a team gets it.
KnownClientsAreRouted ==
  Accepted => \A call \in Calls : Match(InFile, call).by = "default" =>
    \A t \in Teams :
      /\ ~Knows(t, call.domain)
      /\ \A i \in DOMAIN call.addresses : ~Knows(t, call.addresses[i])
      /\ \A c \in routes[t].company : ~Mentions(call.company, c)
=============================================================================
