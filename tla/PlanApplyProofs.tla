---------------------------- MODULE PlanApplyProofs ----------------------------
(***************************************************************************)
(* What holds of every resource of the provider under plan and apply, for    *)
(* any names, keys, members and bounds.  First what the handlers compute: the  *)
(* differences they send are exact, a refresh does not change what the refresh   *)
(* before it has written, and what an update sends follows the object it may     *)
(* rename.  Then the invariants of PlanApply: TypeOK, and that no object is       *)
(* orphaned while no answer is lost.  Last, the values: what Terraform and the    *)
(* server hold of each attribute, and that the requests a handler has left take   *)
(* its object from what it is to what is planned, so that the state an apply       *)
(* writes shows the plan, the server has what is configured, and the next plan is   *)
(* empty; and what a handler can be refused for, so that applying again ends there    *)
(* or at something that stays.                                                  *)
(***************************************************************************)
EXTENDS PlanApply, TLAPS

-----------------------------------------------------------------------------
(* The differences the handlers compute are exact.                         *)


\* What a server makes of the properties set and dropped by a PUT.
Carried(v, set, drop) == Overlay(set, Only(v, DOMAIN v \ drop))

\* One update request per property that is new, changed or gone turns the properties
\* of the state into those of the plan, of whatever keys either has.
THEOREM PropertyUpdatesAreExact ==
  ASSUME NEW V, NEW D, NEW E, NEW p, NEW s,
         "props" \in DOMAIN p, p.props # Unknown,
         AsMap(s.props) \in [D -> V], AsMap(p.props) \in [E -> V]
  PROVE  Carried(AsMap(s.props), PropertyUpdates(p, s).set, PropertyUpdates(p, s).drop)
           = AsMap(p.props)
<1> DEFINE old == AsMap(s.props)
           new == AsMap(p.props)
           u == PropertyUpdates(p, s)
           result == Carried(old, u.set, u.drop)
<1>1. CASE ~Differs("props", p, s)
  BY <1>1 DEF Differs, PropertyUpdates, Carried, Overlay, Only, NoMap
<1>2. CASE Differs("props", p, s)
  BY <1>2 DEF PropertyUpdates, Only, Carried, Overlay
<1> QED
  BY <1>1, <1>2

\* What apply writes and drops turns the statistics the catalog does not supply into the
\* desired ones and leaves those it supplies alone.
THEOREM StatisticsWritesAreExact ==
  ASSUME NEW V, NEW D, NEW E, NEW v \in [D -> V], NEW desired \in [E -> V], NEW reserved,
         E \cap reserved = {}
  PROVE  LET current == CurrentStatistics(v, reserved)
             result == Carried(v, ToWrite(current, desired), DOMAIN current \ DOMAIN desired)
         IN /\ CurrentStatistics(result, reserved) = desired
            /\ Only(result, reserved) = Only(v, reserved)
<1> DEFINE current == CurrentStatistics(v, reserved)
           set == ToWrite(current, desired)
           left == Only(v, D \ (DOMAIN current \ E))
           result == Carried(v, set, DOMAIN current \ E)
<1>1. DOMAIN current = D \ reserved /\ \A k \in D \ reserved : current[k] = v[k]
  BY DEF CurrentStatistics, Only
<1>2. /\ DOMAIN set = {k \in E : k \notin D \ reserved \/ current[k] # desired[k]}
      /\ \A k \in DOMAIN set : set[k] = desired[k]
  BY <1>1 DEF ToWrite, Only
<1>3. DOMAIN left = D \cap (E \cup reserved) /\ \A k \in DOMAIN left : left[k] = v[k]
  BY <1>1 DEF Only
<1>4. result = [k \in DOMAIN set \cup DOMAIN left |->
                  IF k \in DOMAIN set THEN set[k] ELSE left[k]]
  BY DEF Carried, Overlay
<1>5. DOMAIN result = E \cup (D \cap reserved)
  BY <1>1, <1>2, <1>3, <1>4
<1>6. \A k \in E : result[k] = desired[k]
  BY <1>1, <1>2, <1>3, <1>4
<1>7. \A k \in D \cap reserved : result[k] = v[k]
  BY <1>2, <1>3, <1>4
<1>8. Only(result, reserved) = Only(v, reserved)
  BY <1>7, <1>5 DEF Only
<1> QED
  BY <1>6, <1>5, <1>8 DEF CurrentStatistics, Only

\* What a server makes of the members a request grants and revokes.
Joined(had, q) == (had \ q.changes.remove) \cup q.changes.add

\* A request to grant revokes nothing, and the other way round.
LEMMA GrantOrRevoke ==
  ASSUME NEW n, NEW names
  PROVE  /\ Asks("put", n, [add |-> names]).changes.add = names
         /\ Asks("put", n, [add |-> names]).changes.remove = {}
         /\ Asks("put", n, [remove |-> names]).changes.add = {}
         /\ Asks("put", n, [remove |-> names]).changes.remove = names
  BY DEF Asks, AsksOrElse, Overlay, Nothing

\* A grant followed by a revocation is a list of two.
LEMMA PairOfRequests ==
  ASSUME NEW a, NEW b
  PROVE  Len(<<a>> \o <<b>>) = 2 /\ (<<a>> \o <<b>>)[1] = a /\ (<<a>> \o <<b>>)[2] = b
  OBVIOUS

\* Update of a user or a group: the one or two requests that diffRoles leads to, carried
\* out in their order, turn the roles of the state into the planned ones; without a
\* difference there is no request.
THEOREM MemberUpdatesAreExact ==
  ASSUME NEW p, NEW s
  PROVE  LET had == AsSet(s.members)
             wanted == AsSet(p.members)
             reqs == RolesUpdate(p, s)
         IN \/ reqs = <<>> /\ wanted = had
            \/ Len(reqs) = 1 /\ wanted = Joined(had, reqs[1])
            \/ Len(reqs) = 2 /\ wanted = Joined(Joined(had, reqs[1]), reqs[2])
<1> DEFINE had == AsSet(s.members)
           wanted == AsSet(p.members)
           grant == wanted \ had
           revoke == had \ wanted
           g == Asks("put", s.name, [add |-> grant])
           r == Asks("put", s.name, [remove |-> revoke])
           reqs == RolesUpdate(p, s)
<1>1. reqs = (IF grant = {} THEN <<>> ELSE <<g>>) \o (IF revoke = {} THEN <<>> ELSE <<r>>)
  BY Zenon DEF RolesUpdate
<1> HIDE DEF grant, revoke
<1>2. g.changes.add = grant /\ g.changes.remove = {}
  BY Zenon, GrantOrRevoke
<1>3. r.changes.add = {} /\ r.changes.remove = revoke
  BY Zenon, GrantOrRevoke
<1> USE DEF grant, revoke
<1> HIDE DEF reqs, had, wanted, g, r
<1>4. CASE grant = {} /\ revoke = {}
  BY <1>1, <1>4 DEF reqs, had, wanted
<1>5. CASE grant # {} /\ revoke = {}
  BY <1>1, <1>5, <1>2 DEF Joined, reqs, had, wanted
<1>6. CASE grant = {} /\ revoke # {}
  BY <1>1, <1>6, <1>3 DEF Joined, reqs, had, wanted
<1>7. CASE grant # {} /\ revoke # {}
  <2>1. Len(reqs) = 2 /\ reqs[1] = g /\ reqs[2] = r
    <3>1. reqs = <<g>> \o <<r>>
      BY <1>1, <1>7
    <3> QED
      BY <3>1, PairOfRequests
  <2>2. wanted = Joined(Joined(had, g), r)
    BY <1>2, <1>3 DEF Joined
  <2> QED
    BY <2>1, <2>2 DEF reqs, had, wanted
<1> QED
  BY <1>4, <1>5, <1>6, <1>7

-----------------------------------------------------------------------------
(* Refreshing is idempotent.                                               *)

\* The keys that are managed stay the same ones.
LEMMA ProjectKeepsKeys ==
  ASSUME NEW v, NEW m
  PROVE  /\ DOMAIN ProjectProperties(v, m) = DOMAIN m
         /\ \A k \in DOMAIN m : ProjectProperties(v, m)[k] = IF k \in DOMAIN v THEN v[k] ELSE m[k]
         /\ ProjectProperties(v, ProjectProperties(v, m)) = ProjectProperties(v, m)
  BY DEF ProjectProperties

\* A map is neither not set nor unknown.
MapsAreSet(K, V) == \A D \in SUBSET K : [D -> V] \cap NotSet = {}

\* Projecting onto the keys of a map gives a map with these keys.
LEMMA ProjectIsMap ==
  ASSUME NEW K, NEW V, NEW D \in SUBSET K, NEW E \in SUBSET K,
         NEW v \in [D -> V], NEW m \in [E -> V]
  PROVE  ProjectProperties(v, m) \in [E -> V]
  BY DEF ProjectProperties

\* What an answer writes of a tag, attribute by attribute.
LEMMA TagStateParts ==
  ASSUME NEW v, NEW m, {"name", "comment", "props"} \subseteq DOMAIN m
  PROVE  /\ TagState(v, m).name = v.name
         /\ TagState(v, m).comment = CommentFromServer(v.comment, m.comment)
         /\ TagState(v, m).props = PropertiesToState(v.props, m.props)
         /\ \A a \in DOMAIN m \ {"name", "comment", "props"} : TagState(v, m)[a] = m[a]
         /\ DOMAIN TagState(v, m) = DOMAIN m
<1> DEFINE one == [m EXCEPT !.name = v.name]
           two == [one EXCEPT !.comment = CommentFromServer(v.comment, m.comment)]
           t == [two EXCEPT !.props = PropertiesToState(v.props, m.props)]
<1>1. /\ DOMAIN one = DOMAIN m /\ one.name = v.name
      /\ \A a \in DOMAIN m \ {"name"} : one[a] = m[a]
  OBVIOUS
<1>2. /\ DOMAIN two = DOMAIN one /\ two.comment = CommentFromServer(v.comment, m.comment)
      /\ \A a \in DOMAIN one \ {"comment"} : two[a] = one[a]
  <2> HIDE DEF one
  <2> QED
    BY <1>1
<1>3. /\ DOMAIN t = DOMAIN two /\ t.props = PropertiesToState(v.props, m.props)
      /\ \A a \in DOMAIN two \ {"props"} : t[a] = two[a]
  <2> HIDE DEF one, two
  <2> QED
    BY <1>1, <1>2
<1> HIDE DEF one, two, t
<1> QED
  BY <1>1, <1>2, <1>3 DEF TagState

\* The state of a tag has the attributes of the state before.
LEMMA TagStateIsFunction ==
  ASSUME NEW v, NEW m
  PROVE  TagState(v, m) = [a \in DOMAIN m |-> TagState(v, m)[a]]
  BY DEF TagState

\* A second refresh of a tag or a topic, with nothing changed in between, finds what the
\* first has written, whatever was in state: an imported, a partial or a full map.
THEOREM TagRefreshIsIdempotent ==
  ASSUME NEW K, NEW V, NEW D \in SUBSET K, NEW E \in SUBSET K, MapsAreSet(K, V),
         NEW v, v.props \in [D -> V],
         NEW m, m.props \in {Null} \cup [E -> V],
         {"name", "comment", "props"} \subseteq DOMAIN m,
         v.comment \notin NotSet, "" \notin NotSet
  PROVE  TagState(v, TagState(v, m)) = TagState(v, m)
<1> DEFINE one == TagState(v, m)
           two == TagState(v, one)
<1>1. one = [a \in DOMAIN m |-> one[a]]
  BY TagStateIsFunction
<1>2. /\ one.name = v.name /\ one.comment = CommentFromServer(v.comment, m.comment)
      /\ one.props = PropertiesToState(v.props, m.props)
      /\ \A a \in DOMAIN m \ {"name", "comment", "props"} : one[a] = m[a]
      /\ DOMAIN one = DOMAIN m
  BY TagStateParts
<1> HIDE DEF one
<1>3. /\ two.name = v.name /\ two.comment = CommentFromServer(v.comment, one.comment)
      /\ two.props = PropertiesToState(v.props, one.props)
      /\ \A a \in DOMAIN one \ {"name", "comment", "props"} : two[a] = one[a]
      /\ DOMAIN two = DOMAIN one
  <2>1. {"name", "comment", "props"} \subseteq DOMAIN one
    BY <1>2
  <2> QED
    BY <2>1, TagStateParts
<1>t. two = [a \in DOMAIN one |-> two[a]]
  BY TagStateIsFunction
<1> HIDE DEF two
<1>4. two.props = one.props
  <2>1. CASE m.props = Null
    <3>1. one.props = MapToTF(v.props)
      BY <1>2, <2>1 DEF PropertiesToState, NotSet
    <3>2. CASE v.props = NoMap
      BY <1>3, <3>1, <3>2 DEF MapToTF, PropertiesToState, NotSet
    <3>3. CASE v.props # NoMap
      BY <3>1, <3>3, <1>3 DEF MapToTF, MapsAreSet, ProjectProperties, PropertiesToState
    <3> QED
      BY <3>2, <3>3
  <2>2. CASE m.props \in [E -> V]
    <3>1. [E -> V] \cap NotSet = {}
      BY Zenon DEF MapsAreSet
    <3>2. one.props = ProjectProperties(v.props, m.props)
      BY <1>2, <2>2, <3>1 DEF PropertiesToState
    <3>3. one.props \in [E -> V]
      <4>1. ProjectProperties(v.props, m.props) \in [E -> V]
        BY <2>2, ProjectIsMap
      <4> QED
        BY <3>2, <4>1
    <3>4. one.props \notin NotSet
      BY <3>1, <3>3
    <3> QED
      <4>1. \A w, n : ProjectProperties(w, ProjectProperties(w, n)) = ProjectProperties(w, n)
        BY ProjectKeepsKeys
      <4> QED
        BY <3>2, <1>3, <3>4, <4>1 DEF PropertiesToState
  <2> QED
    BY <2>1, <2>2
<1>5. \A a \in DOMAIN m : two[a] = one[a]
  BY <1>2, <1>3, <1>4 DEF CommentFromServer, NotSet
<1>6. two = one
  BY <1>2, <1>5, <1>1, <1>t
<1> QED
  BY <1>6 DEF one, two

-----------------------------------------------------------------------------
(* Lists of requests.                                                      *)

\* A list, of whatever is in it.
Listing(l) == \E S : l \in Seq(S)

\* What is left of a list when its first element has been taken.
LEMMA RestOfList ==
  ASSUME NEW l, Listing(l), l # <<>>
  PROVE  /\ Listing(Tail(l)) /\ 1 \in DOMAIN l /\ Head(l) = l[1]
         /\ \A i \in DOMAIN Tail(l) : i + 1 \in DOMAIN l /\ Tail(l)[i] = l[i + 1]
         /\ \A i \in DOMAIN l : i \in Nat /\ (i = 1 \/ (i - 1 \in DOMAIN Tail(l) /\ i > 1))
  BY DEF Listing

\* Lists of at most three requests are lists.
LEMMA ShortLists ==
  ASSUME NEW a, NEW b, NEW c
  PROVE  Listing(<<>>) /\ Listing(<<a>>) /\ Listing(<<a, b>>) /\ Listing(<<a, b, c>>)
<1>1. /\ <<>> \in Seq({}) /\ <<a>> \in Seq({a}) /\ <<a, b>> \in Seq({a, b})
      /\ <<a, b, c>> \in Seq({a, b, c})
  OBVIOUS
<1> QED
  BY <1>1 DEF Listing

\* Two lists, one after the other.
LEMMA Appended ==
  ASSUME NEW a, NEW b, NEW c
  PROVE  /\ <<a>> \o <<b>> = <<a, b>> /\ <<a, b>> \o <<c>> = <<a, b, c>>
         /\ <<>> \o <<>> = <<>> /\ <<>> \o <<a>> = <<a>> /\ <<a>> \o <<>> = <<a>>
         /\ <<a, b>> \o <<>> = <<a, b>>
<1>1. <<a>> \o <<b>> = <<a, b>>
  <2> DEFINE l == <<a>> \o <<b>>
  <2>1. l \in Seq({a, b}) /\ Len(l) = 2 /\ l[1] = a /\ l[2] = b
    OBVIOUS
  <2> HIDE DEF l
  <2>2. l = <<a, b>>
    BY <2>1
  <2> QED
    BY <2>2 DEF l
<1>2. <<a, b>> \o <<c>> = <<a, b, c>>
  <2> DEFINE l == <<a, b>> \o <<c>>
  <2>1. l \in Seq({a, b, c}) /\ Len(l) = 3 /\ l[1] = a /\ l[2] = b /\ l[3] = c
    OBVIOUS
  <2> HIDE DEF l
  <2>2. l = <<a, b, c>>
    BY <2>1
  <2> QED
    BY <2>2 DEF l
<1> QED
  BY <1>1, <1>2

-----------------------------------------------------------------------------
(* What requests ask for.                                                  *)

\* What a request may do to the name of its object: keep it, keep it and be refused
\* by no server that has the object, or change it.
NoRename(q) == "name" \notin DOMAIN q.changes.plain
Stays(q, n) == q.target = n /\ NoRename(q) /\ q.verb \in {"get", "put", "patch", "unsupported"}
Follows(q, n) == /\ q.target = n /\ NoRename(q) /\ q.verb \in {"get", "patch"}
                 /\ q.changes.add = {} /\ q.changes.ops = <<>>
Moves(q, n, m) == q.target = n /\ q.verb = "put" /\ ~NoRename(q) /\ q.changes.plain.name = m

StayAll(l, n) == \A i \in DOMAIN l : Stays(l[i], n)
FollowAll(l, n) == \A i \in DOMAIN l : Follows(l[i], n)
MoveOnce(l, n, m) ==
  \E i \in DOMAIN l : /\ Moves(l[i], n, m)
                      /\ \A j \in DOMAIN l : /\ j < i => Stays(l[j], n)
                                             /\ j > i => Follows(l[j], m)

\* The requests that undo are PATCHes that are not undone themselves.
Undoes(l) ==
  \A i \in DOMAIN l : /\ l[i].verb = "patch" /\ l[i].target \in Names
                      /\ NoRename(l[i]) /\ l[i].undo = <<>>

RequestOK(q) ==
  /\ q.target \in Names \cup {Unknown}
  /\ NoRename(q) \/ (q.verb = "put" /\ q.changes.plain.name \in Names)
  /\ Listing(q.undo) /\ Undoes(q.undo)

\* A request whose answer shows an object.
Shows(q) == q.verb \notin {"patch", "delete", "force"}

\* The empty list is a list of requests, and undoes nothing.
LEMMA NothingUndoes == Listing(<<>>) /\ Undoes(<<>>)
<1>1. Undoes(<<>>)
  BY DEF Undoes
<1> QED
  BY <1>1, ShortLists

\* The plain attributes of some changes.
PlainOf(c) == IF "plain" \in DOMAIN c THEN c.plain ELSE NoMap
NameKept(c) == "name" \notin DOMAIN PlainOf(c)

\* A request without changes changes no plain attribute and no name.
LEMMA NothingPlain == PlainOf(Nothing) = NoMap /\ NameKept(Nothing)
  BY DEF PlainOf, NameKept, Nothing, NoMap

\* The parts of a request.
LEMMA Asked ==
  ASSUME NEW v, NEW t, NEW c, NEW u
  PROVE  /\ AsksOrElse(v, t, c, u).verb = v /\ AsksOrElse(v, t, c, u).target = t
         /\ AsksOrElse(v, t, c, u).undo = u
         /\ AsksOrElse(v, t, c, u).changes.plain = PlainOf(c)
         /\ "add" \notin DOMAIN c => AsksOrElse(v, t, c, u).changes.add = {}
         /\ "ops" \notin DOMAIN c => AsksOrElse(v, t, c, u).changes.ops = <<>>
         /\ c = Nothing => /\ AsksOrElse(v, t, c, u).changes.add = {}
                           /\ AsksOrElse(v, t, c, u).changes.ops = <<>>
<1>1. "add" \notin DOMAIN c => Overlay(c, Nothing).add = {}
  BY DEF Overlay, Nothing
<1>2. "ops" \notin DOMAIN c => Overlay(c, Nothing).ops = <<>>
  BY DEF Overlay, Nothing
<1>3. Overlay(Nothing, Nothing).add = {} /\ Overlay(Nothing, Nothing).ops = <<>>
  BY DEF Overlay, Nothing
<1>4. /\ AsksOrElse(v, t, c, u).verb = v /\ AsksOrElse(v, t, c, u).target = t
      /\ AsksOrElse(v, t, c, u).undo = u
  BY DEF AsksOrElse
<1> HIDE DEF AsksOrElse
<1> QED
  BY <1>1, <1>2, <1>3, <1>4 DEF AsksOrElse, Overlay, Nothing, PlainOf

\* A request that keeps the name, and is not undone.
LEMMA Staying ==
  ASSUME NEW v \in {"get", "put", "patch", "unsupported"}, NEW n \in Names \cup {Unknown},
         NEW c, NameKept(c)
  PROVE  Stays(Asks(v, n, c), n) /\ RequestOK(Asks(v, n, c)) /\ Asks(v, n, c).verb = v
<1>1. Asks(v, n, c) = AsksOrElse(v, n, c, <<>>)
  BY DEF Asks
<1>2. Listing(<<>>) /\ Undoes(<<>>)
  BY NothingUndoes
<1> HIDE DEF Asks
<1> QED
  BY <1>1, Asked, <1>2 DEF Stays, RequestOK, NoRename, NameKept

\* A PUT that gives another name.
LEMMA Moving ==
  ASSUME NEW n \in Names, NEW m \in Names, NEW c, NEW u, ~NameKept(c), PlainOf(c).name = m,
         Listing(u), Undoes(u)
  PROVE  /\ Moves(AsksOrElse("put", n, c, u), n, m)
         /\ RequestOK(AsksOrElse("put", n, c, u)) /\ Shows(AsksOrElse("put", n, c, u))
<1> DEFINE q == AsksOrElse("put", n, c, u)
<1>1. q.verb = "put" /\ q.target = n /\ q.undo = u /\ q.changes.plain = PlainOf(c)
  BY Asked
<1> HIDE DEF q
<1> QED
  BY <1>1 DEF q, Moves, RequestOK, Shows, NoRename, NameKept

\* The read that ends an update, and the PATCHes of the flag.
LEMMA Following ==
  ASSUME NEW n \in Names, NEW f
  PROVE  /\ Follows(Get(n), n) /\ Stays(Get(n), n) /\ RequestOK(Get(n)) /\ Shows(Get(n))
         /\ LET q == Asks("patch", n, [plain |-> [flag |-> f]])
            IN Follows(q, n) /\ Stays(q, n) /\ RequestOK(q) /\ q.undo = <<>> /\ q.verb = "patch"
<1> DEFINE q == Asks("patch", n, [plain |-> [flag |-> f]])
<1>1. q.changes.add = {} /\ q.changes.ops = <<>> /\ q.undo = <<>>
  BY Asked DEF Asks
<1>2. Stays(Get(n), n) /\ RequestOK(Get(n)) /\ Get(n).verb = "get"
  BY NothingPlain, Staying DEF Get
<1> HIDE DEF q
<1>3. Follows(Get(n), n) /\ Shows(Get(n))
  BY <1>2, Asked DEF Follows, Stays, Shows, Get, Asks
<1> QED
  BY Staying, <1>1, <1>2, <1>3 DEF q, Follows, Stays, NameKept, PlainOf

-----------------------------------------------------------------------------
(* What an update sends, resource by resource.                             *)

AllKinds ==
  {"catalog", "schema", "topic", "model", "fileset", "tag", "policy", "view", "derived_view", "function",
   "table", "job_template", "partition", "identity", "user", "group", "role", "owner",
   "idp_user", "idp_group", "statistics", "partition_statistics"}
RenamedKinds == {"catalog", "model", "fileset", "tag", "policy", "view", "derived_view", "table",
                 "job_template"}
KeptKinds == {"catalog", "schema", "fileset", "policy", "job_template", "user", "group",
              "idp_user", "idp_group"}

\* The requests are such that the object either keeps its name throughout, or is moved
\* by one PUT behind which nothing can be refused.
Renames(l, n, m) == IF m = n THEN StayAll(l, n) ELSE MoveOnce(l, n, m)
ListOK(l) == Listing(l) /\ \A i \in DOMAIN l : RequestOK(l[i])

\* Lists of one, two or three good requests are good lists.
LEMMA ShortListsOK ==
  ASSUME NEW a, NEW b, NEW c
  PROVE  /\ ListOK(<<>>)
         /\ RequestOK(a) => ListOK(<<a>>)
         /\ RequestOK(a) /\ RequestOK(b) => ListOK(<<a, b>>)
         /\ RequestOK(a) /\ RequestOK(b) /\ RequestOK(c) => ListOK(<<a, b, c>>)
  BY ShortLists DEF ListOK

\* A list of one request is good if its request is.
LEMMA ListOfOne ==
  ASSUME NEW a, RequestOK(a)
  PROVE  /\ ListOK(<<a>>) /\ 1 \in DOMAIN <<a>>
         /\ \A i \in DOMAIN <<a>> : i = 1 /\ <<a>>[i] = a
<1>1. ListOK(<<a>>)
  BY ShortListsOK
<1> QED
  BY <1>1

\* The plain attributes that an update carries, and the name among them.
LEMMA PlainCarried ==
  ASSUME NEW p, NEW s, NEW attrs, "name" \in DOMAIN p, p.name # Unknown
  PROVE  LET plain == PlainUpdates(p, s, attrs)
         IN /\ "name" \in DOMAIN plain <=> "name" \in attrs /\ p.name # s.name
            /\ "name" \in DOMAIN plain => plain.name = p.name
  BY DEF PlainUpdates, Differs, OnServer

\* The plain attributes among some changes.
LEMMA PlainOfOverlay ==
  ASSUME NEW x, NEW y, NEW z
  PROVE  /\ PlainOf(Overlay([plain |-> x], y)) = x
         /\ PlainOf(Overlay([ops |-> z], y)) = PlainOf(y)
         /\ PlainOf(Overlay([add |-> x, remove |-> z], Nothing)) = NoMap
  BY DEF PlainOf, Overlay, Nothing

\* Those of an update are the attributes that differ.
LEMMA PlainOfChanges ==
  ASSUME NEW p, NEW s, NEW attrs
  PROVE  PlainOf(Changes(p, s, attrs)) = PlainUpdates(p, s, attrs)
  BY PlainOfOverlay DEF Changes

\* One PUT, or none without changes.
LEMMA Sending ==
  ASSUME NEW s, s.name \in Names, NEW c, NEW m \in Names,
         IF m = s.name THEN NameKept(c) ELSE ~NameKept(c) /\ PlainOf(c).name = m
  PROVE  LET q == Asks("put", s.name, c)
         IN /\ Send(s, c) \in {<<>>, <<q>>} /\ SendOrGet(s, c) \in {<<Get(s.name)>>, <<q>>}
            /\ m = s.name => Stays(q, m)
            /\ m # s.name => /\ Moves(q, s.name, m)
                             /\ Send(s, c) = <<q>> /\ SendOrGet(s, c) = <<q>>
            /\ RequestOK(q) /\ Shows(q)
<1> DEFINE q == Asks("put", s.name, c)
<1>1. /\ Send(s, c) = IF c = Nothing THEN <<>> ELSE <<q>>
      /\ SendOrGet(s, c) = IF c = Nothing THEN <<Get(s.name)>> ELSE <<q>>
  BY DEF Send, SendOrGet
<1>2. CASE m = s.name
  <2> HIDE DEF q
  <2> QED
    BY <1>1, <1>2, Staying DEF Shows, q
<1>3. CASE m # s.name
  <2> HIDE DEF q
  <2> QED
    BY <1>1, <1>3, NothingUndoes, Moving, NothingPlain DEF q, Asks
<1> QED
  BY <1>2, <1>3

\* Lists of one request.
LEMMA OneSent ==
  ASSUME NEW s, s.name \in Names, NEW c, NEW m \in Names,
         IF m = s.name THEN NameKept(c) ELSE ~NameKept(c) /\ PlainOf(c).name = m
  PROVE  /\ ListOK(Send(s, c)) /\ Renames(Send(s, c), s.name, m)
         /\ ListOK(SendOrGet(s, c)) /\ Renames(SendOrGet(s, c), s.name, m)
         /\ \E i \in DOMAIN SendOrGet(s, c) : Shows(SendOrGet(s, c)[i])
<1> DEFINE q == Asks("put", s.name, c)
           g == Get(s.name)
<1>1. /\ Send(s, c) \in {<<>>, <<q>>} /\ SendOrGet(s, c) \in {<<g>>, <<q>>}
      /\ m = s.name => Stays(q, m)
      /\ m # s.name => /\ Moves(q, s.name, m)
                       /\ Send(s, c) = <<q>> /\ SendOrGet(s, c) = <<q>>
      /\ RequestOK(q) /\ Shows(q)
  BY Sending
<1>2. Stays(g, s.name) /\ RequestOK(g) /\ Shows(g)
  BY Following
<1> HIDE DEF q, g
<1>3. /\ ListOK(<<>>) /\ ListOK(<<q>>) /\ ListOK(<<g>>)
  BY <1>1, <1>2, ShortListsOK
<1>4. (\E i \in DOMAIN <<q>> : Shows(<<q>>[i])) /\ (\E i \in DOMAIN <<g>> : Shows(<<g>>[i]))
  BY <1>1, <1>2
<1> QED
  BY <1>1, <1>3, <1>2, <1>4 DEF Renames, StayAll, MoveOnce

\* The request that lists statistics.
LEMMA Listed1 ==
  ASSUME NEW p, p.name \in Names
  PROVE  /\ ListOK(List(p)) /\ \E i \in DOMAIN List(p) : Shows(List(p)[i])
         /\ \A i \in DOMAIN List(p) : List(p)[i].verb = "list"
<1> DEFINE q == Asks("list", p.name, Nothing)
<1>1. q.verb = "list" /\ q.target = p.name /\ q.undo = <<>> /\ q.changes.plain = NoMap
  BY Asked, NothingPlain DEF Asks
<1>2. List(p) = <<q>>
  BY DEF List
<1> HIDE DEF q
<1> QED
  BY <1>1, <1>2, NothingUndoes, ListOfOne DEF RequestOK, NoRename, NoMap, Shows

\* What is asked of the requests of an update from the state s to the plan p.
UpdateOK(k, l, s, p) ==
  /\ ListOK(l)
  /\ k \in KeptKinds \/ \E i \in DOMAIN l : Shows(l[i])
  /\ k \in Attached => \A i \in DOMAIN l : l[i].verb # "post"
  /\ k = "identity" => StayAll(l, s.name)
  /\ k \notin TwoStepCreates \cup Attached \cup {"identity"} => Renames(l, s.name, p.name)

\* The name is among the changes when it may be changed, and is.
LEMMA NameCarried ==
  ASSUME NEW p, NEW s, NEW attrs, NEW c, "name" \in DOMAIN p, p.name \in Names,
         PlainOf(c) = PlainUpdates(p, s, attrs),
         "name" \in attrs \/ p.name = s.name
  PROVE  IF p.name = s.name THEN NameKept(c) ELSE ~NameKept(c) /\ PlainOf(c).name = p.name
  BY NameAssumption, PlainCarried DEF NameKept

\* An update of one PUT, perhaps left out or replaced by a GET.
LEMMA OneUpdate ==
  ASSUME NEW p, NEW s, NEW attrs, NEW c, "name" \in DOMAIN p, p.name \in Names,
         s.name \in Names, PlainOf(c) = PlainUpdates(p, s, attrs),
         "name" \in attrs \/ p.name = s.name
  PROVE  /\ ListOK(Send(s, c)) /\ Renames(Send(s, c), s.name, p.name)
         /\ ListOK(SendOrGet(s, c)) /\ Renames(SendOrGet(s, c), s.name, p.name)
         /\ \E i \in DOMAIN SendOrGet(s, c) : Shows(SendOrGet(s, c)[i])
  BY NameCarried, OneSent

\* An update of one PUT.
LEMMA SingleUpdates ==
  ASSUME NEW p, NEW s, "name" \in DOMAIN p, p.name \in Names, s.name \in Names,
         NEW k \in {"schema", "topic", "model", "fileset", "tag", "view", "derived_view", "function",
                    "job_template", "idp_user"},
         k \in RenamedKinds \/ p.name = s.name
  PROVE  UpdateOK(k, Updates(k, p, s), s, p)
<1> USE DEF UpdateOK, KeptKinds, RenamedKinds, Attached, StatisticsKinds, TwoStepCreates
<1>1. CASE k = "schema"
  BY <1>1, OneUpdate, PlainOfChanges DEF Updates, SchemaUpdate
<1>2. CASE k = "topic"
  BY <1>2, OneUpdate, PlainOfChanges DEF Updates, TopicUpdate
<1>3. CASE k = "model"
  BY <1>3, OneUpdate, PlainOfChanges DEF Updates, ModelUpdate
<1>4. CASE k = "fileset"
  BY <1>4, OneUpdate, PlainOfChanges DEF Updates, FilesetUpdate
<1>5. CASE k = "tag"
  <2> DEFINE q == [p EXCEPT !.comment = IF @ = Unknown THEN "" ELSE @]
             c == Changes(q, s, {"name", "comment"})
  <2>1. "name" \in DOMAIN q /\ q.name = p.name
    OBVIOUS
  <2>2. PlainOf(c) = PlainUpdates(q, s, {"name", "comment"})
    BY PlainOfChanges
  <2>3. Updates(k, p, s) = SendOrGet(s, c)
    BY <1>5 DEF Updates, TagUpdate
  <2> HIDE DEF q, c
  <2> QED
    BY <1>5, <2>1, <2>2, <2>3, OneUpdate
<1>6. CASE k \in {"view", "derived_view"}
  BY <1>6, OneUpdate, PlainOfChanges DEF Updates, ViewUpdate
<1>7. CASE k = "function"
  <2> DEFINE ops == DefinitionUpdates(p.definitions, s.definitions)
             y == Changes(p, s, {"comment"})
             c == Overlay([ops |-> ops], y)
  <2>1. Updates(k, p, s) = SendOrGet(s, c)
    BY <1>7 DEF Updates, FunctionUpdate
  <2>2. PlainOf(y) = PlainUpdates(p, s, {"comment"})
    BY PlainOfChanges
  <2> HIDE DEF ops, y
  <2>3. PlainOf(c) = PlainUpdates(p, s, {"comment"})
    BY <2>2, PlainOfOverlay
  <2> HIDE DEF c
  <2> QED
    BY <1>7, <2>3, <2>1, OneUpdate
<1>8. CASE k = "job_template"
  <2> DEFINE attrs == {"name", "comment", "content", "props"}
             c == Overlay([plain |-> PlainUpdates(p, s, attrs)], Nothing)
  <2>1. PlainOf(c) = PlainUpdates(p, s, attrs)
    BY PlainOfOverlay
  <2>2. Updates(k, p, s) = Send(s, c)
    BY <1>8 DEF Updates, JobTemplateUpdate
  <2>3. "name" \in attrs
    OBVIOUS
  <2> HIDE DEF c, attrs
  <2> QED
    BY <1>8, <2>1, <2>2, <2>3, OneUpdate
<1>9. CASE k = "idp_user"
  <2> DEFINE c == Overlay([plain |-> PlainUpdates(p, s, {"secret"})], Nothing)
  <2>1. PlainOf(c) = PlainUpdates(p, s, {"secret"})
    BY PlainOfOverlay
  <2>2. Updates(k, p, s) = Send(s, c)
    BY <1>9 DEF Updates, IdpUserUpdate
  <2> HIDE DEF c
  <2> QED
    BY <1>9, <2>1, <2>2, OneUpdate
<1> QED
  BY <1>1, <1>2, <1>3, <1>4, <1>5, <1>6, <1>7, <1>8, <1>9

\* An update of a policy: a PUT, unless only the flag changes, and a PATCH at the new
\* name.
LEMMA PolicyUpdates ==
  ASSUME NEW p, NEW s, "name" \in DOMAIN p, p.name \in Names, s.name \in Names
  PROVE  UpdateOK("policy", Updates("policy", p, s), s, p)
<1> DEFINE attrs == PolicyAttrs(p, s)
           c == Overlay([plain |-> PlainUpdates(p, s, attrs)], Nothing)
           q == Asks("put", s.name, c)
           a == Asks("patch", p.name, [plain |-> [flag |-> p.flag]])
           l == Updates("policy", p, s)
<1>1. PlainOf(c) = PlainUpdates(p, s, attrs) /\ "name" \in attrs
  BY PlainOfOverlay DEF PolicyAttrs
<1>2. /\ Send(s, c) \in {<<>>, <<q>>} /\ RequestOK(q) /\ Shows(q)
      /\ p.name = s.name => Stays(q, p.name)
      /\ p.name # s.name => Moves(q, s.name, p.name) /\ Send(s, c) = <<q>>
  <2> HIDE DEF attrs, c
  <2> QED
    BY <1>1, NameCarried, Sending
<1>3. Follows(a, p.name) /\ Stays(a, p.name) /\ RequestOK(a)
  BY Following
<1>4. PolicyPatch(p, s) \in {<<>>, <<a>>}
  BY DEF PolicyPatch
<1>5. l = Send(s, c) \o PolicyPatch(p, s)
  BY DEF Updates, PolicyUpdate
<1> HIDE DEF attrs, c, q, a, l
<1>6. l \in {<<>>, <<q>>, <<a>>, <<q, a>>} /\ (p.name # s.name => l \in {<<q>>, <<q, a>>})
  BY <1>2, <1>4, <1>5, Appended
<1>7. p.name = s.name => StayAll(l, s.name)
  BY <1>2, <1>3, <1>6 DEF StayAll
<1>8. p.name # s.name => MoveOnce(l, s.name, p.name)
  BY <1>2, <1>3, <1>6 DEF MoveOnce
<1>9. ListOK(l)
  BY <1>6, <1>2, <1>3, ShortListsOK
<1> QED
  BY <1>7, <1>8, <1>9
     DEF UpdateOK, Renames, KeptKinds, Attached, StatisticsKinds, l

\* An update of a catalog: a PATCH that enables it, a PUT that undoes it when it fails,
\* and a PATCH that disables it at the new name.
LEMMA CatalogUpdates ==
  ASSUME NEW p, NEW s, "name" \in DOMAIN p, p.name \in Names, s.name \in Names
  PROVE  UpdateOK("catalog", Updates("catalog", p, s), s, p)
<1> DEFINE attrs == {"name", "comment"}
           c == Changes(p, s, attrs)
           briefly == Temporarily(p, s, c)
           undo == IF briefly THEN Enable(s.name, FALSE) ELSE <<>>
           e == Asks("patch", s.name, [plain |-> [flag |-> TRUE]])
           q == AsksOrElse("put", s.name, c, undo)
           d == Asks("patch", p.name, [plain |-> [flag |-> FALSE]])
           first == IF (p.flag # s.flag /\ p.flag) \/ briefly THEN <<e>> ELSE <<>>
           second == IF c = Nothing THEN <<>> ELSE <<q>>
           third == IF (p.flag # s.flag /\ ~p.flag) \/ briefly THEN <<d>> ELSE <<>>
           l == Updates("catalog", p, s)
<1>1. PlainOf(c) = PlainUpdates(p, s, attrs) /\ "name" \in attrs
  BY PlainOfChanges
<1>2. l = (first \o second) \o third
  BY DEF Updates, CatalogUpdate, Enable
<1>3. Stays(e, s.name) /\ RequestOK(e)
  BY Following
<1>4. Follows(d, p.name) /\ Stays(d, p.name) /\ RequestOK(d)
  BY Following
<1>5. Listing(undo) /\ Undoes(undo)
  <2> DEFINE u == Asks("patch", s.name, [plain |-> [flag |-> FALSE]])
  <2>1. Stays(u, s.name) /\ u.undo = <<>> /\ u.verb = "patch"
    BY Following
  <2>2. undo \in {<<>>, <<u>>}
    BY DEF Enable
  <2> HIDE DEF undo, u
  <2>3. Undoes(<<u>>)
    BY <2>1 DEF Undoes, Stays
  <2> QED
    BY <2>2, <2>3, NothingUndoes, ShortLists
<1>6. IF p.name = s.name THEN NameKept(c) ELSE ~NameKept(c) /\ PlainOf(c).name = p.name
  <2> HIDE DEF c, attrs
  <2> QED
    BY <1>1, NameCarried
<1>7. RequestOK(q) /\ IF p.name = s.name THEN Stays(q, s.name)
                      ELSE Moves(q, s.name, p.name) /\ c # Nothing
  <2> HIDE DEF undo, c
  <2>1. q.verb = "put" /\ q.target = s.name /\ q.undo = undo /\ q.changes.plain = PlainOf(c)
    BY Asked
  <2> HIDE DEF q
  <2>2. CASE p.name = s.name
    BY <1>5, <1>6, <2>1, <2>2 DEF NameKept, NoRename, Stays, RequestOK
  <2>3. CASE p.name # s.name
    BY <1>6, <2>3, NothingPlain, <1>5, <2>1 DEF NameKept, NoRename, Moves, RequestOK
  <2> QED
    BY <2>2, <2>3
<1>8. first \in {<<>>, <<e>>} /\ second \in {<<>>, <<q>>} /\ third \in {<<>>, <<d>>}
  OBVIOUS
<1>9. p.name # s.name => second = <<q>>
  BY <1>7
<1> HIDE DEF first, second, third, e, q, d, l, c, undo, briefly
<1>10. /\ l \in {<<>>, <<e>>, <<q>>, <<d>>, <<e, q>>, <<e, d>>, <<q, d>>, <<e, q, d>>}
       /\ p.name # s.name => l \in {<<q>>, <<e, q>>, <<q, d>>, <<e, q, d>>}
  <2> DEFINE m == first \o second
  <2>1. m \in {<<>>, <<e>>, <<q>>, <<e, q>>} /\ (p.name # s.name => m \in {<<q>>, <<e, q>>})
    BY <1>8, <1>9, Appended
  <2>2. l = m \o third
    BY <1>2
  <2> HIDE DEF m
  <2>3. third = <<>> => l = m
    BY <2>1, <2>2, Appended
  <2>4. /\ <<>> \o <<d>> = <<d>> /\ <<e>> \o <<d>> = <<e, d>> /\ <<q>> \o <<d>> = <<q, d>>
        /\ <<e, q>> \o <<d>> = <<e, q, d>>
    BY Appended
  <2> QED
    BY <1>8, <2>1, <2>3, <2>2, <2>4
<1>11. ListOK(l)
  BY <1>3, <1>4, <1>7, <1>10, ShortListsOK
<1>12. p.name = s.name => StayAll(l, s.name)
  BY <1>3, <1>4, <1>7, <1>10 DEF StayAll
<1>13. p.name # s.name => MoveOnce(l, s.name, p.name)
  BY <1>3, <1>4, <1>7, <1>10 DEF MoveOnce
<1> QED
  BY <1>11, <1>12, <1>13
     DEF UpdateOK, Renames, KeptKinds, Attached, StatisticsKinds, l

\* An update of a table that is not to be replaced: a PUT, if something has changed, and
\* a GET at the new name.
LEMMA TableUpdates ==
  ASSUME NEW p, NEW s, "name" \in DOMAIN p, p.name \in Names, s.name \in Names,
         p.content = s.content, ~TableReplaced(p, s)
  PROVE  UpdateOK("table", Updates("table", p, s), s, p)
<1> DEFINE attrs == {"name", "comment"}
           ops == ColumnUpdates(p.columns, s.columns)
           y == Changes(p, s, attrs)
           c == Overlay([ops |-> ops], y)
           q == Asks("put", s.name, c)
           g == Get(p.name)
           l == Updates("table", p, s)
<1>1. l = Send(s, c) \o <<g>>
  <2> DEFINE replaced == p.content # s.content \/ TableReplaced(p, s)
             refused == <<Asks("unsupported", s.name, Nothing)>>
             sent == Send(s, c) \o <<g>>
  <2>1. TableUpdate(p, s) = IF replaced THEN refused ELSE sent
    BY Zenon DEF TableUpdate
  <2>2. ~replaced
    OBVIOUS
  <2> HIDE DEF replaced, refused, sent
  <2>3. l = sent
    BY <2>1, <2>2 DEF Updates
  <2> QED
    BY <2>3 DEF sent
<1>2. PlainOf(c) = PlainUpdates(p, s, attrs) /\ "name" \in attrs
  <2>1. PlainOf(y) = PlainUpdates(p, s, attrs)
    BY PlainOfChanges
  <2> HIDE DEF ops, y
  <2> QED
    BY <2>1, PlainOfOverlay
<1>3. /\ Send(s, c) \in {<<>>, <<q>>} /\ RequestOK(q)
      /\ p.name = s.name => Stays(q, p.name)
      /\ p.name # s.name => Moves(q, s.name, p.name) /\ Send(s, c) = <<q>>
  <2> HIDE DEF attrs, c
  <2> QED
    BY <1>2, NameCarried, Sending
<1>4. Follows(g, p.name) /\ Stays(g, p.name) /\ RequestOK(g) /\ Shows(g)
  BY Following
<1> HIDE DEF attrs, c, q, g, l
<1>5. l \in {<<g>>, <<q, g>>} /\ (p.name # s.name => l = <<q, g>>)
  BY <1>1, <1>3, Appended
<1>6. p.name = s.name => StayAll(l, s.name)
  BY <1>3, <1>4, <1>5 DEF StayAll
<1>7. p.name # s.name => MoveOnce(l, s.name, p.name)
  BY <1>3, <1>4, <1>5 DEF MoveOnce
<1>8. \E i \in DOMAIN l : Shows(l[i])
  BY <1>4, <1>5
<1>9. ListOK(l)
  BY <1>5, <1>3, <1>4, ShortListsOK
<1> QED
  BY <1>6, <1>7, <1>8, <1>9 DEF UpdateOK, Renames, Attached, StatisticsKinds, l

\* The updates that never rename: of members, owners and statistics.
LEMMA OtherUpdates ==
  ASSUME NEW p, NEW s, s.name \in Names, "name" \in DOMAIN p,
         NEW k \in {"partition", "identity", "user", "group", "role", "owner", "idp_group",
                    "statistics", "partition_statistics"},
         IF k = "identity" THEN p.name = Unknown ELSE p.name = s.name
  PROVE  UpdateOK(k, Updates(k, p, s), s, p)
<1> USE DEF UpdateOK, KeptKinds, Attached, StatisticsKinds, TwoStepCreates, Renames
<1>1. CASE k \in {"partition", "identity"}
  <2> DEFINE q == Asks("unsupported", s.name, Nothing)
  <2>1. Stays(q, s.name) /\ RequestOK(q) /\ q.verb = "unsupported"
    BY NothingPlain, Staying
  <2>2. Updates(k, p, s) = <<q>>
    BY <1>1 DEF Updates, PartitionUpdate
  <2> HIDE DEF q
  <2> QED
    BY <1>1, <2>2, <2>1, ListOfOne DEF StayAll, Shows
<1>2. CASE k \in {"user", "group"}
  <2> DEFINE grant == AsSet(p.members) \ AsSet(s.members)
             revoke == AsSet(s.members) \ AsSet(p.members)
             q == Asks("put", s.name, [add |-> grant])
             r == Asks("put", s.name, [remove |-> revoke])
             first == IF grant = {} THEN <<>> ELSE <<q>>
             second == IF revoke = {} THEN <<>> ELSE <<r>>
  <2>1. Updates(k, p, s) = first \o second
    BY <1>2 DEF Updates, UserUpdate, GroupUpdate, RolesUpdate
  <2>2. RequestOK(q) /\ RequestOK(r)
    BY Staying DEF NameKept, PlainOf, NoMap
  <2>3. first \in {<<>>, <<q>>} /\ second \in {<<>>, <<r>>}
    OBVIOUS
  <2> HIDE DEF first, second, q, r
  <2>4. first \o second \in {<<>>, <<q>>, <<r>>, <<q, r>>}
    BY <2>3, Appended
  <2>5. ListOK(first \o second)
    BY <2>2, <2>4, ShortListsOK
  <2> QED
    BY <1>2, <2>1, <2>5
<1>3. CASE k = "role"
  <2> DEFINE c == Overlay([plain |-> PlainUpdates(p, s, {"members"})], Nothing)
             q == Asks("put", s.name, c)
             g == Get(p.name)
  <2>1. PlainOf(c) = PlainUpdates(p, s, {"members"})
    BY PlainOfOverlay
  <2>2. Updates(k, p, s) = Send(s, c) \o <<g>>
    BY <1>3 DEF Updates, RoleUpdate
  <2>3. Send(s, c) \in {<<>>, <<q>>} /\ RequestOK(q) /\ Stays(q, s.name)
    <3> HIDE DEF c
    <3> QED
      BY <1>3, <2>1, NameCarried, Sending
  <2>4. Stays(g, s.name) /\ RequestOK(g) /\ Shows(g)
    BY <1>3, Following
  <2> HIDE DEF c, q, g
  <2>5. Send(s, c) \o <<g>> \in {<<g>>, <<q, g>>}
    BY <2>3, Appended
  <2>6. ListOK(<<g>>) /\ ListOK(<<q, g>>)
    BY <2>3, <2>4, ShortListsOK
  <2>7. StayAll(<<g>>, s.name) /\ StayAll(<<q, g>>, s.name)
    BY <2>3, <2>4 DEF StayAll
  <2>8. (\E i \in DOMAIN <<g>> : Shows(<<g>>[i])) /\ (\E i \in DOMAIN <<q, g>> : Shows(<<q, g>>[i]))
    BY <2>4
  <2> QED
    BY <1>3, <2>2, <2>5, <2>6, <2>7, <2>8
<1>4. CASE k = "owner"
  <2> DEFINE q == Asks("put", p.name, [plain |-> [content |-> p.content]])
  <2>1. RequestOK(q) /\ q.verb = "put"
    BY <1>4, Staying DEF NameKept, PlainOf
  <2>2. Updates(k, p, s) = <<q>>
    BY <1>4 DEF Updates, OwnerUpdate
  <2> HIDE DEF q
  <2> QED
    BY <1>4, <2>2, <2>1, ListOfOne DEF Shows
<1>5. CASE k = "idp_group"
  <2> DEFINE had == AsSet(s.members)
             wanted == IF p.members = Unknown THEN AsSet(s.members) ELSE AsSet(p.members)
             x == wanted \ had
             z == had \ wanted
             c == Overlay([add |-> x, remove |-> z], Nothing)
  <2>1. Updates(k, p, s) = Send(s, c)
    BY <1>5 DEF Updates, IdpGroupUpdate
  <2> HIDE DEF x, z
  <2>2. PlainOf(c) = NoMap
    BY PlainOfOverlay
  <2> HIDE DEF c
  <2> QED
    BY <1>5, <2>1, <2>2, OneSent DEF NameKept, NoMap
<1>6. CASE k \in {"statistics", "partition_statistics"}
  BY <1>6, Listed1 DEF Updates, StatisticsUpdate, PartitionStatisticsUpdate
<1> QED
  BY <1>1, <1>2, <1>3, <1>4, <1>5, <1>6

\* Whatever a plan changes of an object it does not replace, the requests of its Update
\* are well formed, and the object keeps its name while they are sent, or is given the
\* planned one by a single PUT: what is sent before the PUT is addressed to the old name,
\* what is sent after it to the new one, and that cannot be refused any more.
THEOREM UpdateRequests ==
  ASSUME NEW k \in AllKinds, NEW p, NEW s, "name" \in DOMAIN p, s.name \in Names,
         IF k = "identity" THEN p.name = Unknown ELSE p.name \in Names,
         k \in RenamedKinds \cup {"identity"} \/ p.name = s.name,
         k = "table" => p.content = s.content /\ ~TableReplaced(p, s)
  PROVE  UpdateOK(k, Updates(k, p, s), s, p)
  BY SingleUpdates, OtherUpdates, CatalogUpdates, PolicyUpdates, TableUpdates
     DEF RenamedKinds, AllKinds

-----------------------------------------------------------------------------
(* What a create and a delete send.                                        *)

\* The POST that makes an object.
Makes(q, n) == q.verb = "post" /\ q.target = n /\ NoRename(q)

\* A POST makes the object of the name it is addressed to.
LEMMA Posting ==
  ASSUME NEW n \in Names \cup {Unknown}, NEW c, NameKept(c)
  PROVE  Makes(Asks("post", n, c), n) /\ RequestOK(Asks("post", n, c)) /\ Shows(Asks("post", n, c))
<1> DEFINE q == Asks("post", n, c)
<1>1. q.verb = "post" /\ q.target = n /\ q.undo = <<>> /\ q.changes.plain = PlainOf(c)
  BY Asked DEF Asks
<1> HIDE DEF q
<1>2. Makes(q, n) /\ RequestOK(q) /\ Shows(q)
  BY <1>1, NothingUndoes DEF Makes, RequestOK, Shows, NoRename, NameKept
<1> QED
  BY <1>2 DEF q

\* So is the POST of a plan.
LEMMA PostOfPlan ==
  ASSUME NEW p, p.name \in Names \cup {Unknown}, NEW attrs
  PROVE  Makes(Post(p, attrs), p.name) /\ RequestOK(Post(p, attrs)) /\ Shows(Post(p, attrs))
<1> DEFINE f == [a \in attrs \ {"name"} |-> OnServer(a, p[a])]
           c == [plain |-> f]
<1>1. "name" \notin DOMAIN f
  OBVIOUS
<1>2. Post(p, attrs) = Asks("post", p.name, c)
  BY DEF Post
<1> HIDE DEF f
<1>3. NameKept(c)
  BY <1>1 DEF NameKept, PlainOf
<1> HIDE DEF c
<1> QED
  BY <1>2, <1>3, Posting

\* What is asked of the requests of a create of the plan p.
CreateOK(k, l, p) ==
  /\ ListOK(l) /\ \E i \in DOMAIN l : Shows(l[i])
  /\ k \in Attached => \A i \in DOMAIN l : l[i].verb # "post"
  /\ k \notin TwoStepCreates \cup Attached =>
       \A i \in DOMAIN l : \/ i = 1 /\ Makes(l[i], p.name)
                           \/ p.name \in Names /\ Follows(l[i], p.name)

\* A Create of one request is good.
LEMMA OnePost ==
  ASSUME NEW p, NEW q, Makes(q, p.name), RequestOK(q), Shows(q), NEW k, k \notin Attached
  PROVE  CreateOK(k, <<q>>, p)
  BY ListOfOne DEF CreateOK

\* A Create of a POST and one more request is good.
LEMMA TwoPosts ==
  ASSUME NEW p, p.name \in Names, NEW q, NEW g,
         Makes(q, p.name), RequestOK(q), Shows(q), RequestOK(g),
         NEW k, k \notin Attached, k \in TwoStepCreates \/ Follows(g, p.name)
  PROVE  CreateOK(k, <<q, g>>, p)
<1>1. (\E i \in DOMAIN <<q, g>> : Shows(<<q, g>>[i])) /\ <<q, g>>[1] = q /\ <<q, g>>[2] = g
      /\ \A i \in DOMAIN <<q, g>> : i = 1 \/ i = 2
  OBVIOUS
<1> QED
  BY ShortListsOK, <1>1 DEF CreateOK

\* The requests of a Create, kind by kind, are good.
LEMMA CreateRequests ==
  ASSUME NEW k \in AllKinds, NEW p,
         p.name \in Names \/ (k = "identity" /\ p.name = Unknown)
  PROVE  CreateOK(k, Creates(k, p), p)
<1> USE DEF Attached, StatisticsKinds, TwoStepCreates
<1>1. CASE k \in {"schema", "topic", "model", "fileset", "tag", "policy", "view", "derived_view", "function",
                  "table", "partition", "identity", "role"}
  BY <1>1, PostOfPlan, OnePost DEF Creates, SchemaCreate, TopicCreate, ModelCreate, FilesetCreate,
                                   TagCreate, PolicyCreate, ViewCreate, FunctionCreate,
                                   TableCreate, PartitionCreate, RoleCreate
<1>2. CASE k = "job_template"
  <2> DEFINE q == Post(p, JobTemplateSchema.attrs)
             g == Get(p.name)
  <2> HIDE DEF q, g
  <2> QED
    BY <1>2, PostOfPlan, Following, TwoPosts DEF Creates, JobTemplateCreate
<1>3. CASE k = "catalog"
  <2> DEFINE c == [plain |-> [comment |-> OnServer("comment", p.comment),
                              props |-> AsMap(p.props), flag |-> TRUE]]
             q == Asks("post", p.name, c)
             a == Asks("patch", p.name, [plain |-> [flag |-> FALSE]])
             second == IF p.flag THEN <<>> ELSE <<a>>
  <2>1. Creates(k, p) = <<q>> \o second
    BY <1>3 DEF Creates, CatalogCreate, Enable
  <2>2. NameKept(c)
    BY DEF NameKept, PlainOf
  <2>3. Follows(a, p.name) /\ RequestOK(a)
    BY <1>3, Following
  <2>4. second \in {<<>>, <<a>>}
    OBVIOUS
  <2> HIDE DEF c, a, second
  <2>5. Makes(q, p.name) /\ RequestOK(q) /\ Shows(q)
    BY <1>3, <2>2, Posting
  <2> HIDE DEF q
  <2>6. CreateOK(k, <<q>>, p) /\ CreateOK(k, <<q, a>>, p)
    BY <1>3, <2>3, <2>5, OnePost, TwoPosts
  <2> QED
    BY <2>1, <2>4, Appended, <2>6
<1>4. CASE k \in {"user", "group", "idp_group"}
  <2> DEFINE q == Bare(p)
             b == [add |-> p.members]
             a == Asks("put", p.name, b)
             second == Join(p)
  <2>1. Creates(k, p) = <<q>> \o second
    BY <1>4 DEF Creates, UserCreate, GroupCreate, IdpGroupCreate
  <2>2. NameKept([plain |-> [members |-> {}]]) /\ NameKept(b)
    BY DEF NameKept, PlainOf, NoMap
  <2>3. second \in {<<>>, <<a>>}
    BY DEF Join
  <2>4. Makes(q, p.name) /\ RequestOK(q) /\ Shows(q)
    BY <1>4, <2>2, Posting DEF Bare
  <2> HIDE DEF b
  <2>5. RequestOK(a)
    BY <1>4, <2>2, Staying
  <2> HIDE DEF q, a, second
  <2>6. CreateOK(k, <<q>>, p) /\ CreateOK(k, <<q, a>>, p)
    BY <1>4, <2>4, <2>5, OnePost, TwoPosts
  <2> QED
    BY <2>1, <2>3, Appended, <2>6
<1>5. CASE k = "idp_user"
  <2> DEFINE c == [plain |-> [members |-> {}, secret |-> p.secret]]
             q == Asks("post", p.name, c)
  <2>1. Creates(k, p) = <<q>>
    BY <1>5 DEF Creates, IdpUserCreate
  <2>2. NameKept(c)
    BY DEF NameKept, PlainOf
  <2> HIDE DEF c
  <2>3. Makes(q, p.name) /\ RequestOK(q) /\ Shows(q)
    BY <1>5, <2>2, Posting
  <2> HIDE DEF q
  <2> QED
    BY <1>5, <2>1, <2>3, OnePost
<1>6. CASE k = "owner"
  <2> DEFINE q == Asks("put", p.name, [plain |-> [content |-> p.content]])
  <2>1. RequestOK(q) /\ q.verb = "put"
    BY <1>6, Staying DEF NameKept, PlainOf
  <2>2. Creates(k, p) = <<q>>
    BY <1>6 DEF Creates, OwnerCreate
  <2> HIDE DEF q
  <2> QED
    BY <1>6, <2>2, <2>1, ListOfOne DEF CreateOK, Shows
<1>7. CASE k \in {"statistics", "partition_statistics"}
  BY <1>7, Listed1 DEF Creates, StatisticsCreate, PartitionStatisticsCreate, CreateOK
<1> QED
  BY <1>1, <1>2, <1>3, <1>4, <1>5, <1>6, <1>7 DEF AllKinds

\* The writes that follow the list of statistics.
LEMMA DroppedNames ==
  ASSUME NEW n \in Names \cup {Unknown}, NEW x
  PROVE  LET r == Asks("put", n, [drop |-> x])
         IN DropNames(n, x) \in {<<>>, <<r>>} /\ RequestOK(r) /\ r.verb = "put"
<1> DEFINE c == [drop |-> x]
           r == Asks("put", n, c)
<1>1. NameKept(c)
  BY DEF NameKept, PlainOf, NoMap
<1> HIDE DEF c
<1> QED
  BY <1>1, Staying DEF c, DropNames

\* Statistics are written by one request, or by none.
LEMMA WrittenNames ==
  ASSUME NEW n \in Names \cup {Unknown}, NEW x
  PROVE  LET r == Asks("put", n, [set |-> x])
         IN Write(n, x) \in {<<>>, <<r>>} /\ RequestOK(r) /\ r.verb = "put"
<1> DEFINE c == [set |-> x]
           r == Asks("put", n, c)
<1>1. NameKept(c)
  BY DEF NameKept, PlainOf, NoMap
<1> HIDE DEF c
<1> QED
  BY <1>1, Staying DEF c, Write

\* Statistics are listed, written and dropped, and never made.
LEMMA ListedRequests ==
  ASSUME NEW k, NEW v, NEW p, p.name \in Names \cup {Unknown}, NEW reserved
  PROVE  /\ ListOK(Listed(k, v, p, reserved))
         /\ \A i \in DOMAIN Listed(k, v, p, reserved) : Listed(k, v, p, reserved)[i].verb # "post"
<1>1. PICK x, y : Listed(k, v, p, reserved) = Write(p.name, x) \o DropNames(p.name, y)
  BY DEF Listed, StatisticsWrites, PartitionStatisticsWrites
<1> DEFINE a == Asks("put", p.name, [set |-> x])
           b == Asks("put", p.name, [drop |-> y])
<1>2. Write(p.name, x) \in {<<>>, <<a>>} /\ RequestOK(a) /\ a.verb = "put"
  BY WrittenNames
<1>3. DropNames(p.name, y) \in {<<>>, <<b>>} /\ RequestOK(b) /\ b.verb = "put"
  BY DroppedNames
<1> HIDE DEF a, b
<1>4. Write(p.name, x) \o DropNames(p.name, y) \in {<<>>, <<a>>, <<b>>, <<a, b>>}
  BY <1>2, <1>3, Appended
<1>5. ListOK(<<>>) /\ ListOK(<<a>>) /\ ListOK(<<b>>) /\ ListOK(<<a, b>>)
  BY <1>2, <1>3, ShortListsOK
<1>6. \A l \in {<<>>, <<a>>, <<b>>, <<a, b>>} : \A i \in DOMAIN l : l[i].verb # "post"
  BY <1>2, <1>3
<1> QED
  BY <1>1, <1>4, <1>5, <1>6

\* A request that takes the object away, and one that prepares it.
Takes(q, n) == q.target = n /\ NoRename(q) /\ q.verb \in {"patch", "delete", "force"}
Removes(q) == q.verb \in {"delete", "force"}

\* What is asked of the requests of a delete of what is in the state s.
DeleteOK(k, l, s) ==
  /\ ListOK(l)
  /\ k \in Attached => \A i \in DOMAIN l : l[i].verb # "post"
  /\ k \notin Attached => /\ \A i \in DOMAIN l : Takes(l[i], s.name)
                          /\ \E i \in DOMAIN l : Removes(l[i])

\* A request that drops its object is good.
LEMMA Removal ==
  ASSUME NEW n \in Names, NEW v \in {"delete", "force"}, NEW u, Listing(u), Undoes(u)
  PROVE  LET q == AsksOrElse(v, n, Nothing, u)
         IN Takes(q, n) /\ Removes(q) /\ RequestOK(q)
<1> DEFINE q == AsksOrElse(v, n, Nothing, u)
<1>1. q.verb = v /\ q.target = n /\ q.undo = u /\ q.changes.plain = NoMap
  BY Asked, NothingPlain
<1> HIDE DEF q
<1> QED
  BY <1>1 DEF q, Takes, Removes, RequestOK, NoRename, NoMap

\* A Delete of one request is good.
LEMMA OneRemoval ==
  ASSUME NEW k, NEW s, NEW q, Takes(q, s.name), Removes(q), RequestOK(q)
  PROVE  DeleteOK(k, <<q>>, s)
  BY ListOfOne DEF DeleteOK, Takes

\* The requests of a Delete, kind by kind, are good.
LEMMA DeleteRequests ==
  ASSUME NEW k \in AllKinds, NEW s, s.name \in Names
  PROVE  DeleteOK(k, Deletes(k, s), s)
<1> USE DEF Attached, StatisticsKinds
<1>1. CASE k \in AllKinds \ {"catalog", "owner", "statistics", "partition_statistics"}
  <2> DEFINE q == Asks("delete", s.name, Nothing)
  <2>1. Deletes(k, s) = <<q>>
    BY <1>1 DEF AllKinds, Deletes, SchemaDelete, TopicDelete, ModelDelete, FilesetDelete,
         TagDelete, PolicyDelete, ViewDelete, FunctionDelete, TableDelete, JobTemplateDelete,
         PartitionDelete, UserDelete, GroupDelete, RoleDelete, IdpUserDelete, IdpGroupDelete,
         Drop
  <2>2. Takes(q, s.name) /\ Removes(q) /\ RequestOK(q)
    BY NothingUndoes, Removal DEF Asks
  <2> HIDE DEF q
  <2> QED
    BY <2>1, <2>2, OneRemoval
<1>2. CASE k = "catalog"
  <2> DEFINE e == Asks("patch", s.name, [plain |-> [flag |-> TRUE]])
             d == Asks("patch", s.name, [plain |-> [flag |-> FALSE]])
             undo == IF s.flag THEN <<e>> ELSE <<>>
             q == AsksOrElse("delete", s.name, Nothing, undo)
             f == AsksOrElse("force", s.name, Nothing, <<>>)
  <2>1. Deletes(k, s) = IF s.force THEN <<f>> ELSE <<d>> \o <<q>>
    BY <1>2 DEF Deletes, CatalogDelete, Enable, Asks
  <2>2. Stays(e, s.name) /\ e.undo = <<>> /\ e.verb = "patch"
    BY Following
  <2>3. Stays(d, s.name) /\ RequestOK(d) /\ d.verb = "patch"
    BY Following
  <2>4. undo \in {<<e>>, <<>>}
    OBVIOUS
  <2> HIDE DEF e, d, undo
  <2>5. Undoes(<<e>>)
    BY <2>2 DEF Undoes, Stays
  <2>6. Listing(undo) /\ Undoes(undo)
    BY <2>4, <2>5, NothingUndoes, ShortLists
  <2>7. Takes(q, s.name) /\ Removes(q) /\ RequestOK(q)
    BY <2>6, Removal
  <2>8. Takes(f, s.name) /\ Removes(f) /\ RequestOK(f)
    BY NothingUndoes, Removal
  <2> HIDE DEF q, f
  <2>9. DeleteOK(k, <<d, q>>, s)
    <3>1. (\A i \in DOMAIN <<d, q>> : Takes(<<d, q>>[i], s.name))
          /\ \E i \in DOMAIN <<d, q>> : Removes(<<d, q>>[i])
      BY <2>7, <2>3 DEF Stays, Takes
    <3> QED
      BY <1>2, <2>3, <2>7, ShortListsOK, <3>1 DEF DeleteOK
  <2> QED
    BY <2>1, <2>8, OneRemoval, <2>9, Appended
<1>3. CASE k = "owner"
  <2>1. ListOK(<<>>)
    BY ShortListsOK
  <2> QED
    BY <1>3, <2>1 DEF Deletes, OwnerDelete, DeleteOK
<1>4. CASE k \in {"statistics", "partition_statistics"}
  <2> DEFINE x == DOMAIN s.props
             r == Asks("put", s.name, [drop |-> x])
  <2>1. Deletes(k, s) = DropNames(s.name, x)
    BY <1>4 DEF Deletes, StatisticsDelete, PartitionStatisticsDelete
  <2>2. DropNames(s.name, x) \in {<<>>, <<r>>} /\ RequestOK(r) /\ r.verb = "put"
    BY DroppedNames
  <2> HIDE DEF x, r
  <2>3. \A l \in {<<>>, <<r>>} : \A i \in DOMAIN l : l[i].verb # "post"
    BY <2>2
  <2> QED
    BY <1>4, <2>1, <2>2, ShortListsOK, <2>3 DEF DeleteOK
<1> QED
  BY <1>1, <1>2, <1>3, <1>4 DEF AllKinds

-----------------------------------------------------------------------------
(* What is planned and what is written.                                    *)

\* Objects, plans and states are functions on the attributes; Null, which stands for
\* their absence, is none.
Record(f) == f = [a \in DOMAIN f |-> f[a]]
NullIsNoRecord == ~Record(Null)

\* What shapes states and plans alike: r has the attributes of m.
Shaped(r, m) == Record(r) /\ DOMAIN r = DOMAIN m

\* Every kind has a name.
LEMMA NamesAreAttributes ==
  ASSUME NEW k \in AllKinds
  PROVE  "name" \in SchemaOf(k).attrs
  BY DEF AllKinds, SchemaOf, CatalogSchema, SchemaSchema, TopicSchema, ModelSchema,
     FilesetSchema, TagSchema, PolicySchema, ViewSchema, DerivedViewSchema, FunctionSchema, TableSchema,
     JobTemplateSchema, PartitionSchema, UserSchema, GroupSchema, RoleSchema, OwnerSchema,
     IdpUserSchema, IdpGroupSchema, StatisticsSchema, PartitionStatisticsSchema

\* A refresh keeps the attributes and shows the name of the object.
LEMMA RefreshedStates ==
  ASSUME NEW k \in AllKinds, NEW v, v # Null, NEW m, "name" \in DOMAIN m, NEW managed
  PROVE  LET r == Refreshed(k, v, m, managed)
         IN Shaped(r, m) /\ r.name = IF k = "owner" THEN m.name ELSE v.name
<1> USE DEF Refreshed, IfThere, Record, Shaped
<1>1. CASE k = "catalog"
  <2> DEFINE c == CatalogState(v, m, managed)
  <2>1. Refreshed(k, v, m, managed) = c
    BY <1>1 DEF CatalogRead
  <2>2. Record(c) /\ DOMAIN c = DOMAIN m /\ c.name = v.name
    BY DEF CatalogState
  <2> HIDE DEF c
  <2> QED
    BY <1>1, <2>1, <2>2
<1>2. CASE k = "schema"
  BY <1>2 DEF SchemaRead, SchemaState
<1>3. CASE k = "topic"
  BY <1>3 DEF TopicRead, TopicState
<1>4. CASE k = "model"
  BY <1>4 DEF ModelRead, ModelState
<1>5. CASE k = "fileset"
  BY <1>5 DEF FilesetRead, FilesetState
<1>6. CASE k = "tag"
  BY <1>6 DEF TagRead, TagState
<1>7. CASE k = "policy"
  BY <1>7 DEF PolicyRead, PolicyState
<1>8. CASE k \in {"view", "derived_view"}
  BY <1>8 DEF ViewRead, ViewState
<1>9. CASE k = "function"
  BY <1>9 DEF FunctionRead, FunctionState
<1>10. CASE k = "table"
  BY <1>10 DEF TableRead, TableState
<1>11. CASE k = "job_template"
  BY <1>11 DEF JobTemplateRead, JobTemplateState
<1>12. CASE k \in {"partition", "identity"}
  BY <1>12 DEF PartitionRead, PartitionState
<1>13. CASE k = "user"
  BY <1>13 DEF UserRead, UserState
<1>14. CASE k = "group"
  BY <1>14 DEF GroupRead, GroupState
<1>15. CASE k = "role"
  BY <1>15 DEF RoleRead, RoleState
<1>16. CASE k = "owner"
  BY <1>16 DEF OwnerRead, OwnerState
<1>17. CASE k = "idp_user"
  BY <1>17 DEF IdpUserRead, IdpUserState
<1>18. CASE k = "idp_group"
  BY <1>18 DEF IdpGroupRead, IdpGroupState
<1>19. CASE k = "statistics"
  BY <1>19 DEF StatisticsRead
<1>20. CASE k = "partition_statistics"
  BY <1>20 DEF PartitionStatisticsRead
<1> QED
  BY <1>1, <1>2, <1>3, <1>4, <1>5, <1>6, <1>7, <1>8, <1>9, <1>10, <1>11, <1>12, <1>13,
     <1>14, <1>15, <1>16, <1>17, <1>18, <1>19, <1>20 DEF AllKinds

\* What is not there is not in state after a refresh.
LEMMA GoneFromState ==
  ASSUME NEW k \in AllKinds, NEW m, NEW managed
  PROVE  Refreshed(k, Null, m, managed) = Null
  BY DEF AllKinds, Refreshed, IfThere, CatalogRead, SchemaRead, TopicRead, ModelRead,
     FilesetRead, TagRead, PolicyRead, ViewRead, FunctionRead, TableRead, JobTemplateRead,
     PartitionRead, UserRead, GroupRead, RoleRead, OwnerRead, IdpUserRead, IdpGroupRead,
     StatisticsRead, PartitionStatisticsRead

\* After an apply the state has the name of the plan or that of the answer; that of an
\* identity partition is the one the catalog has given.
LEMMA AppliedStates ==
  ASSUME NEW k \in AllKinds, NEW v, v # Null, NEW p, "name" \in DOMAIN p, Record(p), NEW managed
  PROVE  LET r == Applied(k, v, p, managed)
         IN /\ Shaped(r, p) /\ r.name \in {v.name, p.name}
            /\ k = "identity" => r.name = v.name
<1> USE DEF Applied, Shaped
<1>1. CASE k = "schema"
  BY <1>1 DEF SchemaState
<1>2. CASE k = "model"
  BY <1>2 DEF ModelState, Record
<1>3. CASE k = "fileset"
  BY <1>3 DEF FilesetState, Record
<1>4. CASE k = "policy"
  BY <1>4 DEF PolicyApplied, PolicyState, Record
<1>5. CASE k \in {"view", "derived_view"}
  BY <1>5 DEF ViewState, Record
<1>6. CASE k = "function"
  BY <1>6 DEF FunctionState, Record
<1>7. CASE k = "table"
  BY <1>7 DEF TableState, Record
<1>8. CASE k \in {"owner", "statistics", "partition_statistics"}
  BY <1>8
<1>9. CASE k \notin {"schema", "model", "fileset", "policy", "view", "derived_view", "function", "table", "owner",
                     "statistics", "partition_statistics"}
  <2> DEFINE r == Refreshed(k, v, p, managed)
  <2>1. Applied(k, v, p, managed) = r
    BY <1>9
  <2>2. Shaped(r, p) /\ r.name = IF k = "owner" THEN p.name ELSE v.name
    BY RefreshedStates
  <2> HIDE DEF r
  <2> QED
    BY <1>9, <2>1, <2>2
<1> QED
  BY <1>1, <1>2, <1>3, <1>4, <1>5, <1>6, <1>7, <1>8, <1>9

\* An update without an answer.
LEMMA KeptStates ==
  ASSUME NEW k \in KeptKinds, NEW p, NEW s, "name" \in DOMAIN p, DOMAIN p = DOMAIN s,
         Record(p), p.name # Unknown
  PROVE  LET r == Kept(k, p, s)
         IN /\ Shaped(r, p)
            /\ r.name = p.name \/ (k \in {"idp_user", "idp_group"} /\ r.name = s.name)
<1> USE DEF Kept, Shaped, Record
<1>1. CASE k = "catalog"
  BY <1>1 DEF CatalogKept
<1>2. CASE k = "schema"
  BY <1>2
<1>3. CASE k = "fileset"
  BY <1>3 DEF FilesetKept, Previous
<1>4. CASE k = "policy"
  BY <1>4 DEF PolicyKept, Previous
<1>5. CASE k = "job_template"
  BY <1>5
<1>6. CASE k = "user"
  BY <1>6 DEF UserKept
<1>7. CASE k = "group"
  BY <1>7 DEF GroupKept
<1>8. CASE k = "idp_user"
  BY <1>8 DEF IdpUserKept
<1>9. CASE k = "idp_group"
  BY <1>9 DEF IdpGroupKept
<1> QED
  BY <1>1, <1>2, <1>3, <1>4, <1>5, <1>6, <1>7, <1>8, <1>9 DEF KeptKinds

\* What ModifyPlan changes of a plan.
LEMMA ModifiedPlans ==
  ASSUME NEW k, NEW p, "name" \in DOMAIN p, Record(p)
  PROVE  LET r == Modified(k, p)
         IN Shaped(r, p) /\ r.name = IF k = "identity" THEN Unknown ELSE p.name
<1> USE DEF Modified, Shaped, Record
<1>1. CASE k = "function"
  BY <1>1
<1>2. CASE k = "identity"
  BY <1>2 DEF IdentityName
<1>3. CASE k = "table"
  BY <1>3 DEF CanonicalisePlan
<1>4. CASE k \notin {"function", "identity", "table"}
  BY <1>4
<1> QED
  BY <1>1, <1>2, <1>3, <1>4

\* A plan has the name that is configured; the catalog names an identity partition.
LEMMA Plans ==
  ASSUME NEW k \in AllKinds, NEW c, NEW s, k # "identity" => c.name # Null
  PROVE  \A p \in {PlanCreate(k, c), PlanUpdate(k, c, s)} :
           /\ Record(p) /\ DOMAIN p = SchemaOf(k).attrs
           /\ p.name = IF k = "identity" THEN Unknown ELSE c.name
<1> DEFINE attrs == SchemaOf(k).attrs
<1>1. "name" \in attrs
  BY NamesAreAttributes
<1>2. ASSUME NEW f, Record(f), DOMAIN f = attrs, k # "identity" => f.name = c.name
      PROVE  LET p == Modified(k, f)
             IN /\ Record(p) /\ DOMAIN p = attrs
                /\ p.name = IF k = "identity" THEN Unknown ELSE c.name
  <2> HIDE DEF attrs
  <2> QED
    BY <1>1, <1>2, ModifiedPlans DEF Shaped
<1>3. PICK f : /\ PlanCreate(k, c) = Modified(k, f) /\ Record(f) /\ DOMAIN f = attrs
               /\ k # "identity" => f.name = c.name
  <2> DEFINE f == [a \in SchemaOf(k).attrs |->
                     IF c[a] = Null /\ a \in SchemaOf(k).computed THEN Unknown
                     ELSE Fill(a, c[a], Unknown)]
  <2>1. PlanCreate(k, c) = Modified(k, f)
    BY DEF PlanCreate
  <2>2. Record(f) /\ DOMAIN f = attrs
    BY DEF Record
  <2>3. k # "identity" => f["name"] = c["name"]
    BY <1>1 DEF Fill
  <2> HIDE DEF f
  <2> QED
    BY <2>1, <2>2, <2>3
<1>4. PICK g : /\ PlanUpdate(k, c, s) = Modified(k, g) /\ Record(g) /\ DOMAIN g = attrs
               /\ k # "identity" => g.name = c.name
  <2> DEFINE sch == SchemaOf(k)
             same == SameAsState(k, c, s)
             kept(a) == same \/ (a \in sch.keep /\ s[a] # Null)
             g == [a \in sch.attrs |->
                     IF ~NotConfigured(k, c, a)
                     THEN Fill(a, c[a], IF a = "index" /\ same THEN IndexName(s) ELSE Unknown)
                     ELSE IF kept(a) THEN s[a] ELSE Unknown]
  <2>1. PlanUpdate(k, c, s) = Modified(k, g)
    BY DEF PlanUpdate
  <2>2. Record(g) /\ DOMAIN g = attrs
    BY DEF Record
  <2>3. k # "identity" => g["name"] = c["name"]
    BY <1>1 DEF Fill, NotConfigured
  <2> HIDE DEF g
  <2> QED
    BY <2>1, <2>2, <2>3
<1> HIDE DEF attrs
<1> QED
  BY <1>2, <1>3, <1>4 DEF attrs

\* What the server shows of an object is no Null and has its name.
LEMMA Views ==
  ASSUME NullIsNoRecord, NEW srv, NEW n
  PROVE  View(srv, n) # Null /\ View(srv, n).name = n
  BY DEF View, Overlay, Record, NullIsNoRecord

-----------------------------------------------------------------------------
(* What every state satisfies, beyond TypeOK.  Of the data:                *)

KindInv == kind \in Kinds
ConfigInv == config # Null => /\ DOMAIN config = Attrs
                              /\ config.name \in IF kind = "identity" THEN {Null} ELSE Names
StateOK(s) == s # Null => DOMAIN s = Attrs /\ s.name \in Names
ServerInv == /\ DOMAIN server \subseteq Names /\ known \subseteq Members
             /\ ours \in DOMAIN server \cup {Null}
DataInv == KindInv /\ ConfigInv /\ StateOK(state) /\ ServerInv

(* Of the handler: its plan has every attribute and a name, its requests are well    *)
(* formed, and when it writes state without an answer there is a way to.            *)
PcInv ==
  /\ pc \in {"idle", "create", "update", "delete", "undo"}
  /\ pc = "idle" => planned = Null /\ todo = <<>> /\ answer = Null
  /\ pc = "create" => state = Null
  /\ pc \in {"update", "delete"} => state # Null
  /\ clean => pc = "idle"
  /\ next => pc = "delete" /\ config # Null
PlannedInv ==
  /\ pc # "idle" => planned.name \in Names \cup {Unknown}
  /\ pc \in {"create", "update"} =>
       /\ Record(planned) /\ DOMAIN planned = Attrs
       /\ planned.name \in IF kind = "identity" THEN {Unknown} ELSE Names
       /\ pc = "update" => \/ kind \in RenamedKinds \cup {"identity"}
                           \/ planned.name = state.name
TodoInv ==
  /\ ListOK(todo)
  /\ pc = "undo" => Undoes(todo)
  /\ kind \in Attached => \A i \in DOMAIN todo : todo[i].verb # "post"
AnswerInv ==
  /\ answer # Null => answer.name \in Names
  /\ pc \in {"create", "update"} =>
       \/ answer # Null
       \/ pc = "update" /\ kind \in KeptKinds
       \/ \E i \in DOMAIN todo : Shows(todo[i])
HandlerInv == PcInv /\ PlannedInv /\ TodoInv /\ AnswerInv

TypeInv == DataInv /\ HandlerInv

\* The inductive invariant gives the one the runs check.
LEMMA TypeInvImpliesTypeOK ==
  ASSUME TypeInv
  PROVE  TypeOK
  BY DEF TypeInv, TypeOK, DataInv, HandlerInv, KindInv, ConfigInv, StateOK, ServerInv, PcInv

\* The kind is one of those the schemas are given for.
LEMMA KindKnown ==
  ASSUME KindInv
  PROVE  kind \in AllKinds /\ "name" \in Attrs
  BY KindAssumption, NamesAreAttributes DEF KindInv, AllKinds, Attrs

\* The empty list is good.
LEMMA NoRequests ==
  ListOK(<<>>) /\ Undoes(<<>>) /\ \A i \in DOMAIN <<>> : <<>>[i].verb # "post"
<1>1. \A i \in DOMAIN <<>> : <<>>[i].verb # "post"
  OBVIOUS
<1> QED
  BY <1>1, NothingUndoes, ShortListsOK

\* A handler that has stopped.
LEMMA Stopped ==
  ASSUME Stop
  PROVE  HandlerInv'
  BY NoRequests DEF Stop, HandlerInv, PcInv, PlannedInv, TodoInv, AnswerInv

\* What the three operations begin with.
LEMMA CreatePlans ==
  ASSUME KindInv, ConfigInv, config # Null
  PROVE  LET p == PlanCreate(kind, config)
         IN /\ Record(p) /\ DOMAIN p = Attrs
            /\ p.name \in IF kind = "identity" THEN {Unknown} ELSE Names
            /\ CreateOK(kind, Creates(kind, p), p)
<1> DEFINE p == PlanCreate(kind, config)
<1>1. kind \in AllKinds /\ (kind # "identity" => config.name \in Names)
  BY KindKnown DEF ConfigInv
<1> HIDE DEF p
<1> QED
  BY <1>1, NameAssumption, Plans, CreateRequests DEF p, Attrs

\* A Create that begins keeps the invariant.
LEMMA CreateStarted ==
  ASSUME KindInv, ConfigInv, UNCHANGED <<kind, config>>, config # Null, state' = Null,
         StartCreate(PlanCreate(kind, config))
  PROVE  HandlerInv'
<1> DEFINE p == PlanCreate(kind, config)
           l == Creates(kind, p)
<1>1. CASE Accepted(kind, p, config, Null)
  <2>1. /\ Record(p) /\ DOMAIN p = Attrs
        /\ p.name \in IF kind = "identity" THEN {Unknown} ELSE Names
        /\ CreateOK(kind, l, p)
    BY CreatePlans
  <2>2. Start("create", p, l, FALSE)
    BY <1>1 DEF StartCreate
  <2> HIDE DEF p, l
  <2>3. TodoInv' /\ AnswerInv'
    BY <2>1, <2>2 DEF Start, TodoInv, AnswerInv, CreateOK
  <2> QED
    BY <2>2, <2>1, <2>3 DEF HandlerInv, Start, PlannedInv, Attrs, PcInv
<1>2. CASE ~Accepted(kind, p, config, Null)
  BY <1>2, Stopped DEF StartCreate
<1> QED
  BY <1>1, <1>2

\* A Delete that begins keeps the invariant.
LEMMA DeleteStarted ==
  ASSUME KindInv, UNCHANGED <<kind, config>>, NEW s, s # Null, StateOK(s), state' = s,
         NEW again \in BOOLEAN, again => config # Null,
         Start("delete", s, Deletes(kind, s), again)
  PROVE  HandlerInv'
<1> DEFINE l == Deletes(kind, s)
<1> HIDE DEF l
<1>1. Start("delete", s, l, again)
  BY DEF l
<1>2. TodoInv' /\ AnswerInv'
  BY KindKnown, DeleteRequests, <1>1 DEF Start, TodoInv, AnswerInv, DeleteOK, StateOK
<1> QED
  BY <1>1, <1>2 DEF HandlerInv, Start, PcInv, PlannedInv, StateOK

\* What a plan that replaces nothing leaves as it is.
LEMMA NotReplaced ==
  ASSUME NEW k \in AllKinds, NEW c, NEW p, NEW s, ~Replaces(k, c, p, s)
  PROVE  /\ k \in RenamedKinds \cup {"identity"} \/ p.name = s.name
         /\ k = "table" => p.content = s.content /\ ~TableReplaced(p, s)
<1>1. k \notin RenamedKinds => "name" \in SchemaOf(k).replace
  BY DEF AllKinds, RenamedKinds, SchemaOf, SchemaSchema, TopicSchema,
     FunctionSchema, PartitionSchema, UserSchema, GroupSchema, RoleSchema, OwnerSchema,
     IdpUserSchema, IdpGroupSchema, StatisticsSchema, PartitionStatisticsSchema
<1>2. \A a \in SchemaOf(k).replace : p[a] = s[a] \/ (k = "identity" /\ a = "name")
  BY DEF Replaces
<1> QED
  BY <1>1, <1>2 DEF Replaces, AllKinds, SchemaOf, TableSchema

\* The plan of an update and its requests rename only what can be renamed.
LEMMA UpdatePlans ==
  ASSUME KindInv, ConfigInv, config # Null, NEW s, s # Null, StateOK(s),
         NEW p, p = PlanUpdate(kind, config, s), ~Replaces(kind, config, p, s)
  PROVE  /\ Record(p) /\ DOMAIN p = Attrs
         /\ p.name \in IF kind = "identity" THEN {Unknown} ELSE Names
         /\ kind \in RenamedKinds \cup {"identity"} \/ p.name = s.name
         /\ UpdateOK(kind, Updates(kind, p, s), s, p)
  BY KindKnown, NameAssumption, Plans, NotReplaced, UpdateRequests DEF ConfigInv, Attrs, StateOK

\* An Update that begins keeps the invariant.
LEMMA UpdateStarted ==
  ASSUME KindInv, ConfigInv, UNCHANGED <<kind, config>>, config # Null,
         NEW s, s # Null, StateOK(s), state' = s, NEW p, p = PlanUpdate(kind, config, s),
         ~Replaces(kind, config, p, s), Start("update", p, Updates(kind, p, s), FALSE)
  PROVE  HandlerInv'
<1> DEFINE l == Updates(kind, p, s)
<1>1. /\ Record(p) /\ DOMAIN p = Attrs
      /\ p.name \in IF kind = "identity" THEN {Unknown} ELSE Names
      /\ kind \in RenamedKinds \cup {"identity"} \/ p.name = s.name
      /\ UpdateOK(kind, l, s, p)
  BY UpdatePlans
<1>2. Start("update", p, l, FALSE)
  OBVIOUS
<1> HIDE DEF l
<1>3. TodoInv' /\ AnswerInv'
  BY <1>1, <1>2 DEF Start, TodoInv, AnswerInv, UpdateOK
<1> QED
  BY <1>2, <1>1, <1>3 DEF HandlerInv, Start, PlannedInv, Attrs, PcInv

-----------------------------------------------------------------------------
(* What a request does to the names of the server.                         *)

\* The name a request is addressed to, and the one it leaves its object with.
LEMMA NamesOfRequests ==
  ASSUME NEW q, RequestOK(q)
  PROVE  /\ NameGiven(q) \in Names /\ TargetOf(q) \in Names
         /\ q.target \in Names => NameGiven(q) = q.target
         /\ NoRename(q) => TargetOf(q) = NameGiven(q)
         /\ ~NoRename(q) => TargetOf(q) = q.changes.plain.name
  BY NameAssumption DEF NameGiven, RequestOK, TargetOf, NoRename

\* The names on the server after a request.
LEMMA NamesAfter ==
  ASSUME NEW q
  PROVE  /\ q.verb \in {"get", "list"} => After(q) = server
         /\ q.verb = "post" => DOMAIN After(q) = {NameGiven(q)} \cup DOMAIN server
         /\ q.verb \in {"delete", "force"} => DOMAIN After(q) = DOMAIN server \ {q.target}
         /\ q.verb \notin {"get", "list", "post", "delete", "force"} =>
              DOMAIN After(q) = {TargetOf(q)} \cup (DOMAIN server \ {q.target})
<1>1. \A f, g : DOMAIN Overlay(f, g) = DOMAIN f \cup DOMAIN g
  BY DEF Overlay
<1>2. \A f, ks : DOMAIN Only(f, ks) = ks \cap DOMAIN f
  BY DEF Only
<1>3. CASE q.verb \in {"get", "list"}
  BY <1>3 DEF After
<1>4. CASE q.verb = "post"
  <2> DEFINE f == [n \in {NameGiven(q)} |-> WithManaged(q.changes.plain)]
  <2>1. DOMAIN f = {NameGiven(q)}
    OBVIOUS
  <2> HIDE DEF f
  <2> QED
    BY <1>1, <1>4, <2>1 DEF After
<1>5. CASE q.verb \in {"delete", "force"}
  <2> DEFINE ks == DOMAIN server \ {q.target}
  <2> QED
    BY <1>5, <1>2 DEF After
<1>6. CASE q.verb \notin {"get", "list", "post", "delete", "force"}
  <2> DEFINE o == WithManaged(Changed(server[q.target],
                    [q.changes EXCEPT !.plain = Only(@, DOMAIN @ \ {"name"})]))
             f == [n \in {TargetOf(q)} |-> o]
             g == Only(server, DOMAIN server \ {q.target})
  <2>1. After(q) = Overlay(f, g)
    BY <1>6 DEF After
  <2>2. DOMAIN f = {TargetOf(q)}
    <3> HIDE DEF o
    <3> QED
      OBVIOUS
  <2>3. DOMAIN g = DOMAIN server \ {q.target}
    BY <1>2
  <2> HIDE DEF f, g
  <2> QED
    BY <1>1, <1>6, <2>1, <2>2, <2>3
<1> QED
  BY <1>3, <1>4, <1>5, <1>6

\* The server takes what is asked and stays well formed, and the provider's object is
\* the one it has followed.
LEMMA ServerAfter ==
  ASSUME NEW q, RequestOK(q), Possible(q), ServerInv, server' = After(q), ours' = OursAfter(q),
         known' = known
  PROVE  ServerInv'
<1> DEFINE t == TargetOf(q)
           g == NameGiven(q)
           a == After(q)
           o == OursAfter(q)
<1>1. g \in Names /\ t \in Names /\ (NoRename(q) => t = g) /\ (q.target \in Names => g = q.target)
  BY NamesOfRequests
<1>2. /\ q.verb \in {"get", "list"} => a = server
      /\ q.verb = "post" => DOMAIN a = {g} \cup DOMAIN server
      /\ q.verb \in {"delete", "force"} => DOMAIN a = DOMAIN server \ {q.target}
      /\ q.verb \notin {"get", "list", "post", "delete", "force"} =>
           DOMAIN a = {t} \cup (DOMAIN server \ {q.target})
  BY NamesAfter
<1>3. /\ q.verb = "post" => o = g
      /\ q.verb \in {"delete", "force"} => o = IF q.target = ours THEN Null ELSE ours
      /\ q.verb \in {"put", "patch"} => o = IF q.target = ours THEN t ELSE ours
      /\ q.verb \notin {"post", "delete", "force", "put", "patch"} => o = ours
  BY DEF OursAfter
<1> HIDE DEF t, g, a, o
<1>4. o \in DOMAIN a \cup {Null}
  BY <1>2, <1>3, <1>1 DEF ServerInv, Possible, Exists, RequestOK
<1> QED
  BY <1>1, <1>2, <1>4 DEF ServerInv, a, o

-----------------------------------------------------------------------------
(* Each action keeps the invariant.                                        *)

\* The configuration it starts with is well typed.
LEMMA FirstConfigs ==
  ASSUME KindInv
  PROVE  /\ DOMAIN FirstConfig = Attrs
         /\ FirstConfig.name \in IF kind = "identity" THEN {Null} ELSE Names
  BY NameAssumption, KindKnown DEF FirstName, FirstConfig, FirstValue

\* The invariant holds at first.
LEMMA InitTypeInv ==
  ASSUME Init
  PROVE  TypeInv
<1>1. ServerInv
  BY NameAssumption DEF FirstName, InitialServer, NoMap, Init, ServerInv
<1>2. HandlerInv
  BY NoRequests DEF Init, HandlerInv, PcInv, PlannedInv, TodoInv, AnswerInv
<1> QED
  BY FirstConfigs, <1>1, <1>2 DEF TypeInv, DataInv, Init, ConfigInv, KindInv, StateOK

\* A refresh leaves the object in state where it was, or nothing.
LEMMA ReadStates ==
  ASSUME NullIsNoRecord, DataInv
  PROVE  /\ StateOK(ReadState)
         /\ ReadState # Null => state # Null /\ ReadState.name = state.name
         /\ state # Null /\ Exists(state.name) => ReadState # Null
<1>1. CASE state = Null
  BY <1>1 DEF ReadState, StateOK
<1>2. CASE state # Null /\ Exists(state.name)
  <2> DEFINE v == View(server, state.name)
             r == Refreshed(kind, v, state, {ManagedKey})
  <2>1. v # Null /\ v.name = state.name
    BY Views
  <2>2. ReadState = r
    BY <1>2 DEF ReadState
  <2>3. "name" \in DOMAIN state /\ DOMAIN state = Attrs /\ kind \in AllKinds /\ state.name \in Names
    BY <1>2, KindKnown DEF DataInv, StateOK
  <2> HIDE DEF v
  <2>4. Shaped(r, state) /\ r.name = state.name
    BY <2>1, <2>3, RefreshedStates
  <2> HIDE DEF r
  <2> QED
    BY <1>2, <2>2, <2>3, <2>4 DEF Shaped, StateOK, NullIsNoRecord
<1>3. CASE state # Null /\ ~Exists(state.name)
  BY <1>3, KindKnown, GoneFromState DEF ReadState, DataInv, StateOK
<1> QED
  BY <1>1, <1>2, <1>3

\* What Terraform decides, one case at a time.
LEMMA Decisions ==
  ASSUME NEW s, Decide(s)
  PROVE  \/ Stop
         \/ s = Null /\ config # Null /\ StartCreate(PlanCreate(kind, config))
         \/ /\ s # Null
            /\ \E again \in BOOLEAN : /\ again => config # Null
                                      /\ Start("delete", s, Deletes(kind, s), again)
         \/ /\ s # Null /\ config # Null
            /\ \E p : /\ p = PlanUpdate(kind, config, s) /\ ~Replaces(kind, config, p, s)
                      /\ Start("update", p, Updates(kind, p, s), FALSE)
<1>1. CASE s = Null /\ config = Null
  BY <1>1 DEF Decide
<1>2. CASE s = Null /\ config # Null
  BY <1>2 DEF Decide
<1>3. CASE s # Null /\ config = Null
  BY <1>3 DEF Decide
<1>4. CASE s # Null /\ config # Null
  <2> DEFINE p == PlanUpdate(kind, config, s)
             accepted == Accepted(kind, p, config, s)
             replaced == Replaces(kind, config, p, s)
             again == Accepted(kind, PlanCreate(kind, config), config, Null)
             quiet == p = s /\ SameAsState(kind, config, s)
  <2> HIDE DEF p, accepted, again, quiet
  <2> QED
    BY <1>4 DEF p, Decide
<1> QED
  BY <1>1, <1>2, <1>3, <1>4

\* The refresh and the plan keep it.
LEMMA ReadAndPlanTypeInv ==
  ASSUME NullIsNoRecord, TypeInv, ReadAndPlan
  PROVE  TypeInv'
<1> DEFINE s == ReadState
<1>1. KindInv /\ ConfigInv /\ StateOK(s)
  BY ReadStates DEF TypeInv, DataInv
<1>2. Decide(s) /\ state' = s /\ UNCHANGED <<kind, config, server, known, ours>>
  BY DEF ReadAndPlan, bounds
<1> HIDE DEF s
<1>3. DataInv'
  BY <1>1, <1>2 DEF KindInv, ConfigInv, Attrs, StateOK, TypeInv, DataInv, ServerInv
<1>4. HandlerInv'
  BY Stopped, <1>1, <1>2, CreateStarted, DeleteStarted, UpdateStarted, Decisions
<1> QED
  BY <1>3, <1>4 DEF TypeInv

\* A handler that fails stops, or goes on with what undoes the request that failed.
LEMMA FailedHandler ==
  ASSUME HandlerInv, pc # "idle", NEW q, RequestOK(q), FailAfter(q), UNCHANGED <<kind, config>>
  PROVE  HandlerInv'
  BY Stopped, NothingUndoes DEF FailAfter, Fail, HandlerInv, PcInv, PlannedInv, AnswerInv,
                                RequestOK, Undoes, TodoInv, ListOK

\* A handler that fails leaves the state as it was.
LEMMA FailedState ==
  ASSUME NEW q, FailAfter(q)
  PROVE  UNCHANGED state
  BY DEF FailAfter, Fail

\* A refused request: the delete of what is gone is done, what an update finds gone is
\* taken out of state, and everything else fails.
LEMMA RefusedHandler ==
  ASSUME HandlerInv, pc # "idle", NEW q, RequestOK(q), Refused(q), UNCHANGED <<kind, config>>
  PROVE  HandlerInv' /\ (UNCHANGED state \/ state' = Null)
  BY NoRequests, Stopped, FailedHandler, FailedState DEF Refused, CountsAsGone, GoneOnUpdate,
                                                         HandlerInv, PcInv, PlannedInv, Attrs,
                                                         TodoInv, AnswerInv

\* A request that was answered.
LEMMA AnsweredHandler ==
  ASSUME NullIsNoRecord, KindInv, HandlerInv, pc # "idle", todo # <<>>, NEW q, q = Head(todo),
         todo' = IF q.verb # "list" THEN Tail(todo)
                 ELSE Listed(kind, server[q.target].props, planned, {ManagedKey}),
         answer' = AnswerTo(q),
         UNCHANGED <<kind, config, state, pc, planned, next, clean>>
  PROVE  HandlerInv'
<1>1. ListOK(todo) /\ PcInv /\ PlannedInv /\ TodoInv /\ AnswerInv
  BY DEF HandlerInv, TodoInv
<1>2. /\ Listing(Tail(todo)) /\ 1 \in DOMAIN todo /\ q = todo[1]
      /\ \A i \in DOMAIN Tail(todo) : i + 1 \in DOMAIN todo /\ Tail(todo)[i] = todo[i + 1]
      /\ \A i \in DOMAIN todo : i \in Nat /\ (i = 1 \/ (i - 1 \in DOMAIN Tail(todo) /\ i > 1))
  <2> HIDE DEF Listing
  <2> QED
    BY <1>1, RestOfList DEF ListOK
<1>3. RequestOK(q)
  BY <1>1, <1>2 DEF ListOK
<1>4. PcInv' /\ PlannedInv'
  BY <1>1 DEF PcInv, PlannedInv, Attrs
<1>5. CASE q.verb = "list"
  <2> DEFINE l == Listed(kind, server[q.target].props, planned, {ManagedKey})
  <2>1. ListOK(l) /\ \A i \in DOMAIN l : l[i].verb # "post"
    BY <1>1, ListedRequests DEF PlannedInv
  <2>2. todo' = l
    BY <1>5
  <2> HIDE DEF l
  <2>3. TodoInv'
    BY <2>1, <2>2, <1>1, <1>2, <1>5 DEF TodoInv, Undoes
  <2>4. answer' # Null /\ answer'.name \in Names
    BY <1>5, <1>3, Views, NamesOfRequests DEF AnswerTo
  <2> QED
    BY <1>4, <2>3, <2>4 DEF HandlerInv, AnswerInv
<1>6. CASE q.verb # "list"
  <2>1. todo' = Tail(todo)
    BY <1>6
  <2>2. TodoInv'
    <3>1. \A i \in DOMAIN Tail(todo) : \E j \in DOMAIN todo : Tail(todo)[i] = todo[j]
      BY <1>2
    <3>2. ListOK(Tail(todo))
      BY <1>1, <1>2, <3>1 DEF ListOK
    <3>3. pc = "undo" => Undoes(Tail(todo))
      BY <1>1, <3>1 DEF TodoInv, Undoes
    <3> QED
      BY <2>1, <3>2, <3>3, <1>1, <3>1 DEF TodoInv
  <2>3. CASE Shows(q)
    BY <2>3, <1>3, Views, NamesOfRequests, <1>4, <2>2 DEF AnswerTo, Shows, HandlerInv, AnswerInv
  <2>4. CASE ~Shows(q)
    BY <2>4, <1>2, <1>1, <2>1, <1>4, <2>2 DEF AnswerTo, Shows, AnswerInv, HandlerInv
  <2> QED
    BY <2>3, <2>4
<1> QED
  BY <1>5, <1>6

\* A request keeps the invariant, whatever becomes of it.
LEMMA CallTypeInv ==
  ASSUME NullIsNoRecord, TypeInv, Call
  PROVE  TypeInv'
<1> DEFINE q == Head(todo)
<1>1. pc # "idle" /\ todo # <<>> /\ UNCHANGED <<kind, config, known>>
  BY DEF Call
<1>2. RequestOK(q)
  BY <1>1, RestOfList DEF TypeInv, HandlerInv, TodoInv, ListOK
<1>3. DataInv /\ KindInv /\ ConfigInv /\ StateOK(state) /\ ServerInv /\ HandlerInv
  BY DEF TypeInv, DataInv
<1>4. KindInv' /\ ConfigInv'
  BY <1>1, <1>3 DEF KindInv, ConfigInv, Attrs
<1>5. UNCHANGED state \/ state' = Null => StateOK(state)'
  BY <1>1, <1>3 DEF StateOK, Attrs
<1>6. UNCHANGED <<server, ours>> => ServerInv'
  BY <1>1, <1>3 DEF ServerInv
<1>7. Possible(q) /\ server' = After(q) /\ ours' = OursAfter(q) => ServerInv'
  BY <1>1, <1>2, <1>3, ServerAfter
<1>8. CASE /\ Possible(q) /\ server' = After(q) /\ ours' = OursAfter(q)
           /\ todo' = IF q.verb # "list" THEN Tail(todo)
                      ELSE Listed(kind, server[q.target].props, planned, {ManagedKey})
           /\ answer' = AnswerTo(q)
           /\ UNCHANGED <<state, pc, planned, next, clean>>
  BY <1>1, <1>3, <1>8, AnsweredHandler, <1>4, <1>5, <1>7 DEF TypeInv, DataInv
<1>9. CASE Refused(q) /\ UNCHANGED <<server, ours>>
  <2>1. HandlerInv' /\ (UNCHANGED state \/ state' = Null)
    BY <1>1, <1>2, <1>3, <1>9, RefusedHandler
  <2> QED
    BY <1>4, <1>5, <1>6, <1>9, <2>1 DEF TypeInv, DataInv
<1>10. CASE /\ FailAfter(q)
            /\ \/ UNCHANGED <<server, ours>>
               \/ Possible(q) /\ server' = After(q) /\ ours' = OursAfter(q)
  <2>1. HandlerInv' /\ UNCHANGED state
    BY <1>1, <1>2, <1>3, <1>10, FailedHandler, FailedState
  <2> QED
    BY <1>4, <1>5, <1>6, <1>7, <1>10, <2>1 DEF TypeInv, DataInv
<1> QED
  BY <1>8, <1>9, <1>10 DEF Call

\* What the handler writes is a state again.
LEMMA WrittenStates ==
  ASSUME NullIsNoRecord, TypeInv, pc \in {"create", "update"}, todo = <<>>
  PROVE  /\ Written # Null /\ StateOK(Written)
         /\ answer # Null => /\ Written.name \in {answer.name, planned.name}
                             /\ kind = "identity" => Written.name = answer.name
         /\ answer = Null => /\ pc = "update" /\ kind \in KeptKinds
                             /\ Written.name = planned.name
                                  \/ (kind \in {"idp_user", "idp_group"} /\ Written.name = state.name)
<1>1. /\ kind \in AllKinds /\ "name" \in Attrs /\ Record(planned) /\ DOMAIN planned = Attrs
      /\ planned.name \in IF kind = "identity" THEN {Unknown} ELSE Names
      /\ StateOK(state)
  BY KindKnown DEF TypeInv, DataInv, HandlerInv, PlannedInv
<1>2. CASE answer # Null
  <2> DEFINE r == Applied(kind, answer, planned, {ManagedKey})
  <2>1. /\ Shaped(r, planned) /\ r.name \in {answer.name, planned.name}
        /\ kind = "identity" => r.name = answer.name
    BY <1>1, <1>2, AppliedStates
  <2>2. Written = r
    BY <1>2 DEF Written
  <2> HIDE DEF r
  <2> QED
    BY <1>2, <2>1, <2>2, <1>1 DEF Shaped, NullIsNoRecord, StateOK, TypeInv, HandlerInv, AnswerInv
<1>3. CASE answer = Null
  <2> DEFINE r == Kept(kind, planned, state)
  <2>1. pc = "update" /\ kind \in KeptKinds /\ state # Null
    BY <1>3 DEF TypeInv, HandlerInv, AnswerInv, PcInv
  <2>2. planned.name \in Names /\ planned.name # Unknown /\ DOMAIN state = Attrs /\ state.name \in Names
    BY <1>1, <2>1, NameAssumption DEF KeptKinds, StateOK
  <2>3. /\ Shaped(r, planned)
        /\ r.name = planned.name \/ (kind \in {"idp_user", "idp_group"} /\ r.name = state.name)
    BY <1>1, <2>1, <2>2, KeptStates
  <2>4. Written = r
    BY <1>3 DEF Written
  <2> HIDE DEF r
  <2>5. StateOK(r)
    BY <1>1, <2>2, <2>3 DEF Shaped, StateOK
  <2> QED
    BY <1>3, <2>1, <2>3, <2>4, <2>5 DEF Shaped, NullIsNoRecord
<1> QED
  BY <1>2, <1>3

\* So does the last step of a handler, which writes the state.
LEMMA FinishTypeInv ==
  ASSUME NullIsNoRecord, TypeInv, Finish
  PROVE  TypeInv'
  BY Stopped, CreateStarted, WrittenStates DEF Finish, TypeInv, DataInv, HandlerInv, Fail,
                                               StateOK, Attrs, Written, PcInv, KindInv, ConfigInv,
                                               ServerInv

\* The parts that do not run a handler.
LEMMA ResourceKept ==
  ASSUME HandlerInv, UNCHANGED <<kind, handler>>, clean' => pc' = "idle",
         state' = state \/ pc = "idle", config' = config \/ pc = "idle"
  PROVE  HandlerInv'
  BY DEF handler, HandlerInv, PcInv, PlannedInv, Attrs, TodoInv, AnswerInv

\* So does an import.
LEMMA ImportTypeInv ==
  ASSUME NullIsNoRecord, TypeInv, ImportState
  PROVE  TypeInv'
<1>1. PICK n \in DOMAIN server :
        /\ state' = Refreshed(kind, View(server, n), Imported(n), {ManagedKey})
        /\ ours' = IF kind \in Attached THEN Null ELSE n
  BY DEF ImportState
<1>2. /\ pc = "idle" /\ ~clean'
      /\ UNCHANGED <<kind, config, server, known, handler>>
  BY DEF ImportState
<1>3. KindInv /\ ConfigInv /\ ServerInv /\ HandlerInv /\ n \in Names
  BY DEF TypeInv, DataInv, ServerInv
<1>4. StateOK(state)'
  <2> DEFINE v == View(server, n)
             m == Imported(n)
             r == Refreshed(kind, v, m, {ManagedKey})
  <2>1. v # Null /\ v.name = n
    BY Views
  <2>2. kind \in AllKinds /\ "name" \in Attrs
    BY <1>3, KindKnown
  <2>3. DOMAIN m = Attrs /\ m["name"] = n
    BY <2>2 DEF Imported
  <2> HIDE DEF v, m
  <2>4. Shaped(r, m) /\ r.name = n
    BY <2>1, <2>2, <2>3, RefreshedStates
  <2>5. state' = r
    BY <1>1 DEF v, m
  <2> HIDE DEF r
  <2> QED
    BY <1>2, <1>3, <2>3, <2>4, <2>5 DEF Shaped, StateOK, Attrs
<1>5. HandlerInv'
  BY <1>2, <1>3, ResourceKept
<1> QED
  BY <1>4, <1>1, <1>2, <1>3, <1>5 DEF TypeInv, DataInv, KindInv, ConfigInv, Attrs, ServerInv

\* So does an edit of the configuration.
LEMMA EditTypeInv ==
  ASSUME TypeInv, Edit
  PROVE  TypeInv'
  BY KindKnown, FirstConfigs, ResourceKept DEF Edit, TypeInv, DataInv, ConfigInv, ConfigurableAs,
                                               Attrs, KindInv, StateOK, ServerInv

\* So do others.
LEMMA OthersTypeInv ==
  ASSUME TypeInv, Others
  PROVE  TypeInv'
  BY ResourceKept DEF Others, TypeInv, DataInv, KindInv, ConfigInv, StateOK, Attrs, ServerInv,
                      Only

\* Nor does a step that changes nothing break it.
LEMMA StutterTypeInv ==
  ASSUME TypeInv, UNCHANGED vars
  PROVE  TypeInv'
  BY ResourceKept DEF vars, handler, TypeInv, DataInv, KindInv, ConfigInv, StateOK, ServerInv,
                      Attrs, HandlerInv, PcInv

\* Every step keeps it.
LEMMA NextTypeInv ==
  ASSUME NullIsNoRecord, TypeInv, [Next]_vars
  PROVE  TypeInv'
  BY ReadAndPlanTypeInv, CallTypeInv, FinishTypeInv, ImportTypeInv, EditTypeInv,
     OthersTypeInv, StutterTypeInv DEF Next

\* The invariant holds always.
LEMMA AlwaysTypeInv == ASSUME NullIsNoRecord PROVE Spec => []TypeInv
<1>1. Init => TypeInv
  BY InitTypeInv
<1>2. TypeInv /\ [Next]_vars => TypeInv'
  BY NextTypeInv
<1> QED
  BY <1>1, <1>2, PTL DEF Spec

\* Whatever the kind, the names, the members and the bounds, and whatever is lost,
\* refused or done by others in between: states and configurations have exactly the
\* attributes of the schema, state names an object that may exist, Create runs only
\* without a state and Update and Delete only with one, and nothing is left of a
\* handler that has ended.
THEOREM TypeCorrect == ASSUME NullIsNoRecord PROVE Spec => []TypeOK
  BY AlwaysTypeInv, TypeInvImpliesTypeOK, PTL

-----------------------------------------------------------------------------
(* The provider's object.  As long as no answer has been lost, and of the kinds that  *)
(* are made by one request, the requests still to be sent follow the object: it is    *)
(* not there yet, it has the name in state, or it has the name the plan gives it and   *)
(* nothing that is left to send can be refused.                                      *)

OneStep == kind \notin TwoStepCreates \cup Attached
Tracked(s) == ours = Null \/ (s # Null /\ s.name = ours)
AnswerNames(n) == answer # Null => answer.name = n

RestInv == pc \in {"idle", "undo"} => Tracked(state)
PostsInv == pc \in {"update", "delete"} => \A i \in DOMAIN todo : todo[i].verb # "post"
CreateInv ==
  pc = "create" =>
    /\ \A i \in DOMAIN todo : \/ i = 1 /\ Makes(todo[i], planned.name)
                              \/ planned.name \in Names /\ Follows(todo[i], planned.name)
    /\ ours # Null => /\ FollowAll(todo, ours) /\ answer # Null /\ answer.name = ours
                      /\ planned.name \in {ours, Unknown}

\* An update keeps the object's name, has still to change it, or has changed it.
Keeping == /\ ours = state.name /\ planned.name \in {ours, Unknown}
           /\ StayAll(todo, ours) /\ AnswerNames(ours)
ToMove  == ours = state.name /\ MoveOnce(todo, ours, planned.name)
HasMoved == ours = planned.name /\ FollowAll(todo, ours) /\ AnswerNames(ours)
UpdateInv == pc = "update" => ours = Null \/ Keeping \/ ToMove \/ HasMoved
DeleteInv ==
  pc = "delete" =>
    \/ ours = Null
    \/ /\ ours = state.name
       /\ \A i \in DOMAIN todo : Takes(todo[i], ours)
       /\ \E i \in DOMAIN todo : Removes(todo[i])
TrackInv == RestInv /\ PostsInv /\ CreateInv /\ UpdateInv /\ DeleteInv

OursInv ==
  /\ faults \in Nat
  /\ kind \in Attached => ours = Null
  /\ faults = 0 /\ OneStep => TrackInv

\* What follows the object is not refused; what is refused finds it where state has it.
LEMMA FollowersPossible ==
  ASSUME NEW q, NEW n \in DOMAIN server, n \in Names, Follows(q, n)
  PROVE  Possible(q) /\ q.verb \in {"get", "patch"} /\ TargetOf(q) = n
  BY NameAssumption DEF Follows, TargetOf, NoRename, NameGiven, InUseAllows, Possible, Exists

\* The first request of a list that is not empty, and the rest.
LEMMA FirstOfList ==
  ASSUME HandlerInv, todo # <<>>, NEW q, q = Head(todo)
  PROVE  /\ RequestOK(q) /\ 1 \in DOMAIN todo /\ q = todo[1]
         /\ Listing(Tail(todo))
         /\ \A i \in DOMAIN Tail(todo) : i + 1 \in DOMAIN todo /\ Tail(todo)[i] = todo[i + 1]
         /\ \A i \in DOMAIN todo : i \in Nat /\ (i = 1 \/ (i - 1 \in DOMAIN Tail(todo) /\ i > 1))
         /\ \A i \in DOMAIN Tail(todo) : i \in Nat \ {0}
<1>1. ListOK(todo)
  BY DEF HandlerInv, TodoInv
<1>2. /\ Listing(Tail(todo)) /\ 1 \in DOMAIN todo /\ q = todo[1]
      /\ \A i \in DOMAIN Tail(todo) : i + 1 \in DOMAIN todo /\ Tail(todo)[i] = todo[i + 1]
      /\ \A i \in DOMAIN todo : i \in Nat /\ (i = 1 \/ (i - 1 \in DOMAIN Tail(todo) /\ i > 1))
  <2> HIDE DEF Listing
  <2> QED
    BY <1>1, RestOfList DEF ListOK
<1>3. \A i \in DOMAIN Tail(todo) : i \in Nat \ {0}
  BY <1>2 DEF Listing
<1> QED
  BY <1>1, <1>2, <1>3 DEF ListOK

\* A refusal leaves the object where the state has it.
LEMMA RefusedOurs ==
  ASSUME TypeInv, TrackInv, pc # "idle", todo # <<>>, NEW q, q = Head(todo),
         ~Possible(q) \/ q.verb = "delete"
  PROVE  Tracked(state)
<1>1. 1 \in DOMAIN todo /\ q = todo[1]
  BY FirstOfList DEF TypeInv
<1>2. ours # Null => ~Follows(q, ours)
  BY FollowersPossible DEF TypeInv, DataInv, ServerInv
<1>3. CASE pc = "undo"
  BY <1>3 DEF TrackInv, RestInv
<1>4. CASE pc = "create"
  BY <1>1, <1>2, <1>4 DEF TrackInv, CreateInv, FollowAll, Tracked
<1>5. CASE pc = "update"
  BY <1>5, <1>1, <1>2 DEF TypeInv, HandlerInv, PcInv, TrackInv, UpdateInv, Keeping, ToMove,
                          HasMoved, FollowAll, Tracked
<1>6. CASE pc = "delete"
  BY <1>6 DEF TypeInv, HandlerInv, PcInv, TrackInv, DeleteInv, Tracked
<1> QED
  BY <1>3, <1>4, <1>5, <1>6 DEF TypeInv, HandlerInv, PcInv

\* An update or a delete that finds nothing: the provider's object is gone.
LEMMA GoneOurs ==
  ASSUME TypeInv, TrackInv, pc \in {"update", "delete"}, todo # <<>>, NEW q, q = Head(todo),
         ~Exists(q.target)
  PROVE  ours = Null
<1>1. 1 \in DOMAIN todo /\ q = todo[1]
  BY FirstOfList DEF TypeInv
<1>2. q.target # ours \/ ours = Null
  BY DEF Exists, TypeInv, DataInv, ServerInv
<1>3. CASE pc = "delete"
  BY <1>1, <1>2, <1>3 DEF TrackInv, DeleteInv, Takes
<1>4. CASE pc = "update"
  BY <1>1, FirstOfList, <1>2, <1>4 DEF StayAll, Stays, FollowAll, Follows, MoveOnce, TypeInv,
                                       Moves, TrackInv, UpdateInv, Keeping, ToMove, HasMoved
<1> QED
  BY <1>3, <1>4

\* What begins.
LEMMA StoppedOurs ==
  ASSUME Stop, Tracked(state)'
  PROVE  TrackInv'
  BY DEF Stop, TrackInv, RestInv, PostsInv, CreateInv, UpdateInv, DeleteInv

\* A Create begins with nothing in state.
LEMMA CreateBegun ==
  ASSUME KindInv, ConfigInv, OneStep, config # Null, ours' = Null,
         StartCreate(PlanCreate(kind, config))
  PROVE  TrackInv'
<1> DEFINE p == PlanCreate(kind, config)
           l == Creates(kind, p)
<1>1. CASE Accepted(kind, p, config, Null)
  <2>1. CreateOK(kind, l, p)
    BY CreatePlans
  <2>2. Start("create", p, l, FALSE)
    BY <1>1 DEF StartCreate
  <2> HIDE DEF p, l
  <2>3. CreateInv'
    BY <2>1, <2>2 DEF Start, CreateOK, CreateInv, OneStep
  <2> QED
    BY <2>2, <2>3 DEF Start, TrackInv, RestInv, PostsInv, UpdateInv, DeleteInv
<1>2. CASE ~Accepted(kind, p, config, Null)
  BY <1>2, StoppedOurs DEF StartCreate, Tracked
<1> QED
  BY <1>1, <1>2

\* A Delete begins with the object in state.
LEMMA DeleteBegun ==
  ASSUME KindInv, OneStep, NEW s, s # Null, StateOK(s), state' = s, ours' = ours, Tracked(s),
         NEW again, Start("delete", s, Deletes(kind, s), again)
  PROVE  TrackInv'
<1> DEFINE l == Deletes(kind, s)
<1>1. DeleteOK(kind, l, s)
  BY KindKnown, DeleteRequests DEF StateOK
<1>2. Start("delete", s, l, again)
  OBVIOUS
<1> HIDE DEF l
<1>3. DeleteInv' /\ PostsInv'
  BY <1>1, <1>2 DEF Start, DeleteOK, DeleteInv, PostsInv, OneStep, Tracked, Takes
<1> QED
  BY <1>2, <1>3 DEF Start, TrackInv, RestInv, CreateInv, UpdateInv

\* An Update begins with the object in state.
LEMMA UpdateBegun ==
  ASSUME KindInv, ConfigInv, OneStep, config # Null, NEW s, s # Null, StateOK(s), state' = s,
         ours' = ours, Tracked(s), NEW p, p = PlanUpdate(kind, config, s),
         ~Replaces(kind, config, p, s), Start("update", p, Updates(kind, p, s), FALSE)
  PROVE  TrackInv'
<1> DEFINE l == Updates(kind, p, s)
<1>1. /\ p.name \in IF kind = "identity" THEN {Unknown} ELSE Names
      /\ UpdateOK(kind, l, s, p)
  BY UpdatePlans
<1>2. Start("update", p, l, FALSE)
  OBVIOUS
<1> HIDE DEF l
<1>3. IF kind = "identity" \/ p.name = s.name THEN StayAll(l, s.name)
      ELSE MoveOnce(l, s.name, p.name)
  BY <1>1 DEF UpdateOK, OneStep, Renames
<1>4. Listing(l)
  BY <1>1 DEF UpdateOK, ListOK
<1>5. \A i \in DOMAIN l : l[i].verb # "post"
  BY <1>4, <1>3 DEF Listing, StayAll, Stays, MoveOnce, Moves, Follows
<1>6. UpdateInv' /\ PostsInv'
  BY <1>1, <1>2, <1>3, <1>5
     DEF Start, UpdateInv, Keeping, ToMove, HasMoved, PostsInv, AnswerNames, Tracked
<1> QED
  BY <1>2, <1>6 DEF Start, TrackInv, RestInv, CreateInv, DeleteInv

\* The refresh and the plan lose no object.
LEMMA ReadAndPlanOurs ==
  ASSUME NullIsNoRecord, TypeInv, OneStep, TrackInv, ReadAndPlan
  PROVE  TrackInv'
<1> DEFINE s == ReadState
<1>1. pc = "idle" /\ Decide(s) /\ state' = s /\ UNCHANGED <<kind, config, ours>>
  BY DEF ReadAndPlan
<1>2. KindInv /\ ConfigInv /\ ServerInv
  BY DEF TypeInv, DataInv
<1>3. StateOK(s) /\ Tracked(s)
  <2>1. /\ StateOK(s) /\ (s # Null => s.name = state.name)
        /\ state # Null /\ Exists(state.name) => s # Null
    BY ReadStates DEF TypeInv
  <2> HIDE DEF s
  <2> QED
    BY <1>1, <1>2, <2>1 DEF Tracked, ServerInv, Exists, TrackInv, RestInv
<1> HIDE DEF s
<1>4. CASE Stop
  BY <1>1, <1>3, <1>4, StoppedOurs DEF Tracked
<1>5. CASE s = Null /\ config # Null /\ StartCreate(PlanCreate(kind, config))
  BY <1>1, <1>2, <1>3, <1>5, CreateBegun DEF Tracked
<1>6. CASE s # Null /\ \E again \in BOOLEAN : /\ again => config # Null
                                              /\ Start("delete", s, Deletes(kind, s), again)
  BY <1>1, <1>2, <1>3, <1>6, DeleteBegun
<1>7. CASE /\ s # Null /\ config # Null
           /\ \E p : /\ p = PlanUpdate(kind, config, s) /\ ~Replaces(kind, config, p, s)
                     /\ Start("update", p, Updates(kind, p, s), FALSE)
  BY <1>1, <1>2, <1>3, <1>7, UpdateBegun
<1> QED
  BY <1>1, <1>4, <1>5, <1>6, <1>7, Decisions

\* What fails or is refused.
LEMMA FailedOurs ==
  ASSUME TypeInv, Tracked(state), NEW q, FailAfter(q), UNCHANGED ours
  PROVE  TrackInv'
  BY FailedState, StoppedOurs DEF Tracked, FailAfter, Fail, TrackInv, RestInv, PostsInv,
                                  CreateInv, UpdateInv, DeleteInv

\* Nor does a request that is refused.
LEMMA RefusedStepOurs ==
  ASSUME TypeInv, TrackInv, pc # "idle", todo # <<>>, NEW q, q = Head(todo), Refused(q),
         UNCHANGED <<server, ours>>, ~Possible(q) \/ q.verb = "delete"
  PROVE  TrackInv'
  BY GoneOurs, StoppedOurs, RefusedOurs, FailedOurs DEF CountsAsGone, Refused, GoneOnUpdate,
                                                        TrackInv, RestInv, PostsInv, CreateInv,
                                                        UpdateInv, DeleteInv, Tracked

\* What becomes of the object's name, and of the answer.
LEMMA AnsweredNames ==
  ASSUME NullIsNoRecord, ServerInv, NEW q, RequestOK(q)
  PROVE  /\ q.verb = "post" => OursAfter(q) = NameGiven(q)
         /\ q.verb # "post" /\ ours = Null => OursAfter(q) = Null
         /\ q.verb \in {"delete", "force"} /\ q.target = ours => OursAfter(q) = Null
         /\ q.verb \in {"get", "put", "patch"} /\ q.target = ours /\ NoRename(q)
              => OursAfter(q) = ours /\ TargetOf(q) = ours
         /\ q.verb \in {"get", "patch"} /\ NoRename(q) => OursAfter(q) = ours
         /\ q.verb = "put" /\ q.target = ours => OursAfter(q) = TargetOf(q)
         /\ q.verb \in {"patch", "delete", "force"} => AnswerTo(q) = answer
         /\ q.verb \notin {"patch", "delete", "force"} =>
              AnswerTo(q) # Null /\ AnswerTo(q).name = TargetOf(q)
<1>1. /\ NoRename(q) => TargetOf(q) = NameGiven(q)
      /\ q.target \in Names => NameGiven(q) = q.target
      /\ q.target \in Names \cup {Unknown}
  BY NamesOfRequests DEF RequestOK
<1>2. q.target # Null
  BY <1>1, NameAssumption, ValueAssumption
<1>3. q.verb = "post" => OursAfter(q) = NameGiven(q)
  BY DEF OursAfter
<1>4. q.verb # "post" /\ ours = Null => OursAfter(q) = Null
  BY <1>2 DEF OursAfter
<1>5. q.verb \in {"delete", "force"} /\ q.target = ours => OursAfter(q) = Null
  BY DEF OursAfter
<1>6. q.verb \in {"put", "patch"} /\ q.target = ours => OursAfter(q) = TargetOf(q)
  BY DEF OursAfter
<1>7. q.verb = "get" \/ (q.verb = "patch" /\ q.target # ours) => OursAfter(q) = ours
  BY DEF OursAfter
<1>8. q.target = ours /\ NoRename(q) => TargetOf(q) = ours
  BY <1>1, <1>2 DEF ServerInv
<1>9. q.verb \in {"patch", "delete", "force"} => AnswerTo(q) = answer
  BY DEF AnswerTo
<1>10. q.verb \notin {"patch", "delete", "force"} =>
         AnswerTo(q) # Null /\ AnswerTo(q).name = TargetOf(q)
  BY Views DEF AnswerTo
<1> QED
  BY <1>3, <1>4, <1>5, <1>6, <1>7, <1>8, <1>9, <1>10

\* What is answered: the request q is taken off the list.
Answered(q) ==
  /\ pc # "idle" /\ todo # <<>> /\ q = Head(todo)
  /\ Possible(q) /\ server' = After(q) /\ ours' = OursAfter(q)
  /\ todo' = IF q.verb # "list" THEN Tail(todo)
             ELSE Listed(kind, server[q.target].props, planned, {ManagedKey})
  /\ answer' = AnswerTo(q)
  /\ UNCHANGED <<kind, config, state, pc, planned, next, clean>>

\* Nor does an answered request of a Create.
LEMMA AnsweredCreate ==
  ASSUME NullIsNoRecord, TypeInv, TrackInv, pc = "create", NEW q, Answered(q)
  PROVE  CreateInv'
<1>1. /\ RequestOK(q) /\ 1 \in DOMAIN todo /\ q = todo[1]
      /\ \A i \in DOMAIN Tail(todo) : /\ i + 1 \in DOMAIN todo /\ Tail(todo)[i] = todo[i + 1]
                                      /\ i + 1 # 1
  BY FirstOfList DEF TypeInv, Answered
<1>2. ServerInv /\ planned.name \in Names \cup {Unknown}
  BY DEF TypeInv, DataInv, HandlerInv, PlannedInv, Answered
<1>3. CreateInv
  BY DEF TrackInv
<1>4. \A i \in DOMAIN Tail(todo) : planned.name \in Names /\ Follows(Tail(todo)[i], planned.name)
  BY <1>1, <1>3 DEF CreateInv
<1>5. CASE Makes(q, planned.name)
  BY <1>5, <1>1, <1>2, AnsweredNames, NamesOfRequests, <1>4 DEF Makes, Answered, FollowAll,
                                                                CreateInv
<1>6. CASE planned.name \in Names /\ Follows(q, planned.name)
  <2>1. q.target = planned.name /\ NoRename(q) /\ q.verb \in {"get", "patch"}
    BY <1>6 DEF Follows
  <2>2. todo' = Tail(todo) /\ planned' = planned
    BY <2>1 DEF Answered
  <2>3. ours' = ours
    BY <1>1, <1>2, <2>1, AnsweredNames DEF Answered
  <2>4. ours # Null => /\ FollowAll(todo, ours) /\ answer # Null /\ answer.name = ours
                       /\ planned.name \in {ours, Unknown}
    BY <1>3 DEF CreateInv
  <2>5. ours # Null => /\ q.target = ours /\ FollowAll(Tail(todo), ours)
    BY <1>1, <2>4 DEF FollowAll, Follows
  <2>6. ours # Null => answer' # Null /\ answer'.name = ours
    BY <1>1, <1>2, <2>1, <2>4, <2>5, AnsweredNames DEF Answered
  <2> QED
    BY <1>4, <2>2, <2>3, <2>4, <2>5, <2>6 DEF CreateInv, FollowAll
<1> QED
  BY <1>1, <1>3, <1>5, <1>6 DEF CreateInv

\* Nor does an answered request of an Update.
LEMMA AnsweredUpdate ==
  ASSUME NullIsNoRecord, TypeInv, TrackInv, pc = "update", NEW q, Answered(q)
  PROVE  UpdateInv'
<1>1. /\ RequestOK(q) /\ 1 \in DOMAIN todo /\ q = todo[1]
      /\ \A i \in DOMAIN Tail(todo) : i + 1 \in DOMAIN todo /\ Tail(todo)[i] = todo[i + 1]
      /\ \A i \in DOMAIN todo : i \in Nat /\ (i = 1 \/ (i - 1 \in DOMAIN Tail(todo) /\ i > 1))
      /\ \A i \in DOMAIN Tail(todo) : i \in Nat \ {0}
  BY FirstOfList DEF TypeInv, Answered
<1>2. ServerInv
  BY DEF TypeInv, DataInv
<1>3. UpdateInv /\ q.verb # "post"
  BY <1>1 DEF TrackInv, PostsInv
<1>4. UNCHANGED <<state, planned>> /\ (q.verb # "list" => todo' = Tail(todo))
      /\ answer' = AnswerTo(q) /\ ours' = OursAfter(q) /\ Possible(q)
  BY DEF Answered
<1>5. CASE ours = Null
  BY <1>1, <1>2, <1>3, <1>4, <1>5, AnsweredNames DEF UpdateInv
<1>6. ASSUME q.target = ours, NoRename(q), q.verb \in {"get", "put", "patch"}
      PROVE  ours' = ours /\ todo' = Tail(todo) /\ (AnswerNames(ours) => AnswerNames(ours)')
  BY <1>1, <1>2, <1>4, <1>6, AnsweredNames DEF AnswerNames
<1>7. CASE Keeping
  <2>1. Stays(q, ours) /\ StayAll(Tail(todo), ours)
    BY <1>1, <1>7 DEF Keeping, StayAll
  <2> QED
    BY <1>4, <1>7, <2>1, <1>6 DEF UpdateInv, Keeping, StayAll, Stays, Possible
<1>8. CASE HasMoved
  <2>1. Follows(q, ours) /\ FollowAll(Tail(todo), ours)
    BY <1>1, <1>8 DEF HasMoved, FollowAll
  <2> QED
    BY <1>4, <1>8, <2>1, <1>6 DEF UpdateInv, HasMoved, FollowAll, Follows
<1>9. CASE ToMove
  <2> DEFINE m == planned.name
  <2>1. PICK i \in DOMAIN todo :
          /\ Moves(todo[i], ours, m)
          /\ \A j \in DOMAIN todo : /\ j < i => Stays(todo[j], ours)
                                    /\ j > i => Follows(todo[j], m)
    BY <1>9 DEF ToMove, MoveOnce
  <2>2. CASE i = 1
    <3>1. q.target = ours /\ q.verb = "put" /\ ~NoRename(q) /\ q.changes.plain.name = m
      BY <1>1, <2>1, <2>2 DEF Moves
    <3>2. TargetOf(q) = m /\ ours' = m /\ todo' = Tail(todo) /\ answer'.name = m
      BY <1>1, <1>2, <1>4, <3>1, AnsweredNames, NamesOfRequests
    <3>3. \A j \in DOMAIN Tail(todo) : Follows(Tail(todo)[j], m)
      <4> TAKE j \in DOMAIN Tail(todo)
      <4> QED
        BY <2>1, <2>2, <1>1
    <3> QED
      BY <1>4, <3>2, <3>3 DEF UpdateInv, HasMoved, FollowAll, AnswerNames
  <2>3. CASE i # 1
    <3>1. i - 1 \in DOMAIN Tail(todo) /\ Tail(todo)[i - 1] = todo[i] /\ i \in Nat /\ i > 1
      BY <1>1, <2>3
    <3>2. ours' = ours /\ todo' = Tail(todo)
      BY <1>6, <1>1, <2>1, <3>1, <1>4 DEF Stays, Possible
    <3>3. \A j \in DOMAIN Tail(todo) : /\ j < i - 1 => Stays(Tail(todo)[j], ours)
                                       /\ j > i - 1 => Follows(Tail(todo)[j], m)
      <4> TAKE j \in DOMAIN Tail(todo)
      <4> QED
        BY <2>1, <1>1, <3>1
    <3>4. MoveOnce(Tail(todo), ours, m)
      BY <2>1, <3>1, <3>3 DEF MoveOnce
    <3> QED
      BY <1>4, <1>9, <3>2, <3>4 DEF UpdateInv, ToMove, MoveOnce
  <2> QED
    BY <2>2, <2>3
<1> QED
  BY <1>3, <1>5, <1>7, <1>8, <1>9 DEF UpdateInv

\* Nor does an answered request of a Delete.
LEMMA AnsweredDelete ==
  ASSUME NullIsNoRecord, TypeInv, TrackInv, pc = "delete", NEW q, Answered(q)
  PROVE  DeleteInv'
<1>1. /\ RequestOK(q) /\ 1 \in DOMAIN todo /\ q = todo[1]
      /\ \A i \in DOMAIN Tail(todo) : i + 1 \in DOMAIN todo /\ Tail(todo)[i] = todo[i + 1]
      /\ \A i \in DOMAIN todo : i \in Nat /\ (i = 1 \/ (i - 1 \in DOMAIN Tail(todo) /\ i > 1))
  BY FirstOfList DEF TypeInv, Answered
<1>2. ServerInv /\ q.verb # "post" /\ UNCHANGED state
  BY <1>1 DEF TypeInv, DataInv, TrackInv, PostsInv, Answered
<1>3. CASE ours = Null
  BY <1>1, <1>2, <1>3, AnsweredNames DEF DeleteInv, Answered
<1>4. CASE ours # Null
  BY <1>1, <1>4, <1>2, AnsweredNames DEF TrackInv, DeleteInv, Answered, Takes, Removes
<1> QED
  BY <1>3, <1>4

\* The undoing requests are PATCHes, which leave every object its name.
LEMMA AnsweredOurs ==
  ASSUME NullIsNoRecord, TypeInv, TrackInv, NEW q, Answered(q)
  PROVE  TrackInv'
<1>1. /\ RequestOK(q) /\ 1 \in DOMAIN todo /\ q = todo[1]
      /\ \A i \in DOMAIN Tail(todo) : i + 1 \in DOMAIN todo /\ Tail(todo)[i] = todo[i + 1]
  BY FirstOfList DEF TypeInv, Answered
<1>2. pc # "idle" /\ UNCHANGED <<pc, state>> /\ PcInv /\ ServerInv /\ PlannedInv
  BY DEF Answered, TypeInv, DataInv, HandlerInv
<1>3. PostsInv'
  <2>1. CASE q.verb = "list"
    <3> DEFINE l == Listed(kind, server[q.target].props, planned, {ManagedKey})
    <3>1. todo' = l
      BY <2>1 DEF Answered
    <3>2. \A i \in DOMAIN l : l[i].verb # "post"
      BY <1>2, ListedRequests DEF PlannedInv
    <3> HIDE DEF l
    <3> QED
      BY <3>1, <3>2 DEF PostsInv
  <2>2. CASE q.verb # "list"
    BY <1>1, <1>2, <2>2 DEF TrackInv, PostsInv, Answered
  <2> QED
    BY <2>1, <2>2
<1>4. CASE pc = "create"
  BY <1>4, AnsweredCreate, <1>2, <1>3 DEF TrackInv, RestInv, UpdateInv, DeleteInv
<1>5. CASE pc = "update"
  BY <1>5, AnsweredUpdate, <1>2, <1>3 DEF TrackInv, RestInv, CreateInv, DeleteInv
<1>6. CASE pc = "delete"
  BY <1>6, AnsweredDelete, <1>2, <1>3 DEF TrackInv, RestInv, CreateInv, UpdateInv
<1>7. CASE pc = "undo"
  BY <1>1, <1>7, <1>2, AnsweredNames, <1>3 DEF TypeInv, HandlerInv, TodoInv, Undoes, Answered,
                                               TrackInv, RestInv, Tracked, CreateInv, UpdateInv,
                                               DeleteInv
<1> QED
  BY <1>2, <1>4, <1>5, <1>6, <1>7 DEF PcInv

\* Nor does any request.
LEMMA CallOurs ==
  ASSUME NullIsNoRecord, TypeInv, OursInv, Call
  PROVE  OursInv'
<1> DEFINE q == Head(todo)
<1>1. pc # "idle" /\ todo # <<>> /\ UNCHANGED <<kind, config>> /\ faults \in Nat
  BY DEF Call, OursInv
<1>2. \/ Answered(q) /\ faults' = faults
      \/ /\ ~Possible(q) \/ q.verb = "delete"
         /\ Refused(q) /\ UNCHANGED <<server, ours>> /\ faults' = faults
      \/ /\ faults' = faults + 1
         /\ UNCHANGED ours \/ ours' = OursAfter(q)
  BY <1>1 DEF Call, Answered
<1>3. kind \in Attached => ours' = Null
  BY <1>1, FirstOfList, AnsweredNames, <1>2 DEF TypeInv, HandlerInv, TodoInv, OursInv, Answered,
                                                DataInv
<1>4. faults' \in Nat /\ (faults' = 0 => faults = 0)
  BY <1>1, <1>2
<1>5. ASSUME faults' = 0, OneStep
      PROVE  TrackInv'
  BY <1>4, <1>5, <1>1, AnsweredOurs, RefusedStepOurs, <1>2 DEF OursInv
<1> QED
  BY <1>1, <1>3, <1>4, <1>5 DEF OursInv, OneStep

\* When the handler writes state, the object is the one it writes about.
LEMMA FinishTrack ==
  ASSUME NullIsNoRecord, TypeInv, OneStep, TrackInv, Finish
  PROVE  TrackInv'
<1>1. /\ pc # "idle" /\ todo = <<>> /\ UNCHANGED <<kind, config, ours>>
      /\ \/ pc = "undo" /\ Fail
         \/ /\ pc # "undo" /\ state' = Written
            /\ IF next THEN StartCreate(PlanCreate(kind, config)) ELSE Stop
  BY DEF Finish
<1>2. KindInv /\ ConfigInv /\ ServerInv /\ PcInv /\ PlannedInv
  BY DEF TypeInv, DataInv, HandlerInv
<1>3. CASE pc = "undo" /\ Fail
  BY <1>1, <1>3, StoppedOurs DEF Fail, TrackInv, RestInv, Tracked
<1>4. CASE pc = "delete"
  BY <1>1, <1>4, <1>2, CreateBegun, StoppedOurs DEF TrackInv, DeleteInv, PcInv, Tracked
<1>5. CASE pc \in {"create", "update"}
  <2>1. ~next /\ state' = Written /\ Stop
    BY <1>1, <1>2, <1>5 DEF PcInv
  <2>2. /\ Written # Null
        /\ answer # Null => /\ Written.name \in {answer.name, planned.name}
                            /\ kind = "identity" => Written.name = answer.name
        /\ answer = Null => /\ pc = "update" /\ kind \in KeptKinds
                            /\ Written.name = planned.name
                                 \/ (kind \in {"idp_user", "idp_group"} /\ Written.name = state.name)
    BY <1>1, <1>5, WrittenStates
  <2>3. /\ planned.name \in IF kind = "identity" THEN {Unknown} ELSE Names
        /\ pc = "update" => kind \in RenamedKinds \cup {"identity"} \/ planned.name = state.name
    BY <1>2, <1>5 DEF PlannedInv
  <2>4. kind # "identity" => planned.name # Unknown
    BY <2>3, NameAssumption
  <2>5. ours # Null => Written.name = ours
    BY <2>2, <2>4, <1>1, <2>3, <1>5 DEF TrackInv, CreateInv, ToMove, MoveOnce, UpdateInv, Keeping,
                                        HasMoved, AnswerNames, KeptKinds, RenamedKinds
  <2> QED
    BY <2>1, <1>1, <2>2, <2>5, StoppedOurs DEF Tracked
<1> QED
  BY <1>1, <1>2, <1>3, <1>4, <1>5 DEF PcInv

\* The parts that run no handler.
LEMMA TrackKept ==
  ASSUME TrackInv, UNCHANGED handler, ours' \in {ours, Null},
         state' = state \/ (pc = "idle" /\ Tracked(state)')
  PROVE  TrackInv'
<1>1. UNCHANGED <<pc, planned, next, todo, answer>>
  BY DEF handler
<1>2. UpdateInv' /\ DeleteInv'
  BY <1>1 DEF TrackInv, UpdateInv, DeleteInv, Keeping, ToMove, HasMoved, AnswerNames, StayAll,
     MoveOnce, FollowAll
<1> QED
  BY <1>1, <1>2 DEF TrackInv, RestInv, PostsInv, Tracked, CreateInv, FollowAll

\* What is imported is the provider's object from then on.
LEMMA ImportTrack ==
  ASSUME NullIsNoRecord, TypeInv, OneStep, ImportState
  PROVE  TrackInv'
<1>1. PICK n \in DOMAIN server :
        /\ state' = Refreshed(kind, View(server, n), Imported(n), {ManagedKey})
        /\ ours' = IF kind \in Attached THEN Null ELSE n
  BY DEF ImportState
<1> DEFINE v == View(server, n)
           m == Imported(n)
           r == Refreshed(kind, v, m, {ManagedKey})
<1>2. v # Null /\ v.name = n
  BY Views
<1>3. DOMAIN m = Attrs
  BY DEF Imported
<1> HIDE DEF v, m
<1>4. Shaped(r, m) /\ (kind # "owner" => r.name = n)
  BY <1>2, KindKnown, <1>3, RefreshedStates DEF TypeInv, DataInv
<1>5. state' = r
  BY <1>1 DEF v, m
<1> HIDE DEF r
<1>6. Tracked(state)'
  BY <1>1, <1>4, <1>5 DEF Tracked, OneStep, Shaped, NullIsNoRecord, Attached
<1>7. pc' = "idle"
  BY DEF ImportState, handler
<1> QED
  BY <1>6, <1>7 DEF TrackInv, RestInv, PostsInv, CreateInv, UpdateInv, DeleteInv

\* Nor does any step.
LEMMA NextOursInv ==
  ASSUME NullIsNoRecord, TypeInv, OursInv, [Next]_vars
  PROVE  OursInv'
  BY ReadAndPlanOurs, CallOurs, FinishTrack, ImportTrack, TrackKept DEF ReadAndPlan, bounds,
                                                                        OursInv, OneStep, Finish,
                                                                        ImportState, Edit, Others,
                                                                        vars, Next

\* No object is ever lost.
LEMMA AlwaysOursInv == ASSUME NullIsNoRecord PROVE Spec => []OursInv
<1>1. Init => OursInv
  BY DEF Init, OursInv, TrackInv, RestInv, PostsInv, CreateInv, UpdateInv, DeleteInv, Tracked
<1>2. TypeInv /\ OursInv /\ [Next]_vars => OursInv'
  BY NextOursInv
<1> QED
  BY <1>1, <1>2, AlwaysTypeInv, PTL DEF Spec

\* Without a lost answer no object is orphaned, whatever is refused and whatever others
\* and the user do between any two requests: the object the provider made is the one
\* in its state, except of the kinds whose Create takes two requests.
THEOREM NoOrphansWithoutFaults == ASSUME NullIsNoRecord PROVE Spec => []OrphansOnlyFromHalves
<1>1. OursInv => OrphansOnlyFromHalves
  BY DEF OursInv, OrphansOnlyFromHalves, OneStep, TrackInv, RestInv, Tracked
<1> QED
  BY <1>1, AlwaysOursInv, PTL

-----------------------------------------------------------------------------
(* The values of the attributes, on the server, in the plan and in state.     *)

\* Neither Null nor Unknown is a value an attribute can have.
Texts == {"", "a", "b"}
NotSetIsNoValue ==
  \A v \in NotSet : /\ ~Record(v) /\ v \notin Texts \cup BOOLEAN /\ v \notin {1, 2}
                    /\ v \notin SUBSET Members

\* A value of the server, and one of a configuration, a plan or a state; the property the
\* server adds to a catalog or a fileset never gets there.
HidingKinds == {"catalog", "fileset"}
Proper(a, v) == /\ a = "comment" => v \in Texts
                /\ a = "props"   => Record(v)
                /\ a = "members" => v \in SUBSET Members
Sound(k, a, v) ==
  v \in NotSet \/ (Proper(a, v) /\ (k \in HidingKinds /\ a = "props" => ManagedKey \notin DOMAIN v))

\* A record is not Null, in particular.
LEMMA NullIsNone ==
  ASSUME NotSetIsNoValue
  PROVE  NullIsNoRecord
  BY DEF NotSetIsNoValue, NullIsNoRecord, NotSet

\* A value of the server is not one that says nothing is set.
LEMMA ProperIsSet ==
  ASSUME NotSetIsNoValue, NEW a \in {"comment", "props", "members"}, NEW v, Proper(a, v)
  PROVE  v \notin NotSet
  BY DEF NotSetIsNoValue, Proper

\* The operators on maps make maps, of these keys.
LEMMA RecordsMade ==
  ASSUME NEW f, NEW g, NEW D
  PROVE  /\ Record(Overlay(f, g)) /\ DOMAIN Overlay(f, g) = DOMAIN f \cup DOMAIN g
         /\ Record(Only(f, D)) /\ DOMAIN Only(f, D) = D \cap DOMAIN f
         /\ Record(ProjectProperties(f, g)) /\ DOMAIN ProjectProperties(f, g) = DOMAIN g
         /\ Record(NoMap) /\ DOMAIN NoMap = {}
         /\ Record(f) /\ DOMAIN f = {} => f = NoMap
  BY DEF Record, Overlay, Only, ProjectProperties, NoMap

\* What becomes of a sound value on the server.
LEMMA SoundOnServer ==
  ASSUME NotSetIsNoValue, NEW k, NEW a, NEW v, Sound(k, a, v)
  PROVE  /\ a \in {"comment", "props", "members"} => Proper(a, OnServer(a, v))
         /\ a = "comment" /\ v \notin NotSet => OnServer(a, v) = v
         /\ a = "comment" /\ v \in NotSet => OnServer(a, v) = ""
         /\ a = "props" => OnServer(a, v) = AsMap(v) /\ Record(AsMap(v))
         /\ a = "members" => OnServer(a, v) = AsSet(v) /\ AsSet(v) \in SUBSET Members
  BY RecordsMade DEF OnServer, Sound, Proper, Texts, AsMap, AsSet

-----------------------------------------------------------------------------
(* What an answer has to show for the state written from it to be what was planned: *)
(* kinds without lists whose answers are merged into the plan.                     *)

MergedKinds == {"catalog", "schema", "topic", "model", "fileset", "tag", "policy", "view", "derived_view",
                "job_template", "partition", "identity", "user", "group", "role", "idp_user",
                "idp_group"}
PartitionKinds == {"partition", "identity"}
ProjectedKinds == {"catalog", "fileset", "tag", "topic", "policy"} \cup PartitionKinds
\* The kinds that show every property, and those of them that do so as not set or as they are.
PlainMaps == {"schema", "model", "view", "derived_view"}
ExactKinds == PlainMaps \cup {"job_template"}
ObjectAttrs(k) == SchemaOf(k).attrs \ {"name", "force"}

\* The server shows v of an attribute of which p is planned or in state.
Fits(k, a, p, v) ==
  p # Unknown =>
    /\ a = "comment" => \/ v = OnServer("comment", p)
                        \/ k \in {"tag", "topic"} /\ v = "" /\ p # Null
    /\ a \in {"members", "content"} \/ (a = "props" /\ k = "role") => v = p
    /\ a = "props" /\ k \in ExactKinds => v = AsMap(p)
    /\ a = "props" /\ k \in ProjectedKinds /\ p # Null =>
         \A x \in DOMAIN p \cap DOMAIN v : v[x] = p[x]
FitsAll(k, p, o) == \A a \in ObjectAttrs(k) : Fits(k, a, p[a], o[a])

\* What a request makes of its object, and what a list of at most three does.
Added(k, o) ==
  IF k \in ManagedKinds /\ "props" \in DOMAIN o
  THEN [o EXCEPT !.props = Overlay(@, [x \in {ManagedKey} |-> "managed"])]
  ELSE o
Renamed(c) == [c EXCEPT !.plain = Only(@, DOMAIN @ \ {"name"})]
Result(k, q, o) ==
  CASE q.verb = "get"  -> o
    [] q.verb = "post" -> Added(k, q.changes.plain)
    [] OTHER           -> Added(k, Changed(o, Renamed(q.changes)))
Ahead(k, l, o) ==
  CASE l = <<>>   -> o
    [] Len(l) = 1 -> Result(k, l[1], o)
    [] Len(l) = 2 -> Result(k, l[2], Result(k, l[1], o))
    [] OTHER      -> Result(k, l[3], Result(k, l[2], Result(k, l[1], o)))

-----------------------------------------------------------------------------
(* What the merges of an answer show.                                       *)

\* Three ways to show a comment, and the comment itself.
LEMMA CommentMerges ==
  ASSUME NotSetIsNoValue, NEW k, NEW v \in Texts, NEW m, Sound(k, "comment", m)
  PROVE  /\ Sound(k, "comment", CommentFromServer(v, m)) /\ Sound(k, "comment", v)
         /\ Sound(k, "comment", StringFromResponse(v, m))
         /\ Sound(k, "comment", OptionalStringToTF(v))
         /\ k \in {"tag", "topic"} => Fits(k, "comment", CommentFromServer(v, m), v)
         /\ Fits(k, "comment", StringFromResponse(v, m), v)
         /\ Fits(k, "comment", OptionalStringToTF(v), v) /\ Fits(k, "comment", v, v)
<1> DEFINE shown(x) == IF x \in NotSet THEN "" ELSE x
           fits(x) == v = shown(x) \/ (k \in {"tag", "topic"} /\ v = "" /\ x # Null)
<1>1. \A x \in NotSet \cup Texts : OnServer("comment", x) = shown(x)
  BY DEF OnServer
<1>2. m \in NotSet \cup Texts /\ Texts \cap NotSet = {} /\ Null # Unknown
  BY ValueAssumption DEF Sound, Proper, NotSetIsNoValue
<1>3. \A x \in NotSet \cup Texts : Fits(k, "comment", x, v) <=> (x # Unknown => fits(x))
  BY <1>1 DEF Fits
<1>4. \A x \in {Null} \cup Texts \cup {m} : Sound(k, "comment", x)
  BY DEF Sound, Proper, NotSet
<1>5. /\ CommentFromServer(v, m) \in Texts \cup {Null, m}
      /\ StringFromResponse(v, m) \in Texts \cup {Null}
      /\ OptionalStringToTF(v) \in Texts \cup {Null}
  BY DEF CommentFromServer, StringFromResponse, OptionalStringToTF, Texts
<1>6. CommentFromServer(v, m) # Unknown /\ k \in {"tag", "topic"} =>
        fits(CommentFromServer(v, m))
  BY <1>2 DEF CommentFromServer, NotSet
<1>7. fits(StringFromResponse(v, m)) /\ fits(OptionalStringToTF(v)) /\ fits(v)
  BY <1>2 DEF StringFromResponse, OptionalStringToTF, NotSet, Texts
<1> HIDE DEF fits
<1>8. /\ CommentFromServer(v, m) \in NotSet \cup Texts /\ StringFromResponse(v, m) \in NotSet \cup Texts
      /\ OptionalStringToTF(v) \in NotSet \cup Texts
  BY <1>2, <1>5 DEF NotSet
<1>9. /\ Sound(k, "comment", CommentFromServer(v, m)) /\ Sound(k, "comment", v)
      /\ Sound(k, "comment", StringFromResponse(v, m))
      /\ Sound(k, "comment", OptionalStringToTF(v))
  BY <1>4, <1>5
<1> QED
  BY <1>3, <1>6, <1>8, <1>7, <1>9

\* A comment that fits what was planned is shown as planned.
LEMMA CommentShown ==
  ASSUME NotSetIsNoValue, NEW k, NEW v \in Texts, NEW m, Sound(k, "comment", m),
         Fits(k, "comment", m, v), m # Unknown
  PROVE  /\ k \in {"tag", "topic"} => CommentFromServer(v, m) = m
         /\ k \in PlainMaps => StringFromResponse(v, m) = m
         /\ k = "job_template" => OptionalStringToTF(v) = m \/ EmptyOf("comment", m)
         /\ k \in {"catalog", "fileset", "policy"} => v = m \/ m = Null
  BY ValueAssumption DEF Sound, Proper, NotSetIsNoValue, NotSet, Fits, OnServer,
                         CommentFromServer, StringFromResponse, OptionalStringToTF, Texts,
                         EmptyOf, PlainMaps

\* A map whose keys are those planned or in state.
LEMMA ProjectedMerges ==
  ASSUME NEW k, NEW v, NEW m, Record(v), Record(m)
  PROVE  LET r == ProjectProperties(v, m)
         IN /\ Record(r) /\ DOMAIN r = DOMAIN m
            /\ \A x \in DOMAIN r \cap DOMAIN v : v[x] = r[x]
            /\ (\A x \in DOMAIN m \cap DOMAIN v : v[x] = m[x]) => r = m
  BY RecordsMade DEF ProjectProperties, Record

\* What a refresh shows of the properties of a fileset.
FilesetProperties(v, m) == IF m \in NotSet THEN ServerProperties(v, {ManagedKey})
                           ELSE ProjectProperties(v, m)

\* The maps of the kinds that project, and of those that show every property.
LEMMA MapMerges ==
  ASSUME NotSetIsNoValue, NEW k, NEW v, Record(v), NEW m, Sound(k, "props", m)
  PROVE  /\ k \in ProjectedKinds =>
              \A r \in {PropertiesToState(v, m), ReconcileStringMap(v, m),
                        MergePartitionProperties(v, m), MergeCatalogProperties(v, m, {ManagedKey}),
                        FilesetProperties(v, m)} :
                /\ Fits(k, "props", r, v)
                /\ Fits(k, "props", m, v) /\ m \notin NotSet => r = m
         /\ k \in ProjectedKinds \ HidingKinds =>
              \A r \in {PropertiesToState(v, m), ReconcileStringMap(v, m),
                        MergePartitionProperties(v, m)} : Sound(k, "props", r)
         /\ Sound(k, "props", MergeCatalogProperties(v, m, {ManagedKey}))
         /\ Sound(k, "props", FilesetProperties(v, m))
<1> DEFINE map == IF v = NoMap THEN Null ELSE v
           some == Only(v, DOMAIN v \ {ManagedKey})
           part == IF some = NoMap THEN Null ELSE some
           proj == ProjectProperties(v, m)
<1>1. /\ PropertiesToState(v, m) = (IF m \in NotSet THEN map ELSE proj)
      /\ ReconcileStringMap(v, m) = (IF m \in NotSet THEN v ELSE proj)
      /\ MergePartitionProperties(v, m) = (IF m \in NotSet THEN map ELSE proj)
      /\ MergeCatalogProperties(v, m, {ManagedKey}) \in
           IF m \in NotSet THEN {part, Null} ELSE {proj}
      /\ FilesetProperties(v, m) = (IF m \in NotSet THEN some ELSE proj)
  BY DEF PropertiesToState, ReconcileStringMap, MergePartitionProperties, FilesetProperties,
         ServerProperties, MergeCatalogProperties, MapToTF, NotSet
<1>2. m \notin NotSet => /\ Record(m) /\ (k \in HidingKinds => ManagedKey \notin DOMAIN m)
  BY DEF Sound, Proper
<1>3. Record(some) /\ DOMAIN some = DOMAIN v \ {ManagedKey} /\ \A x \in DOMAIN some : some[x] = v[x]
  BY DEF Only, Record
<1>4. m \notin NotSet => /\ Record(proj) /\ DOMAIN proj = DOMAIN m
                         /\ \A x \in DOMAIN proj \cap DOMAIN v : v[x] = proj[x]
                         /\ (\A x \in DOMAIN m \cap DOMAIN v : v[x] = m[x]) => proj = m
  BY <1>2, ProjectedMerges
<1>5. \A r : k \in ProjectedKinds =>
        (Fits(k, "props", r, v) <=>
           (r # Unknown /\ r # Null => \A x \in DOMAIN r \cap DOMAIN v : v[x] = r[x]))
  BY DEF Fits, ProjectedKinds, PartitionKinds, ExactKinds, PlainMaps
<1> HIDE DEF map, some, part, proj
<1>6. /\ \A r \in {v, Null} : k \notin HidingKinds => Sound(k, "props", r)
      /\ \A r \in {some, Null} : Sound(k, "props", r)
      /\ m \notin NotSet => Sound(k, "props", proj)
  BY <1>2, <1>3, <1>4 DEF Sound, Proper, NotSet
<1> QED
  BY <1>1, <1>3, <1>4, <1>5, <1>6 DEF map, part, NotSet

\* The attributes a refresh writes, kind by kind.
AttrsOf(k) == SchemaOf(k).attrs

\* The schemas of the kinds whose answers are merged.
LEMMA MergedSchemas ==
  /\ AttrsOf("catalog") = {"name", "comment", "props", "flag", "force"}
  /\ \A k \in {"schema", "topic", "model", "fileset", "tag", "view", "derived_view"} :
       AttrsOf(k) = {"name", "comment", "props"}
  /\ AttrsOf("policy") = {"name", "comment", "props", "flag"}
  /\ AttrsOf("job_template") = {"name", "comment", "content", "props"}
  /\ \A k \in PartitionKinds : AttrsOf(k) = {"name", "props"}
  /\ \A k \in {"user", "group", "idp_group"} : AttrsOf(k) = {"name", "members"}
  /\ AttrsOf("role") = {"name", "props", "members"}
  /\ AttrsOf("idp_user") = {"name", "secret", "members"}
  BY DEF AttrsOf, PartitionKinds, SchemaOf, CatalogSchema, SchemaSchema, TopicSchema, ModelSchema,
     FilesetSchema, TagSchema, PolicySchema, ViewSchema, DerivedViewSchema, JobTemplateSchema, PartitionSchema,
     UserSchema, GroupSchema, RoleSchema, IdpUserSchema, IdpGroupSchema

\* The schemas of what is attached to an object.
LEMMA AttachedSchemas ==
  /\ AttrsOf("owner") = {"name", "content"}
  /\ \A k \in StatisticsKinds : AttrsOf(k) = {"name", "props"}
  /\ \A k \in Attached : SchemaOf(k).computed = {}
  BY DEF AttrsOf, StatisticsKinds, Attached, SchemaOf, OwnerSchema, StatisticsSchema,
     PartitionStatisticsSchema

\* A refresh, attribute by attribute.
LEMMA ReadParts ==
  ASSUME NEW k \in MergedKinds, NEW v, v # Null, NEW m, DOMAIN m = AttrsOf(k), NEW managed
  PROVE  LET r == Refreshed(k, v, m, managed)
         IN /\ k \in {"catalog", "fileset", "policy"} => r.comment = v.comment
            /\ k \in {"tag", "topic"} => r.comment = CommentFromServer(v.comment, m.comment)
            /\ k \in PlainMaps => r.comment = StringFromResponse(v.comment, m.comment)
            /\ k = "job_template" => r.comment = OptionalStringToTF(v.comment)
            /\ k = "catalog" => r.props = MergeCatalogProperties(v.props, m.props, managed)
            /\ k \in {"tag", "topic"} => r.props = PropertiesToState(v.props, m.props)
            /\ k = "policy" => r.props = ReconcileStringMap(v.props, m.props)
            /\ k \in PartitionKinds => r.props = MergePartitionProperties(v.props, m.props)
            /\ k \in PlainMaps => r.props = MapFromResponse(v.props, m.props)
            /\ k = "fileset" /\ managed = {ManagedKey} =>
                 r.props = FilesetProperties(v.props, m.props)
            /\ k = "job_template" => r.props = MapToTF(v.props) /\ r.content = v.content
            /\ k = "role" => r.props = v.props
            /\ k \in {"user", "group", "role", "idp_user", "idp_group"} => r.members = v.members
            /\ k = "catalog" => r.flag = m.flag \/ m.flag = Null
            /\ k = "policy" => r.flag = v.flag
            /\ k = "catalog" => r.force = m.force \/ m.force = Null
            /\ k = "idp_user" => r.secret = m.secret
            /\ r.name = v.name
<1> USE MergedSchemas DEF Refreshed, IfThere, PartitionKinds, PlainMaps
<1>1. CASE k = "catalog"
  <2>1. Refreshed(k, v, m, managed) = CatalogState(v, m, managed)
    BY <1>1 DEF CatalogRead
  <2> HIDE DEF Refreshed
  <2> QED
    BY <1>1, <2>1 DEF CatalogState
<1>2. CASE k = "topic"
  BY <1>2 DEF TopicRead, TopicState
<1>3. CASE k = "tag"
  BY <1>3 DEF TagRead, TagState
<1>4. CASE k = "model"
  BY <1>4 DEF ModelRead, ModelState
<1>5. CASE k \in {"view", "derived_view"}
  BY <1>5 DEF ViewRead, ViewState
<1>6. CASE k = "policy"
  BY <1>6 DEF PolicyRead, PolicyState
<1>7. CASE k = "job_template"
  BY <1>7 DEF JobTemplateRead, JobTemplateState
<1>8. CASE k \in PartitionKinds
  BY <1>8 DEF PartitionRead, PartitionState
<1>9. CASE k = "user"
  BY <1>9 DEF UserRead, UserState
<1>10. CASE k = "group"
  BY <1>10 DEF GroupRead, GroupState
<1>11. CASE k = "role"
  BY <1>11 DEF RoleRead, RoleState
<1>12. CASE k = "idp_user"
  BY <1>12 DEF IdpUserRead, IdpUserState
<1>13. CASE k = "idp_group"
  BY <1>13 DEF IdpGroupRead, IdpGroupState
<1>14. CASE k = "schema"
  BY <1>14 DEF SchemaRead, SchemaState
<1>15. CASE k = "fileset"
  <2>1. Refreshed(k, v, m, managed) = FilesetState(v, m, TRUE, managed)
    BY <1>15 DEF FilesetRead
  <2> HIDE DEF Refreshed
  <2> QED
    BY <1>15, <2>1 DEF FilesetState, FilesetProperties
<1> QED
  BY <1>1, <1>2, <1>3, <1>4, <1>5, <1>6, <1>7, <1>8, <1>9, <1>10, <1>11, <1>12, <1>13, <1>14, <1>15
     DEF MergedKinds

\* A refresh leaves sound values that the object fits.
SoundAll(k, s) == \A a \in AttrsOf(k) \ {"name"} : Sound(k, a, s[a])
ProperAll(k, o) == \A a \in ObjectAttrs(k) : Proper(a, o[a])

\* A map shown as it is, or as not set, is sound.
LEMMA MapFromResponses ==
  ASSUME NEW k, k \notin HidingKinds, NEW v, Record(v), NEW m
  PROVE  /\ Sound(k, "props", MapFromResponse(v, m)) /\ Sound(k, "props", MapToTF(v))
         /\ Sound(k, "props", v)
  BY RecordsMade DEF Sound, Proper, MapFromResponse, MapToTF, NotSet

\* A refresh leaves sound values in state, and the object shows them.
LEMMA ReadFits ==
  ASSUME NotSetIsNoValue, NEW k \in MergedKinds, NEW v, v # Null, NEW m, DOMAIN m = AttrsOf(k),
         SoundAll(k, m), ProperAll(k, v)
  PROVE  LET r == Refreshed(k, v, m, {ManagedKey})
         IN SoundAll(k, r) /\ FitsAll(k, r, v)
<1> DEFINE r == Refreshed(k, v, m, {ManagedKey})
<1>1. ASSUME "comment" \in AttrsOf(k)
      PROVE  Sound(k, "comment", r["comment"]) /\ Fits(k, "comment", r["comment"], v["comment"])
  <2> DEFINE w == v["comment"]
             n == m["comment"]
             s == r["comment"]
  <2>1. w \in Texts /\ Sound(k, "comment", n)
    BY <1>1 DEF SoundAll, ProperAll, Proper, ObjectAttrs, AttrsOf
  <2>2. /\ k \in {"catalog", "fileset", "policy"} => s = w
        /\ k \in {"tag", "topic"} => s = CommentFromServer(w, n)
        /\ k \in PlainMaps => s = StringFromResponse(w, n)
        /\ k = "job_template" => s = OptionalStringToTF(w)
    BY ReadParts
  <2> HIDE DEF r, w, n, s
  <2>3. /\ Sound(k, "comment", CommentFromServer(w, n)) /\ Sound(k, "comment", w)
        /\ Sound(k, "comment", StringFromResponse(w, n))
        /\ Sound(k, "comment", OptionalStringToTF(w))
        /\ k \in {"tag", "topic"} => Fits(k, "comment", CommentFromServer(w, n), w)
        /\ Fits(k, "comment", StringFromResponse(w, n), w)
        /\ Fits(k, "comment", OptionalStringToTF(w), w) /\ Fits(k, "comment", w, w)
    BY <2>1, CommentMerges
  <2>4. Sound(k, "comment", s) /\ Fits(k, "comment", s, w)
    BY <2>2, <1>1, MergedSchemas, <2>3 DEF MergedKinds, PartitionKinds, PlainMaps
  <2> QED
    BY <2>4 DEF s, w
<1>2. ASSUME "props" \in AttrsOf(k)
      PROVE  Sound(k, "props", r["props"]) /\ Fits(k, "props", r["props"], v["props"])
  <2> DEFINE w == v["props"]
             n == m["props"]
             s == r["props"]
  <2>1. Record(w) /\ Sound(k, "props", n)
    BY <1>2 DEF SoundAll, ProperAll, Proper, ObjectAttrs, AttrsOf
  <2>2. /\ k = "catalog" => s = MergeCatalogProperties(w, n, {ManagedKey})
        /\ k \in {"tag", "topic"} => s = PropertiesToState(w, n)
        /\ k = "policy" => s = ReconcileStringMap(w, n)
        /\ k \in PartitionKinds => s = MergePartitionProperties(w, n)
        /\ k \in PlainMaps => s = MapFromResponse(w, n)
        /\ k = "fileset" => s = FilesetProperties(w, n)
        /\ k = "job_template" => s = MapToTF(w)
        /\ k = "role" => s = w
    BY ReadParts
  <2>3. k \in {"job_template", "role"} \cup ProjectedKinds \cup PlainMaps
    BY <1>2, MergedSchemas DEF MergedKinds, PartitionKinds, ProjectedKinds, PlainMaps
  <2> HIDE DEF r, w, n, s
  <2>4. CASE k \in ProjectedKinds
    BY <2>2, <2>4, <2>1, MapMerges DEF ProjectedKinds, HidingKinds, PartitionKinds, s, w
  <2>5. CASE k \in PlainMaps
    BY <2>1, <2>2, <2>5, MapFromResponses DEF HidingKinds, PlainMaps, MapFromResponse, AsMap,
                                              NotSet, NotSetIsNoValue, Fits, ProjectedKinds,
                                              PartitionKinds, s, w
  <2>6. CASE k = "job_template"
    BY <2>1, <2>2, <2>6, MapFromResponses DEF MapToTF, AsMap, NotSet, NotSetIsNoValue,
                                              HidingKinds, Fits, ProjectedKinds, PartitionKinds,
                                              s, w
  <2>7. CASE k = "role"
    BY <2>1, <2>2, <2>7, MapFromResponses DEF HidingKinds, Fits, ProjectedKinds, PartitionKinds,
                                              ExactKinds, PlainMaps, s, w
  <2> QED
    BY <2>3, <2>4, <2>5, <2>6, <2>7 DEF ProjectedKinds, s, w
<1>3. ASSUME "members" \in AttrsOf(k)
      PROVE  Sound(k, "members", r["members"]) /\ Fits(k, "members", r["members"], v["members"])
  <2>1. r["members"] = v["members"]
    BY <1>3, MergedSchemas, ReadParts DEF MergedKinds, PartitionKinds, PlainMaps
  <2> HIDE DEF r
  <2> QED
    BY <1>3, <2>1 DEF Sound, Proper, Fits, ProperAll, ObjectAttrs, AttrsOf
<1>4. ASSUME "content" \in AttrsOf(k)
      PROVE  Fits(k, "content", r["content"], v["content"])
  <2>1. r["content"] = v["content"]
    BY <1>4, MergedSchemas, ReadParts DEF MergedKinds, PartitionKinds, PlainMaps
  <2> HIDE DEF r
  <2> QED
    BY <2>1 DEF Fits
<1> HIDE DEF r
<1>5. \A a : a \notin {"comment", "props", "members"} => Sound(k, a, r[a])
  BY DEF Sound, Proper
<1>6. \A a : a \notin {"comment", "props", "members", "content"} => Fits(k, a, r[a], v[a])
  BY DEF Fits
<1>7. FitsAll(k, r, v)
  BY <1>1, <1>2, <1>3, <1>4, <1>6 DEF FitsAll, ObjectAttrs, AttrsOf
<1> QED
  BY <1>1, <1>2, <1>3, <1>5, <1>7 DEF r, SoundAll

\* What an apply writes differs from a refresh in what it keeps of the plan: the flag of a
\* policy, the properties of models and views, and everything of a schema and a fileset.
Keeps(k, a) == \/ k = "policy" /\ a = "flag"
               \/ k \in {"model", "view", "derived_view"} /\ a = "props"
               \/ k \in {"schema", "fileset"}
PlanOK(k, p) ==
  /\ SoundAll(k, p)
  /\ \A a \in SchemaOf(k).computed \cup ({"flag", "force"} \cap AttrsOf(k)) : p[a] # Null

\* Where no plan leaves a value out.
LEMMA ComputedAttributes ==
  /\ {"comment", "props"} \subseteq SchemaOf("catalog").computed
  /\ {"comment", "props"} \subseteq SchemaOf("fileset").computed
  /\ {"comment", "props"} \subseteq SchemaOf("policy").computed
  /\ {"comment", "props"} \subseteq SchemaOf("tag").computed
  /\ "props" \in SchemaOf("topic").computed
  /\ \A k \in PartitionKinds : "props" \in SchemaOf(k).computed
  /\ \A k \in {"user", "group", "role", "idp_user", "idp_group"} : "members" \in SchemaOf(k).computed
  /\ "props" \in SchemaOf("role").computed
  BY DEF PartitionKinds, SchemaOf, CatalogSchema, FilesetSchema, PolicySchema, TagSchema, TopicSchema,
     PartitionSchema, UserSchema, GroupSchema, RoleSchema, IdpUserSchema, IdpGroupSchema

\* What an apply writes, next to what a refresh would.
LEMMA AppliedParts ==
  ASSUME NEW k \in MergedKinds, NEW v, v # Null, NEW p, DOMAIN p = AttrsOf(k), NEW managed
  PROVE  LET r == Applied(k, v, p, managed)
             s == Refreshed(k, v, p, managed)
         IN \A a \in AttrsOf(k) :
              /\ r[a] = s[a] \/ (Keeps(k, a) /\ r[a] = p[a])
              /\ Keeps(k, a) => \/ r[a] = p[a]
                                \/ p[a] = Unknown /\ k # "policy"
                                \/ p[a] = Null /\ k = "fileset"
<1> USE DEF Keeps
<1>1. CASE k \notin {"model", "view", "derived_view", "policy", "schema", "fileset"}
  BY <1>1 DEF Applied, MergedKinds
<1>2. CASE k = "policy"
  BY <1>2, MergedSchemas DEF Applied, PolicyApplied, PolicyState, Refreshed, PolicyRead, IfThere
<1>3. CASE k = "model"
  <2>1. AttrsOf(k) = {"name", "comment", "props"}
    BY <1>3, MergedSchemas
  <2>2. /\ Applied(k, v, p, managed) = ModelState(v, p, FALSE)
        /\ Refreshed(k, v, p, managed) = ModelState(v, p, TRUE)
    BY <1>3 DEF Applied, Refreshed, ModelRead, IfThere
  <2> QED
    BY <1>3, <2>1, <2>2 DEF ModelState
<1>4. CASE k \in {"view", "derived_view"}
  BY <1>4, MergedSchemas DEF Applied, Refreshed, ViewRead, IfThere, ViewState
<1>5. CASE k = "schema"
  BY <1>5 DEF Applied, SchemaState
<1>6. CASE k = "fileset"
  <2>1. AttrsOf(k) = {"name", "comment", "props"}
    BY <1>6, MergedSchemas
  <2>2. /\ Applied(k, v, p, managed) = FilesetState(v, p, FALSE, managed)
        /\ Refreshed(k, v, p, managed) = FilesetState(v, p, TRUE, managed)
    BY <1>6 DEF Applied, Refreshed, FilesetRead, IfThere
  <2> DEFINE r == FilesetState(v, p, FALSE, managed)
             s == FilesetState(v, p, TRUE, managed)
  <2>3. /\ r["name"] = IF p["name"] \in NotSet THEN v.name ELSE p["name"]
        /\ r["comment"] = IF p["comment"] \in NotSet THEN v.comment ELSE p["comment"]
        /\ r["props"] = IF p["props"] \in NotSet THEN ServerProperties(v.props, managed) ELSE p["props"]
    BY <2>1 DEF FilesetState
  <2>4. /\ s["name"] = v.name /\ s["comment"] = v.comment
        /\ p["props"] \in NotSet => s["props"] = ServerProperties(v.props, managed)
    BY <2>1 DEF FilesetState
  <2> HIDE DEF r, s
  <2>5. \A a \in {"name", "comment", "props"} :
          r[a] = IF p[a] \in NotSet THEN s[a] ELSE p[a]
    BY <2>3, <2>4
  <2> QED
    BY <1>6, <2>1, <2>2, <2>5, ValueAssumption DEF NotSet, r, s
<1> QED
  BY <1>1, <1>2, <1>3, <1>4, <1>5, <1>6

\* The value p of a plan is found in state.
Written1(k, a, p, r) == p = Unknown \/ r = p \/ (k = "job_template" /\ EmptyOf(a, p))

\* An answer that shows what was planned is written into state as the plan.
LEMMA AppliedFits ==
  ASSUME NotSetIsNoValue, NEW k \in MergedKinds, NEW v, v # Null, NEW p, DOMAIN p = AttrsOf(k),
         PlanOK(k, p), ProperAll(k, v), FitsAll(k, p, v), p.name \in {v.name, Unknown}
  PROVE  LET r == Applied(k, v, p, {ManagedKey})
         IN SoundAll(k, r) /\ \A a \in AttrsOf(k) : Written1(k, a, p[a], r[a])
<1> DEFINE r == Applied(k, v, p, {ManagedKey})
           s == Refreshed(k, v, p, {ManagedKey})
<1>1. SoundAll(k, p)
  BY DEF PlanOK
<1>2. \A a \in AttrsOf(k) :
        /\ r[a] = s[a] \/ (Keeps(k, a) /\ r[a] = p[a])
        /\ Keeps(k, a) => \/ r[a] = p[a]
                          \/ p[a] = Unknown /\ k # "policy"
                          \/ p[a] = Null /\ k = "fileset"
  BY AppliedParts
<1>3. SoundAll(k, r)
  BY <1>1, ReadFits, <1>2 DEF SoundAll
<1>4. ASSUME "comment" \in AttrsOf(k)
      PROVE  Written1(k, "comment", p["comment"], s["comment"])
  <2> DEFINE w == v["comment"]
             n == p["comment"]
             t == s["comment"]
  <2>1. w \in Texts /\ Sound(k, "comment", n) /\ Fits(k, "comment", n, w)
    BY <1>1, <1>4 DEF SoundAll, ProperAll, Proper, FitsAll, ObjectAttrs, AttrsOf
  <2>2. /\ k \in {"catalog", "fileset", "policy"} => t = w
        /\ k \in {"tag", "topic"} => t = CommentFromServer(w, n)
        /\ k \in PlainMaps => t = StringFromResponse(w, n)
        /\ k = "job_template" => t = OptionalStringToTF(w)
    BY ReadParts
  <2>3. k \in {"catalog", "fileset", "policy"} => n # Null
    BY ComputedAttributes DEF PlanOK
  <2> HIDE DEF r, w, n, t
  <2>4. ASSUME n # Unknown
        PROVE  /\ k \in {"tag", "topic"} => CommentFromServer(w, n) = n
               /\ k \in PlainMaps => StringFromResponse(w, n) = n
               /\ k = "job_template" => OptionalStringToTF(w) = n \/ EmptyOf("comment", n)
               /\ k \in {"catalog", "fileset", "policy"} => w = n \/ n = Null
    BY <2>1, <2>4, CommentShown
  <2> QED
    BY <2>2, <1>4, MergedSchemas, <2>3, <2>4 DEF Written1, n, t, MergedKinds, PartitionKinds,
                                                 PlainMaps
<1>5. ASSUME "props" \in AttrsOf(k), k \notin PlainMaps
      PROVE  Written1(k, "props", p["props"], s["props"])
  <2> DEFINE w == v["props"]
             n == p["props"]
             t == s["props"]
  <2>1. Record(w) /\ Sound(k, "props", n) /\ Fits(k, "props", n, w)
    BY <1>1, <1>5 DEF SoundAll, ProperAll, Proper, FitsAll, ObjectAttrs, AttrsOf
  <2>2. /\ k = "catalog" => t = MergeCatalogProperties(w, n, {ManagedKey})
        /\ k \in {"tag", "topic"} => t = PropertiesToState(w, n)
        /\ k = "policy" => t = ReconcileStringMap(w, n)
        /\ k \in PartitionKinds => t = MergePartitionProperties(w, n)
        /\ k = "fileset" => t = FilesetProperties(w, n)
        /\ k = "job_template" => t = MapToTF(w)
        /\ k = "role" => t = w
    BY ReadParts
  <2>3. k \in ProjectedKinds => n # Null
    BY ComputedAttributes DEF PlanOK, ProjectedKinds, PartitionKinds
  <2> HIDE DEF r, w, n, t
  <2>4. CASE k \in ProjectedKinds
    BY <2>2, <2>4, <2>1, MapMerges, <2>3 DEF ProjectedKinds, NotSet, Written1, n, t
  <2>5. CASE k = "job_template"
    BY <2>1, <2>5, <2>2 DEF Fits, ExactKinds, MapToTF, AsMap, NotSet, Written1, EmptyOf, n, t
  <2>6. CASE k = "role"
    BY <2>1, <2>2, <2>6 DEF Fits, Written1, n, t
  <2> QED
    BY <1>5, MergedSchemas, <2>4, <2>5, <2>6 DEF ProjectedKinds, PartitionKinds, MergedKinds,
                                                 PlainMaps
<1>6. ASSUME "members" \in AttrsOf(k)
      PROVE  Written1(k, "members", p["members"], s["members"])
  <2>1. s["members"] = v["members"] /\ Fits(k, "members", p["members"], v["members"])
    BY <1>6, MergedSchemas, ReadParts DEF FitsAll, ObjectAttrs, AttrsOf, MergedKinds,
                                          PartitionKinds
  <2> HIDE DEF s
  <2> QED
    BY <2>1 DEF Fits, Written1
<1>7. ASSUME "content" \in AttrsOf(k)
      PROVE  Written1(k, "content", p["content"], s["content"])
  <2>1. k = "job_template"
    BY <1>7, MergedSchemas DEF MergedKinds, PartitionKinds
  <2>2. s["content"] = v["content"] /\ Fits(k, "content", p["content"], v["content"])
    BY <1>7, <2>1, ReadParts DEF FitsAll, ObjectAttrs, AttrsOf
  <2> HIDE DEF s
  <2> QED
    BY <2>2 DEF Fits, Written1
<1>8. Written1(k, "name", p["name"], s["name"])
  <2>1. s["name"] = v["name"]
    BY ReadParts
  <2> HIDE DEF s
  <2> QED
    BY <2>1 DEF Written1
<1>9. /\ k = "catalog" => s.flag = p.flag \/ p.flag = Null
      /\ k = "catalog" => s.force = p.force \/ p.force = Null
      /\ k = "idp_user" => s.secret = p.secret
  BY ReadParts
<1>10. k \in {"catalog", "idp_user"} => \A a : ~Keeps(k, a)
  BY DEF Keeps
<1>11. ASSUME NEW a \in {"flag", "force", "secret"}, a \in AttrsOf(k)
       PROVE  Written1(k, a, p[a], r[a])
  <2>1. k \in {"catalog", "policy", "idp_user"} /\ (k = "policy" => a = "flag")
        /\ (k = "catalog" => a # "secret") /\ (k = "idp_user" => a = "secret")
    BY <1>11, MergedSchemas DEF MergedKinds, PartitionKinds
  <2>2. CASE k = "policy"
    <3> HIDE DEF r, s
    <3> QED
      BY <2>1, <2>2, <1>2, <1>11 DEF Written1, Keeps
  <2>3. CASE k = "catalog"
    <3>1. r[a] = s[a]
      BY <1>2, <1>11, <1>10, <2>3
    <3> HIDE DEF r, s
    <3> QED
      BY <1>9, <2>1, <2>3, <1>11, <3>1 DEF Written1, PlanOK
  <2>4. CASE k = "idp_user"
    <3>1. r[a] = s[a]
      BY <1>2, <1>11, <1>10, <2>4
    <3> HIDE DEF r, s
    <3> QED
      BY <1>9, <2>1, <2>4, <3>1 DEF Written1
  <2> QED
    BY <2>1, <2>2, <2>3, <2>4
<1>12. AttrsOf(k) \subseteq {"name", "comment", "props", "members", "content", "flag", "force", "secret"}
  BY MergedSchemas DEF MergedKinds, PartitionKinds
<1>13. "props" \in AttrsOf(k) => Written1(k, "props", p["props"], r["props"])
  <2> HIDE DEF r, s
  <2>1. CASE k \in PlainMaps
    BY <2>1, <1>2 DEF Keeps, PlainMaps, Written1
  <2>2. CASE k \notin PlainMaps
    BY <1>2, <1>5, <2>2 DEF Written1
  <2> QED
    BY <2>1, <2>2
<1> HIDE DEF r, s
<1>14. \A a \in AttrsOf(k) : Written1(k, a, p[a], r[a])
  <2> TAKE a \in AttrsOf(k)
  <2>1. CASE a \in {"name", "comment", "members", "content"}
    BY <1>2, <1>4, <1>6, <1>7, <1>8, <2>1 DEF Written1
  <2>2. CASE a \in {"flag", "force", "secret"}
    BY <1>11, <2>2
  <2> QED
    BY <1>12, <1>13, <2>1, <2>2
<1> QED
  BY <1>3, <1>14 DEF r

\* An update that has no answer to show writes what was planned, and keeps the rest.
LEMMA KeptFits ==
  ASSUME NEW k \in KeptKinds \cap MergedKinds, NEW p, NEW s,
         Record(p), DOMAIN p = AttrsOf(k), DOMAIN s = AttrsOf(k), PlanOK(k, p), SoundAll(k, s),
         k \in {"idp_user", "idp_group"} => p.name = s.name,
         k = "idp_user" => p.members \in {Unknown, s.members}
  PROVE  LET r == Kept(k, p, s)
         IN SoundAll(k, r) /\ \A a \in AttrsOf(k) : Written1(k, a, p[a], r[a])
<1> DEFINE r == Kept(k, p, s)
<1>1. \A a \in AttrsOf(k) : /\ p[a] = Unknown \/ r[a] = p[a]
                            /\ r[a] \in {p[a], s[a], Null} \/ (a = "members" /\ r[a] = {})
  <2> USE MergedSchemas DEF Kept
  <2>1. CASE k = "catalog"
    BY <2>1 DEF CatalogKept
  <2>2. CASE k = "policy"
    BY <2>2 DEF PolicyKept, Previous
  <2>3. CASE k \in {"schema", "job_template"}
    BY <2>3
  <2>4. CASE k = "fileset"
    BY <2>4 DEF FilesetKept, Previous
  <2>5. CASE k = "user"
    BY <2>5 DEF UserKept, Previous
  <2>6. CASE k = "group"
    BY <2>6 DEF GroupKept, Previous
  <2>7. CASE k = "idp_user"
    BY <2>7 DEF IdpUserKept
  <2>8. CASE k = "idp_group"
    <3>1. r = [s EXCEPT !.members = AsSet(Previous(p.members, s.members))]
      BY <2>8 DEF IdpGroupKept
    <3> HIDE DEF r
    <3> QED
      BY <2>8, <3>1, ComputedAttributes DEF AsSet, Previous, NotSet, PlanOK
  <2> QED
    BY <2>1, <2>2, <2>3, <2>5, <2>6, <2>7, <2>8, <2>4 DEF KeptKinds, MergedKinds
<1> HIDE DEF r
<1>2. \A a \in AttrsOf(k) \ {"name"} : Sound(k, a, Null) /\ Sound(k, "members", {})
  BY DEF Sound, Proper, NotSet
<1> QED
  BY <1>1, <1>2 DEF Written1, r, SoundAll, PlanOK

-----------------------------------------------------------------------------
(* What requests make of their object.                                     *)

\* Lists of at most three requests, one after the other.
LEMMA AheadOfLists ==
  ASSUME NEW k, NEW o, NEW a, NEW b, NEW c
  PROVE  /\ Ahead(k, <<>>, o) = o /\ Ahead(k, <<a>>, o) = Result(k, a, o)
         /\ Ahead(k, <<a, b>>, o) = Result(k, b, Result(k, a, o))
         /\ Ahead(k, <<a, b, c>>, o) = Result(k, c, Result(k, b, Result(k, a, o)))
  BY DEF Ahead

\* Carrying out the first request and then the rest.
LEMMA AheadOfTail ==
  ASSUME NEW k, NEW o, NEW l, Listing(l), l # <<>>, Len(l) <= 3
  PROVE  /\ Len(Tail(l)) <= 3
         /\ Ahead(k, l, o) = Ahead(k, Tail(l), Result(k, Head(l), o))
<1> DEFINE t == Tail(l)
<1>1. PICK S : l \in Seq(S)
  BY DEF Listing
<1>2. Len(l) \in Nat /\ Len(l) # 0 /\ Head(l) = l[1]
  BY <1>1
<1>3. /\ t \in Seq(S) /\ Len(t) = Len(l) - 1
      /\ \A i \in 1 .. Len(t) : t[i] = l[i + 1]
  BY <1>1, <1>2
<1>4. Len(l) \in 1 .. 3
  <2>1. \A n \in Nat : n # 0 /\ n <= 3 => n \in 1 .. 3
    OBVIOUS
  <2> QED
    BY <1>2, <2>1
<1> HIDE DEF t
<1>5. Len(t) <= 3
  BY <1>3, <1>4
<1> QED
  BY <1>5, <1>2, <1>4, <1>3 DEF t, Ahead

\* A planned value that is sent as it is.
LEMMA SentFits ==
  ASSUME NEW k \in MergedKinds, NEW a \in ObjectAttrs(k), NEW p, PlanOK(k, p)
  PROVE  Fits(k, a, p[a], OnServer(a, p[a]))
<1> SUFFICES ASSUME p[a] # Unknown
             PROVE  Fits(k, a, p[a], OnServer(a, p[a]))
  BY DEF Fits
<1>1. CASE a = "comment"
  BY <1>1 DEF Fits
<1>2. CASE a = "members"
  BY <1>2, MergedSchemas, ComputedAttributes DEF MergedKinds, PartitionKinds, ObjectAttrs,
                                                 AttrsOf, PlanOK, OnServer, AsSet, NotSet, Fits
<1>3. CASE a = "props"
  BY ComputedAttributes, <1>3 DEF OnServer, PlanOK, AsMap, NotSet, Fits, ExactKinds, PlainMaps
<1>4. CASE a \notin {"comment", "members", "props"}
  BY <1>4 DEF OnServer, Fits
<1> QED
  BY <1>1, <1>2, <1>3, <1>4

\* What an update sends, or leaves as it is.
LEMMA LeftFits ==
  ASSUME NEW k \in MergedKinds, NEW a \in ObjectAttrs(k), NEW p, PlanOK(k, p), NEW s, NEW v, NEW x,
         Fits(k, a, s[a], v),
         \/ x = OnServer(a, p[a])
         \/ x = v /\ p[a] \in {Unknown, s[a]}
  PROVE  Fits(k, a, p[a], x)
<1>1. CASE x = OnServer(a, p[a])
  BY <1>1, SentFits
<1>2. CASE x = v /\ p[a] = s[a]
  BY <1>2
<1>3. CASE p[a] = Unknown
  BY <1>3 DEF Fits
<1> QED
  BY <1>1, <1>2, <1>3

\* An object as the server has it, and a request that leaves it so.
ObjectOK(k, o) == DOMAIN o = ObjectAttrs(k) /\ ProperAll(k, o)
OnlyFlag(q) == /\ DOMAIN q.changes.plain \subseteq {"flag"}
               /\ q.changes.set = NoMap /\ q.changes.drop = {}
               /\ q.changes.add = {} /\ q.changes.remove = {}
RequestProper(k, q) ==
  /\ DOMAIN Nothing \subseteq DOMAIN q.changes
  /\ \A a \in DOMAIN q.changes.plain : Proper(a, q.changes.plain[a])
  /\ q.changes.add \subseteq Members
  /\ q.verb = "post" => DOMAIN q.changes.plain = ObjectAttrs(k)
  /\ q.verb = "patch" => OnlyFlag(q)
  /\ q.verb # "list"

\* A part of the changes of a request.
PartOf(c, f) == IF f \in DOMAIN c THEN c[f] ELSE Nothing[f]

\* What a request carries is what it was given, and nothing else.
LEMMA PartsOfRequest ==
  ASSUME NEW v, NEW n, NEW c, NEW u
  PROVE  LET q == AsksOrElse(v, n, c, u)
         IN /\ DOMAIN Nothing \subseteq DOMAIN q.changes
            /\ \A f \in DOMAIN Nothing : q.changes[f] = PartOf(c, f)
<1> HIDE DEF AsksOrElse
<1> QED
  BY DEF Overlay, PartOf, AsksOrElse

\* What a request carries that was given nothing.
LEMMA PartsOfNothing ==
  /\ DOMAIN Nothing = {"plain", "set", "drop", "add", "remove", "ops"}
  /\ Nothing["plain"] = NoMap /\ Nothing["set"] = NoMap /\ Nothing["drop"] = {}
  /\ Nothing["add"] = {} /\ Nothing["remove"] = {}
  BY DEF Nothing

\* Objects without lists; the server adds to catalogs, filesets and partitions only.
LEMMA MergedObjects ==
  ASSUME NEW k \in MergedKinds \cup Attached
  PROVE  /\ {"name", "columns", "definitions"} \cap ObjectAttrs(k) = {}
         /\ k \in ManagedKinds => k \in HidingKinds \cup PartitionKinds
  BY MergedSchemas, AttachedSchemas, ManagedAssumption DEF MergedKinds, PartitionKinds, Attached,
                                                           ObjectAttrs, AttrsOf, HidingKinds,
                                                           StatisticsKinds

\* What the server adds of its own.
LEMMA AddedParts ==
  ASSUME NEW k, NEW o
  PROVE  LET r == Added(k, o)
         IN /\ DOMAIN r = DOMAIN o
            /\ \A a \in DOMAIN o : a # "props" \/ k \notin ManagedKinds => r[a] = o[a]
            /\ "props" \in DOMAIN o => /\ DOMAIN o["props"] \subseteq DOMAIN r["props"]
                                       /\ DOMAIN r["props"] \subseteq DOMAIN o["props"] \cup {ManagedKey}
                                       /\ \A x \in DOMAIN o["props"] : r["props"][x] = o["props"][x]
                                       /\ Record(o["props"]) => Record(r["props"])
<1> DEFINE g == [x \in {ManagedKey} |-> "managed"]
           r == Added(k, o)
<1>1. CASE k \in ManagedKinds /\ "props" \in DOMAIN o
  <2> DEFINE w == Overlay(o["props"], g)
  <2>1. DOMAIN g = {ManagedKey}
    OBVIOUS
  <2>2. r = [o EXCEPT !["props"] = w]
    BY <1>1 DEF Added
  <2> HIDE DEF g, r
  <2>3. /\ Record(w) /\ DOMAIN w = DOMAIN o["props"] \cup {ManagedKey}
        /\ \A x \in DOMAIN o["props"] : w[x] = o["props"][x]
    BY <2>1 DEF Overlay, Record
  <2> HIDE DEF w
  <2>4. DOMAIN r = DOMAIN o /\ r["props"] = w /\ \A a \in DOMAIN o : a # "props" => r[a] = o[a]
    BY <1>1, <2>2
  <2> QED
    BY <1>1, <2>3, <2>4 DEF r
<1>2. CASE ~(k \in ManagedKinds /\ "props" \in DOMAIN o)
  BY <1>2 DEF Added
<1> QED
  BY <1>1, <1>2

\* What a PUT or a PATCH makes of each attribute.
Old(o, c, a) == IF a \in DOMAIN c.plain THEN c.plain[a] ELSE o[a]
ChangedAs(o, c, d) ==
  /\ DOMAIN d = DOMAIN o
  /\ \A a \in DOMAIN o : a \notin {"props", "members"} => d[a] = Old(o, c, a)
  /\ "props" \in DOMAIN o =>
       d["props"] = Overlay(c.set, Only(Old(o, c, "props"), DOMAIN Old(o, c, "props") \ c.drop))
  /\ "members" \in DOMAIN o => d["members"] = (Old(o, c, "members") \ c.remove) \cup c.add

\* What a request makes of each attribute of an object.
LEMMA ChangedParts ==
  ASSUME NEW k \in MergedKinds \cup Attached, NEW o, DOMAIN o = ObjectAttrs(k),
         NEW c, DOMAIN Nothing \subseteq DOMAIN c
  PROVE  ChangedAs(o, c, Changed(o, Renamed(c)))
<1> DEFINE e == Renamed(c)
           d == Changed(o, e)
           new(a) == IF a \in DOMAIN e.plain THEN e.plain[a] ELSE o[a]
<1>1. /\ e.plain = Only(c.plain, DOMAIN c.plain \ {"name"})
      /\ e.set = c.set /\ e.drop = c.drop /\ e.add = c.add /\ e.remove = c.remove
  BY PartsOfNothing DEF Renamed
<1>2. \A a \in DOMAIN o : a \notin {"name", "columns", "definitions"}
  BY MergedObjects
<1> HIDE DEF e
<1>3. \A a \in DOMAIN o : new(a) = Old(o, c, a)
  BY <1>1, <1>2 DEF Only, Old
<1>4. /\ DOMAIN d = DOMAIN o
      /\ \A a \in DOMAIN o : a \notin {"props", "members"} => d[a] = new(a)
  BY <1>2 DEF Changed
<1>5. "props" \in DOMAIN o =>
        d["props"] = Overlay(e.set, Only(new("props"), DOMAIN new("props") \ e.drop))
  BY DEF Changed
<1>6. "members" \in DOMAIN o => d["members"] = (new("members") \ e.remove) \cup e.add
  BY DEF Changed
<1> HIDE DEF d, new
<1>7. ChangedAs(o, c, d)
  BY <1>1, <1>3, <1>4, <1>5, <1>6 DEF ChangedAs
<1> QED
  BY <1>7 DEF d, e

\* What the server adds is not planned, and does not matter.
LEMMA AddedFits ==
  ASSUME NEW k \in MergedKinds, NEW o, DOMAIN o = ObjectAttrs(k), NEW a \in ObjectAttrs(k), NEW p,
         a = "props" /\ k \in ManagedKinds /\ p \notin NotSet =>
           ManagedKey \notin DOMAIN p \ DOMAIN o["props"]
  PROVE  Fits(k, a, p, Added(k, o)[a]) <=> Fits(k, a, p, o[a])
<1> DEFINE r == Added(k, o)
<1>1. /\ \A b \in DOMAIN o : b # "props" \/ k \notin ManagedKinds => r[b] = o[b]
      /\ "props" \in DOMAIN o => /\ DOMAIN o["props"] \subseteq DOMAIN r["props"]
                                 /\ DOMAIN r["props"] \subseteq DOMAIN o["props"] \cup {ManagedKey}
                                 /\ \A x \in DOMAIN o["props"] : r["props"][x] = o["props"][x]
  BY AddedParts
<1> HIDE DEF r
<1>2. CASE a # "props" \/ k \notin ManagedKinds
  BY <1>1, <1>2 DEF r
<1>3. CASE a = "props" /\ k \in ManagedKinds
  <2> DEFINE v == o["props"]
             w == r["props"]
             fits(x) == \A y \in DOMAIN p \cap DOMAIN x : x[y] = p[y]
  <2>1. \A x : Fits(k, "props", p, x) <=> (p # Unknown /\ p # Null => fits(x))
    BY <1>3, MergedObjects DEF Fits, ProjectedKinds, PartitionKinds, HidingKinds, ExactKinds,
                               PlainMaps
  <2>2. /\ DOMAIN v \subseteq DOMAIN w /\ DOMAIN w \subseteq DOMAIN v \cup {ManagedKey}
        /\ \A x \in DOMAIN v : w[x] = v[x]
    BY <1>1, <1>3
  <2>3. p # Unknown /\ p # Null => DOMAIN p \cap DOMAIN w \subseteq DOMAIN v
    BY <1>3, <2>2 DEF NotSet
  <2> HIDE DEF v, w
  <2>4. p # Unknown /\ p # Null => (fits(v) <=> fits(w))
    BY <2>2, <2>3
  <2> HIDE DEF fits
  <2>5. Fits(k, "props", p, w) <=> Fits(k, "props", p, v)
    BY <2>1, <2>4
  <2> QED
    BY <1>3, <2>5 DEF v, w, r
<1> QED
  BY <1>2, <1>3

\* A request that is proper leaves an object as the server has it.
LEMMA ResultOK ==
  ASSUME NEW k \in MergedKinds, NEW o, NEW q, RequestProper(k, q), ObjectOK(k, o) \/ q.verb = "post"
  PROVE  ObjectOK(k, Result(k, q, o))
<1>1. ASSUME NEW d, ObjectOK(k, d)
      PROVE  ObjectOK(k, Added(k, d))
  <2> DEFINE r == Added(k, d)
  <2> HIDE DEF r
  <2> QED
    BY <1>1, AddedParts DEF r, ObjectOK, ProperAll, Proper
<1>2. CASE q.verb = "get"
  BY <1>2 DEF Result
<1>3. CASE q.verb = "post"
  BY <1>3, <1>1 DEF RequestProper, ObjectOK, ProperAll, Result
<1>4. CASE q.verb \notin {"get", "post"}
  <2> DEFINE c == q.changes
             d == Changed(o, Renamed(c))
             old(a) == Old(o, c, a)
  <2>1. DOMAIN o = ObjectAttrs(k) /\ \A a \in DOMAIN o : Proper(a, o[a])
    BY <1>4 DEF ObjectOK, ProperAll
  <2>2. /\ DOMAIN Nothing \subseteq DOMAIN c /\ c.add \subseteq Members
        /\ \A a \in DOMAIN c.plain : Proper(a, c.plain[a])
    BY DEF RequestProper
  <2> HIDE DEF c
  <2>3. \A a \in DOMAIN o : Proper(a, old(a))
    BY <2>1, <2>2 DEF Old
  <2>4. /\ DOMAIN d = DOMAIN o
        /\ \A a \in DOMAIN o : a \notin {"props", "members"} => d[a] = old(a)
        /\ "props" \in DOMAIN o =>
                 d["props"] = Overlay(c.set, Only(old("props"), DOMAIN old("props") \ c.drop))
        /\ "members" \in DOMAIN o => d["members"] = (old("members") \ c.remove) \cup c.add
    BY <2>1, <2>2, ChangedParts DEF ChangedAs
  <2> HIDE DEF d, old
  <2>5. ObjectOK(k, d)
    BY <2>1, <2>3, <2>4, <2>2 DEF ObjectOK, ProperAll, Proper, Record, Overlay
  <2> QED
    BY <1>1, <1>4, <2>5 DEF Result, d, c
<1> QED
  BY <1>2, <1>3, <1>4

\* A request that changes nothing but the flag changes nothing that the state shows.
LEMMA FlagFits ==
  ASSUME NEW k \in MergedKinds, k \notin PartitionKinds, NEW o, ObjectOK(k, o), NEW q,
         DOMAIN Nothing \subseteq DOMAIN q.changes, OnlyFlag(q), q.verb \notin {"get", "post"},
         NEW p, SoundAll(k, p)
  PROVE  FitsAll(k, p, Result(k, q, o)) <=> FitsAll(k, p, o)
<1> DEFINE c == q.changes
           d == Changed(o, Renamed(c))
           old(a) == Old(o, c, a)
<1>1. DOMAIN o = ObjectAttrs(k)
  BY DEF ObjectOK
<1>2. \A a \in DOMAIN o : Proper(a, o[a])
  BY DEF ObjectOK, ProperAll
<1>3. /\ DOMAIN c.plain \subseteq {"flag"}
      /\ c.set = NoMap /\ c.drop = {} /\ c.add = {} /\ c.remove = {}
  BY DEF OnlyFlag
<1>4. Result(k, q, o) = Added(k, d)
  BY DEF Result
<1>4a. DOMAIN Nothing \subseteq DOMAIN c
  OBVIOUS
<1> HIDE DEF c
<1>5. \A a \in DOMAIN o : a # "flag" => old(a) = o[a]
  BY <1>3 DEF Old
<1>6. /\ DOMAIN d = DOMAIN o
      /\ \A a \in DOMAIN o : a \notin {"props", "members"} => d[a] = old(a)
      /\ "props" \in DOMAIN o =>
               d["props"] = Overlay(c.set, Only(old("props"), DOMAIN old("props") \ c.drop))
      /\ "members" \in DOMAIN o => d["members"] = (old("members") \ c.remove) \cup c.add
  BY <1>1, <1>4a, ChangedParts DEF ChangedAs
<1> HIDE DEF d, old
<1>7. "props" \in DOMAIN o => d["props"] = o["props"]
  <2> SUFFICES ASSUME "props" \in DOMAIN o
               PROVE  d["props"] = o["props"]
    OBVIOUS
  <2> DEFINE w == o["props"]
  <2> HIDE DEF w
  <2>1. Overlay(NoMap, Only(w, DOMAIN w)) = [x \in DOMAIN w |-> w[x]]
    BY DEF Overlay, Only, NoMap
  <2> QED
    BY <1>2, <1>3, <1>5, <1>6, <2>1 DEF Record, w, Proper
<1>8. \A a \in DOMAIN o : a # "flag" => d[a] = o[a]
  BY <1>5, <1>6, <1>3, <1>7
<1>9. ASSUME NEW a \in ObjectAttrs(k)
      PROVE  Fits(k, a, p[a], Added(k, d)[a]) <=> Fits(k, a, p[a], o[a])
  <2>1. Fits(k, a, p[a], Added(k, d)[a]) <=> Fits(k, a, p[a], d[a])
    BY <1>1, <1>6, MergedObjects, AddedFits DEF ObjectAttrs, AttrsOf, SoundAll, Sound
  <2> QED
    BY <1>1, <1>8, <2>1 DEF Fits
<1> QED
  BY <1>4, <1>9 DEF FitsAll

\* What a PUT has to say about an attribute to take the object from the state w to the
\* plan v.
SentOrSame(a, c, v, w) == \/ a \in DOMAIN c.plain /\ c.plain[a] = OnServer(a, v)
                          \/ a \notin DOMAIN c.plain /\ v = w
PlainOnly(c) == c.set = NoMap /\ c.drop = {} /\ c.add = {} /\ c.remove = {}
SetAndDrop(c, v, w) ==
  \/ v = w /\ c.set = NoMap /\ c.drop = {}
  \/ /\ c.set = Only(AsMap(v), {x \in DOMAIN AsMap(v) : \/ x \notin DOMAIN AsMap(w)
                                                       \/ AsMap(w)[x] # AsMap(v)[x]})
     /\ c.drop = DOMAIN AsMap(w) \ DOMAIN AsMap(v)
NotShown(a) == a \in {"flag", "secret"}
Carries(k, a, c, v, w) ==
  \/ v = Unknown \/ NotShown(a)
  \/ SentOrSame(a, c, v, w) /\ (PlainOnly(c) \/ a \notin {"props", "members"})
  \/ /\ a = "props" /\ k \in ProjectedKinds \cup PlainMaps /\ "props" \notin DOMAIN c.plain
     /\ SetAndDrop(c, v, w)

\* The properties that are new or changed are set, those that are gone are dropped.
LEMMA SetAndDropFit ==
  ASSUME NEW k \in ProjectedKinds, NEW v, v \notin NotSet, NEW w, NEW o, Fits(k, "props", w, o),
         w # Unknown
  PROVE  LET old == AsMap(w)
             r == Overlay(Only(v, {x \in DOMAIN v : x \notin DOMAIN old \/ old[x] # v[x]}),
                          Only(o, DOMAIN o \ (DOMAIN old \ DOMAIN v)))
         IN Fits(k, "props", v, r)
<1> DEFINE old == AsMap(w)
           S == {x \in DOMAIN v : x \notin DOMAIN old \/ old[x] # v[x]}
           r == Overlay(Only(v, S), Only(o, DOMAIN o \ (DOMAIN old \ DOMAIN v)))
<1>1. \A x \in DOMAIN old \cap DOMAIN o : o[x] = old[x]
  BY DEF AsMap, NotSet, NoMap, Fits
<1> HIDE DEF old
<1>2. S \subseteq DOMAIN v /\ \A x \in DOMAIN v \ S : x \in DOMAIN old /\ old[x] = v[x]
  OBVIOUS
<1> HIDE DEF S
<1>3. /\ \A x \in S : r[x] = v[x]
      /\ \A x \in DOMAIN r \ S : x \in DOMAIN o /\ r[x] = o[x]
  BY <1>2 DEF Overlay, Only
<1> HIDE DEF r
<1>4. \A x \in DOMAIN v \cap DOMAIN r : r[x] = v[x]
  BY <1>1, <1>2, <1>3
<1>5. Fits(k, "props", v, r)
  BY <1>4 DEF Fits, ProjectedKinds, PartitionKinds, ExactKinds, PlainMaps
<1> QED
  BY <1>5 DEF r, S, old

\* When the state has every property of the object, so has the plan then.
LEMMA SetAndDropExact ==
  ASSUME NEW v, Record(v), NEW o, Record(o)
  PROVE  Overlay(Only(v, {x \in DOMAIN v : x \notin DOMAIN o \/ o[x] # v[x]}),
                 Only(o, DOMAIN o \ (DOMAIN o \ DOMAIN v))) = v
<1> DEFINE S == {x \in DOMAIN v : x \notin DOMAIN o \/ o[x] # v[x]}
           r == Overlay(Only(v, S), Only(o, DOMAIN o \ (DOMAIN o \ DOMAIN v)))
<1>1. S \subseteq DOMAIN v /\ \A x \in DOMAIN v \ S : x \in DOMAIN o /\ o[x] = v[x]
  OBVIOUS
<1> HIDE DEF S
<1>2. /\ Record(r) /\ DOMAIN r = S \cup (DOMAIN o \cap DOMAIN v)
      /\ \A x \in S : r[x] = v[x]
      /\ \A x \in DOMAIN r \ S : r[x] = o[x]
  BY <1>1 DEF Overlay, Only, Record
<1> HIDE DEF r
<1>3. DOMAIN r = DOMAIN v
  BY <1>1, <1>2
<1>4. \A x \in DOMAIN v : r[x] = v[x]
  BY <1>1, <1>2, <1>3
<1>5. r = v
  BY <1>2, <1>3, <1>4 DEF Record
<1> QED
  BY <1>5 DEF r, S

\* A PUT that carries every difference takes the object from the state to the plan.
LEMMA PutFits ==
  ASSUME NEW k \in MergedKinds, k \notin PartitionKinds, NEW p, PlanOK(k, p), NEW s,
         NEW o, ObjectOK(k, o), FitsAll(k, s, o), NEW q, q.verb = "put",
         DOMAIN Nothing \subseteq DOMAIN q.changes,
         "props" \in ObjectAttrs(k) => s["props"] # Unknown,
         \A a \in ObjectAttrs(k) : Carries(k, a, q.changes, p[a], s[a])
  PROVE  FitsAll(k, p, Result(k, q, o))
<1> DEFINE c == q.changes
           d == Changed(o, Renamed(c))
<1>1. DOMAIN o = ObjectAttrs(k)
  BY DEF ObjectOK
<1>2. \A a \in DOMAIN o : Proper(a, o[a])
  BY DEF ObjectOK, ProperAll
<1>3. Result(k, q, o) = Added(k, d)
  BY DEF Result
<1>4. DOMAIN Nothing \subseteq DOMAIN c /\ \A a \in ObjectAttrs(k) : Carries(k, a, c, p[a], s[a])
  OBVIOUS
<1> HIDE DEF c
<1>5. ChangedAs(o, c, d)
  BY <1>1, <1>4, ChangedParts
<1> HIDE DEF d
<1>6. SoundAll(k, p)
  BY DEF PlanOK
<1>7. ASSUME NEW a \in ObjectAttrs(k)
      PROVE  Fits(k, a, p[a], d[a])
  <2> DEFINE v == p[a]
             w == s[a]
  <2>1. Carries(k, a, c, v, w) /\ Fits(k, a, w, o[a])
    BY <1>4 DEF FitsAll
  <2>2. ASSUME v = Unknown \/ NotShown(a)
        PROVE  Fits(k, a, v, d[a])
    <3> HIDE DEF v, w
    <3> QED
      BY <2>2 DEF Fits, NotShown
  <2>3. ASSUME SentOrSame(a, c, v, w)
        PROVE  Fits(k, a, v, Old(o, c, a))
    BY <2>3, <2>1, LeftFits DEF Old, SentOrSame
  <2>4. ASSUME SentOrSame(a, c, v, w), PlainOnly(c), a = "props"
        PROVE  d[a] = Old(o, c, a)
    <3>1. v \in NotSet \/ Record(v)
      BY <1>6, <2>4 DEF SoundAll, Sound, Proper, ObjectAttrs, AttrsOf
    <3> DEFINE f == Old(o, c, a)
    <3> HIDE DEF v
    <3>2. Record(f)
      BY <1>1, <1>2, <2>4, <3>1, RecordsMade DEF Old, Proper, SentOrSame, AsMap, OnServer
    <3> HIDE DEF f
    <3>3. Overlay(NoMap, Only(f, DOMAIN f \ {})) = f
      BY <3>2 DEF Overlay, Only, NoMap, Record
    <3> QED
      BY <1>1, <1>5, <2>4, <3>3 DEF f, ChangedAs, PlainOnly
  <2>5. ASSUME SentOrSame(a, c, v, w), PlainOnly(c) \/ a \notin {"props", "members"}
        PROVE  Fits(k, a, v, d[a])
    BY <1>1, <1>5, <2>5, <2>3, <2>4 DEF ChangedAs, PlainOnly
  <2>6. ASSUME a = "props", k \in ProjectedKinds, "props" \notin DOMAIN c.plain,
               SetAndDrop(c, v, w), v # Unknown
        PROVE  Fits(k, a, v, d[a])
    <3>1. /\ Old(o, c, a) = o[a] /\ w # Unknown
          /\ d[a] = Overlay(c.set, Only(o[a], DOMAIN o[a] \ c.drop))
      BY <1>1, <1>5, <2>6 DEF ChangedAs, Old
    <3>2. Overlay(NoMap, Only(o[a], DOMAIN o[a] \ {})) = o[a]
      BY <1>1, <1>2, <2>6 DEF Overlay, Only, NoMap, Record, Proper
    <3>3. v \notin NotSet /\ AsMap(v) = v
      BY <2>6, ComputedAttributes DEF NotSet, AsMap, PlanOK, ProjectedKinds
    <3> HIDE DEF v, w
    <3>4. Fits(k, "props", w, o[a])
      BY <2>1, <2>6
    <3>5. CASE v = w /\ c.set = NoMap /\ c.drop = {}
      BY <2>6, <3>1, <3>2, <3>4, <3>5
    <3>6. CASE /\ c.set = Only(AsMap(v), {x \in DOMAIN AsMap(v) : \/ x \notin DOMAIN AsMap(w)
                                                             \/ AsMap(w)[x] # AsMap(v)[x]})
               /\ c.drop = DOMAIN AsMap(w) \ DOMAIN AsMap(v)
      BY <2>6, <3>1, <3>3, <3>4, <3>6, SetAndDropFit
    <3> QED
      BY <2>6, <3>5, <3>6 DEF SetAndDrop
  <2>7. ASSUME a = "props", k \in PlainMaps, "props" \notin DOMAIN c.plain,
               SetAndDrop(c, v, w), v # Unknown
        PROVE  Fits(k, a, v, d[a])
    <3>1. /\ Old(o, c, a) = o[a] /\ w # Unknown
          /\ d[a] = Overlay(c.set, Only(o[a], DOMAIN o[a] \ c.drop))
      BY <1>1, <1>5, <2>7 DEF ChangedAs, Old
    <3>2. Record(o[a])
      BY <1>1, <1>2, <2>7 DEF Proper
    <3>3. v \in NotSet \/ Record(v)
      BY <1>6, <2>7 DEF SoundAll, Sound, Proper, ObjectAttrs, AttrsOf
    <3> HIDE DEF v, w
    <3>4. o[a] = AsMap(w)
      BY <2>1, <2>7, <3>1 DEF Fits, ExactKinds
    <3>5. Record(AsMap(v))
      BY <3>3, RecordsMade DEF AsMap
    <3>6. CASE v = w /\ c.set = NoMap /\ c.drop = {}
      <4>1. Overlay(NoMap, Only(o[a], DOMAIN o[a] \ {})) = o[a]
        BY <3>2 DEF Overlay, Only, NoMap, Record
      <4> QED
        BY <2>1, <2>7, <3>1, <3>6, <4>1
    <3>7. CASE /\ c.set = Only(AsMap(v), {x \in DOMAIN AsMap(v) : \/ x \notin DOMAIN AsMap(w)
                                                             \/ AsMap(w)[x] # AsMap(v)[x]})
               /\ c.drop = DOMAIN AsMap(w) \ DOMAIN AsMap(v)
      BY <3>1, <3>2, <3>4, <3>5, <3>7, SetAndDropExact, <2>7 DEF PlainMaps, ProjectedKinds,
                                                                 PartitionKinds, Fits
    <3> QED
      BY <2>7, <3>6, <3>7 DEF SetAndDrop
  <2> HIDE DEF v, w
  <2> QED
    BY <2>1, <2>2, <2>5, <2>6, <2>7 DEF v, Carries
<1>8. ASSUME NEW a \in ObjectAttrs(k)
      PROVE  Fits(k, a, p[a], Added(k, d)[a])
  BY MergedObjects, <1>6, <1>1, <1>5, AddedFits, <1>7 DEF ObjectAttrs, AttrsOf, SoundAll, Sound,
                                                          ChangedAs
<1> QED
  BY <1>3, <1>8 DEF FitsAll

-----------------------------------------------------------------------------
(* Lists of requests take the object from the state to the plan.           *)

\* A request takes what fits s to what fits p; so does nothing at all; so does a list.
Leads(k, q, s, p) ==
  \A o : ObjectOK(k, o) /\ FitsAll(k, s, o) =>
           ObjectOK(k, Result(k, q, o)) /\ FitsAll(k, p, Result(k, q, o))
Same(k, s, p) == \A o : ObjectOK(k, o) /\ FitsAll(k, s, o) => FitsAll(k, p, o)
Turns(k, l, s, p) == \A o : ObjectOK(k, o) /\ FitsAll(k, s, o) => FitsAll(k, p, Ahead(k, l, o))

\* Lists whose requests lead from one to the next.
LEMMA ListsTurn ==
  ASSUME NEW k, NEW s, NEW m, NEW n, NEW p, NEW a, NEW b, NEW c
  PROVE  /\ Same(k, s, p) => Turns(k, <<>>, s, p)
         /\ Leads(k, a, s, p) => Turns(k, <<a>>, s, p)
         /\ Leads(k, a, s, m) /\ Leads(k, b, m, p) => Turns(k, <<a, b>>, s, p)
         /\ Leads(k, a, s, m) /\ Leads(k, b, m, n) /\ Leads(k, c, n, p) =>
              Turns(k, <<a, b, c>>, s, p)
         /\ Leads(k, a, s, m) /\ Same(k, m, p) => Leads(k, a, s, p)
<1>1. ASSUME NEW o
      PROVE  /\ Ahead(k, <<>>, o) = o /\ Ahead(k, <<a>>, o) = Result(k, a, o)
             /\ Ahead(k, <<a, b>>, o) = Result(k, b, Result(k, a, o))
             /\ Ahead(k, <<a, b, c>>, o) = Result(k, c, Result(k, b, Result(k, a, o)))
  BY AheadOfLists
<1>2. Leads(k, a, s, m) /\ Leads(k, b, m, p) => Turns(k, <<a, b>>, s, p)
  BY <1>1 DEF Leads, Turns
<1>3. Leads(k, a, s, m) /\ Leads(k, b, m, n) /\ Leads(k, c, n, p) => Turns(k, <<a, b, c>>, s, p)
  BY <1>1 DEF Leads, Turns
<1>4. Leads(k, a, s, m) /\ Same(k, m, p) => Leads(k, a, s, p)
  BY DEF Leads, Same
<1> QED
  BY <1>1, <1>2, <1>3, <1>4 DEF Same, Turns, Leads

\* Requests that are proper, with what undoes them.
Undoable(k, q) == RequestProper(k, q) /\ \A j \in DOMAIN q.undo : RequestProper(k, q.undo[j])
ListProper(k, l) == \A i \in DOMAIN l : Undoable(k, l[i])

\* Lists of proper requests.
LEMMA ProperLists ==
  ASSUME NEW k, NEW a, NEW b, NEW c
  PROVE  /\ ListProper(k, <<>>)
         /\ Undoable(k, a) => ListProper(k, <<a>>)
         /\ Undoable(k, a) /\ Undoable(k, b) => ListProper(k, <<a, b>>)
         /\ Undoable(k, a) /\ Undoable(k, b) /\ Undoable(k, c) => ListProper(k, <<a, b, c>>)
         /\ Len(<<>>) <= 3 /\ Len(<<a>>) <= 3 /\ Len(<<a, b>>) <= 3 /\ Len(<<a, b, c>>) <= 3
  BY DEF ListProper

\* A PATCH of the flag and a GET change nothing that matters.
LEMMA PatchLeads ==
  ASSUME NEW k \in MergedKinds, k \notin PartitionKinds, NEW n, NEW f, NEW s, SoundAll(k, s)
  PROVE  LET q == Asks("patch", n, [plain |-> [flag |-> f]])
         IN q.verb = "patch" /\ Undoable(k, q) /\ Leads(k, q, s, s)
<1> DEFINE c == [plain |-> [flag |-> f]]
           q == Asks("patch", n, c)
<1>1. q.verb = "patch" /\ q.undo = <<>>
  BY Asked DEF Asks
<1>2. /\ DOMAIN Nothing \subseteq DOMAIN q.changes
      /\ \A x \in DOMAIN Nothing : q.changes[x] = PartOf(c, x)
  BY PartsOfRequest DEF Asks
<1>3. /\ PartOf(c, "plain") = [flag |-> f] /\ PartOf(c, "set") = NoMap /\ PartOf(c, "drop") = {}
      /\ PartOf(c, "add") = {} /\ PartOf(c, "remove") = {}
  BY PartsOfNothing DEF PartOf
<1> HIDE DEF q, c
<1>4. /\ q.changes.plain = [flag |-> f] /\ q.changes.set = NoMap /\ q.changes.drop = {}
      /\ q.changes.add = {} /\ q.changes.remove = {}
  BY <1>2, <1>3, PartsOfNothing
<1>5. OnlyFlag(q)
  BY <1>4 DEF OnlyFlag
<1>6. RequestProper(k, q)
  BY <1>1, <1>2, <1>4, <1>5 DEF RequestProper, Proper
<1>7. Leads(k, q, s, s)
  BY <1>6, ResultOK, <1>1, <1>2, <1>5, FlagFits DEF Leads
<1> QED
  BY <1>1, <1>6, <1>7 DEF q, c, Undoable

\* A GET changes nothing.
LEMMA GetLeads ==
  ASSUME NEW k \in MergedKinds, NEW n, NEW s
  PROVE  Get(n).verb = "get" /\ Undoable(k, Get(n)) /\ Leads(k, Get(n), s, s)
<1> DEFINE q == Get(n)
<1>1. q.verb = "get" /\ q.undo = <<>>
  BY Asked DEF Asks, Get
<1>2. /\ DOMAIN Nothing \subseteq DOMAIN q.changes
      /\ \A x \in DOMAIN Nothing : q.changes[x] = PartOf(Nothing, x)
  BY PartsOfRequest DEF Asks, Get
<1> HIDE DEF q
<1>3. Leads(k, q, s, s)
  BY <1>1 DEF Leads, Result
<1> QED
  BY <1>1, <1>2, PartsOfNothing, <1>3 DEF q, Undoable, RequestProper, NoMap, PartOf

\* A PUT that carries what is planned, or nothing when there is nothing to carry.
LEMMA PutLeads ==
  ASSUME NEW k \in MergedKinds, k \notin PartitionKinds, NEW p, PlanOK(k, p), NEW s,
         "props" \in ObjectAttrs(k) => s["props"] # Unknown,
         NEW n, NEW c, DOMAIN Nothing \subseteq DOMAIN c,
         \A a \in DOMAIN c.plain : Proper(a, c.plain[a]), c.add \subseteq Members,
         \A a \in ObjectAttrs(k) : Carries(k, a, c, p[a], s[a]),
         NEW u, \A j \in DOMAIN u : RequestProper(k, u[j])
  PROVE  LET q == AsksOrElse("put", n, c, u)
         IN /\ q.verb = "put" /\ Undoable(k, q) /\ Leads(k, q, s, p)
            /\ c = Nothing => Same(k, s, p)
<1> DEFINE q == AsksOrElse("put", n, c, u)
           d == q.changes
<1>1. q.verb = "put" /\ q.undo = u
  BY Asked
<1>2. DOMAIN Nothing \subseteq DOMAIN d /\ \A x \in DOMAIN Nothing : d[x] = PartOf(c, x)
  BY PartsOfRequest
<1> HIDE DEF q
<1> HIDE DEF d
<1>3. /\ d.plain = c.plain /\ d.set = c.set /\ d.drop = c.drop
      /\ d.add = c.add /\ d.remove = c.remove
  BY <1>2, PartsOfNothing DEF PartOf
<1>4. \A a \in ObjectAttrs(k) : Carries(k, a, d, p[a], s[a])
  BY <1>3 DEF Carries, SentOrSame, PlainOnly, SetAndDrop
<1>5. RequestProper(k, q)
  BY <1>1, <1>2, <1>3 DEF RequestProper, d
<1>6. ASSUME NEW o, ObjectOK(k, o), FitsAll(k, s, o)
      PROVE  FitsAll(k, p, Result(k, q, o))
  BY <1>2, <1>4, <1>1, <1>6, PutFits DEF d
<1>7. c = Nothing => Same(k, s, p)
  BY <1>6, <1>3, PartsOfNothing, <1>2, <1>1, FlagFits DEF Same, OnlyFlag, NoMap, d, PlanOK
<1> QED
  BY <1>1, <1>5, ResultOK, <1>6, <1>7 DEF q, Undoable, Leads

\* The attributes a PUT carries as they are.
LEMMA PlainValues ==
  ASSUME NotSetIsNoValue, NEW k, NEW p, SoundAll(k, p), NEW s,
         NEW attrs, attrs \subseteq AttrsOf(k), DOMAIN p = AttrsOf(k)
  PROVE  LET f == PlainUpdates(p, s, attrs)
         IN /\ \A a \in DOMAIN f : Proper(a, f[a])
            /\ \A a \in attrs : \/ p[a] = Unknown /\ a \notin DOMAIN f
                                \/ a \in DOMAIN f /\ f[a] = OnServer(a, p[a])
                                \/ a \notin DOMAIN f /\ p[a] = s[a]
            /\ DOMAIN f \subseteq attrs
<1> DEFINE f == PlainUpdates(p, s, attrs)
<1>1. /\ DOMAIN f = {a \in attrs : Differs(a, p, s)}
      /\ \A a \in DOMAIN f : f[a] = OnServer(a, p[a])
  BY DEF PlainUpdates
<1> HIDE DEF f
<1>2. ASSUME NEW a \in DOMAIN f
      PROVE  Proper(a, f[a])
  <2>1. CASE a \in {"comment", "props", "members"}
    <3> DEFINE v == p[a]
    <3>1. Sound(k, a, v)
      BY <1>1, <2>1 DEF SoundAll
    <3>2. f[a] = OnServer(a, v)
      BY <1>1
    <3> HIDE DEF v
    <3>3. Proper(a, OnServer(a, v))
      BY <2>1, <3>1, SoundOnServer
    <3> QED
      BY <3>2, <3>3
  <2>2. CASE a \notin {"comment", "props", "members"}
    BY <2>2 DEF Proper
  <2> QED
    BY <2>1, <2>2
<1>3. ASSUME NEW a \in attrs
      PROVE  \/ p[a] = Unknown /\ a \notin DOMAIN f
             \/ a \in DOMAIN f /\ f[a] = OnServer(a, p[a])
             \/ a \notin DOMAIN f /\ p[a] = s[a]
  BY <1>1 DEF Differs
<1> QED
  BY <1>1, <1>2, <1>3 DEF f

\* A PUT of plain attributes carries what is planned of all it may change.
LEMMA PlainCarries ==
  ASSUME NotSetIsNoValue, NEW k, NEW p, SoundAll(k, p), NEW s,
         NEW attrs, attrs \subseteq AttrsOf(k), DOMAIN p = AttrsOf(k),
         \A a \in ObjectAttrs(k) \ attrs :
            \/ p[a] \in {Unknown, s[a]} \/ NotShown(a)
            \/ a = "props" /\ k \in ProjectedKinds /\ AsMap(p[a]) = AsMap(s[a])
  PROVE  LET c == Overlay([plain |-> PlainUpdates(p, s, attrs)], Nothing)
         IN /\ DOMAIN Nothing \subseteq DOMAIN c
            /\ \A a \in DOMAIN c.plain : Proper(a, c.plain[a])
            /\ c.add \subseteq Members
            /\ \A a \in ObjectAttrs(k) : Carries(k, a, c, p[a], s[a])
<1> DEFINE f == PlainUpdates(p, s, attrs)
           c == Overlay([plain |-> f], Nothing)
<1>1. /\ \A a \in DOMAIN f : Proper(a, f[a])
      /\ \A a \in attrs : \/ p[a] = Unknown /\ a \notin DOMAIN f
                          \/ a \in DOMAIN f /\ f[a] = OnServer(a, p[a])
                          \/ a \notin DOMAIN f /\ p[a] = s[a]
      /\ DOMAIN f \subseteq attrs
  BY PlainValues
<1> HIDE DEF f
<1>2. DOMAIN Nothing \subseteq DOMAIN c /\ c.plain = f /\ PlainOnly(c)
  BY PartsOfNothing DEF Overlay, PlainOnly
<1> HIDE DEF c
<1>3. ASSUME NEW a \in ObjectAttrs(k)
      PROVE  Carries(k, a, c, p[a], s[a])
  <2>1. CASE a = "props" /\ k \in ProjectedKinds /\ AsMap(p[a]) = AsMap(s[a]) /\ a \notin attrs
    <3> DEFINE w == AsMap(s[a])
    <3>1. Only(w, {x \in DOMAIN w : x \notin DOMAIN w \/ w[x] # w[x]}) = NoMap
      BY DEF Only, NoMap
    <3>2. DOMAIN w \ DOMAIN w = {}
      OBVIOUS
    <3> HIDE DEF w
    <3>3. SetAndDrop(c, p[a], s[a])
      BY <2>1, <3>1, <3>2, <1>2 DEF SetAndDrop, PlainOnly, w
    <3> QED
      BY <2>1, <3>3, <1>1, <1>2 DEF Carries
  <2> QED
    BY <2>1, <1>1, <1>2 DEF Carries, SentOrSame
<1> QED
  BY <1>1, <1>2, <1>3 DEF c, f, PlainOnly

\* The comment, and the properties one by one; r is what is planned, p what is compared.
LEMMA ChangesCarry ==
  ASSUME NotSetIsNoValue, NEW k \in {"catalog", "schema", "topic", "model", "fileset", "tag", "view", "derived_view"},
         NEW p, SoundAll(k, p), NEW s, NEW r, \A a \in AttrsOf(k) : r[a] \in {Unknown, p[a]},
         NEW attrs \in SUBSET {"name", "comment"}, DOMAIN p = AttrsOf(k),
         "comment" \in attrs \/ p["comment"] \in {Unknown, s["comment"]}
  PROVE  LET c == Changes(p, s, attrs)
         IN /\ DOMAIN Nothing \subseteq DOMAIN c
            /\ \A a \in DOMAIN c.plain : Proper(a, c.plain[a])
            /\ c.add \subseteq Members
            /\ \A a \in ObjectAttrs(k) : Carries(k, a, c, r[a], s[a])
<1> DEFINE f == PlainUpdates(p, s, attrs)
           u == PropertyUpdates(p, s)
           c == Overlay([plain |-> f], Overlay(u, Nothing))
<1>1. /\ {"name", "comment", "props"} \subseteq AttrsOf(k)
      /\ AttrsOf(k) \subseteq {"name", "comment", "props", "flag", "force"}
  BY MergedSchemas
<1>2. /\ \A a \in DOMAIN f : Proper(a, f[a])
      /\ \A a \in attrs : \/ p[a] = Unknown /\ a \notin DOMAIN f
                          \/ a \in DOMAIN f /\ f[a] = OnServer(a, p[a])
                          \/ a \notin DOMAIN f /\ p[a] = s[a]
      /\ DOMAIN f \subseteq attrs
  <2>1. attrs \subseteq AttrsOf(k)
    BY <1>1
  <2> QED
    BY <2>1, PlainValues
<1>3. DOMAIN u = {"set", "drop"} /\ (p["props"] = Unknown \/ SetAndDrop(u, p["props"], s["props"]))
  <2>1. CASE ~Differs("props", p, s)
    BY <2>1, <1>1 DEF PropertyUpdates, Differs, SetAndDrop
  <2>2. CASE Differs("props", p, s)
    <3> DEFINE old == AsMap(s.props)
               new == AsMap(p.props)
               S == Only(new, {x \in DOMAIN new : x \notin DOMAIN old \/ old[x] # new[x]})
    <3> QED
      BY <2>2 DEF SetAndDrop, PropertyUpdates
  <2> QED
    BY <2>1, <2>2
<1> HIDE DEF f, u
<1>4. /\ DOMAIN Nothing \subseteq DOMAIN c /\ c.plain = f
      /\ c.set = u.set /\ c.drop = u.drop /\ c.add = {} /\ c.remove = {}
  BY <1>3, PartsOfNothing DEF Overlay
<1>5. c = Changes(p, s, attrs)
  BY DEF Changes, f, u
<1> HIDE DEF c
<1>6. ASSUME NEW a \in ObjectAttrs(k)
      PROVE  Carries(k, a, c, r[a], s[a])
  <2>1. a \in {"comment", "props", "flag"} /\ r[a] \in {Unknown, p[a]}
    BY <1>1 DEF ObjectAttrs, AttrsOf
  <2>2. CASE a = "comment"
    BY <1>2, <1>4, <2>1, <2>2 DEF SentOrSame, Carries
  <2>3. CASE a = "props"
    <3>1. "props" \notin DOMAIN c.plain
      BY <1>2, <1>4
    <3>2. r[a] = Unknown \/ SetAndDrop(c, r[a], s[a])
      BY <1>3, <1>4, <2>1, <2>3 DEF SetAndDrop
    <3>3. k \in ProjectedKinds \cup PlainMaps
      BY DEF ProjectedKinds, PlainMaps
    <3> QED
      BY <2>3, <3>1, <3>2, <3>3 DEF Carries
  <2>4. CASE a = "flag"
    BY <2>4 DEF Carries, NotShown
  <2> QED
    BY <2>1, <2>2, <2>3, <2>4
<1> QED
  BY <1>4, <1>5, <1>6, <1>2

\* The state of an update, and what the requests of the update do with it.
StateGood(k, s) == /\ SoundAll(k, s)
                   /\ "props" \in ObjectAttrs(k) => s["props"] # Unknown
                   /\ "members" \in ObjectAttrs(k) => s["members"] \notin NotSet
Delivered(k, l, s, p) == Turns(k, l, s, p) /\ ListProper(k, l) /\ Len(l) <= 3

\* The ways to send one PUT, or nothing, or a GET in its place.
LEMMA OneOrGetDelivers ==
  ASSUME NEW k \in MergedKinds, k \notin PartitionKinds, NEW p, PlanOK(k, p), NEW s, StateGood(k, s),
         NEW c, DOMAIN Nothing \subseteq DOMAIN c,
         \A a \in DOMAIN c.plain : Proper(a, c.plain[a]), c.add \subseteq Members,
         \A a \in ObjectAttrs(k) : Carries(k, a, c, p[a], s[a])
  PROVE  /\ Delivered(k, Send(s, c), s, p)
         /\ Delivered(k, SendOrGet(s, c), s, p)
         /\ \A g : Undoable(k, g) /\ Leads(k, g, p, p) => Delivered(k, Send(s, c) \o <<g>>, s, p)
<1> DEFINE q == Asks("put", s.name, c)
           e == Get(s.name)
<1>1. q.verb = "put" /\ Undoable(k, q) /\ Leads(k, q, s, p) /\ (c = Nothing => Same(k, s, p))
  BY PutLeads DEF StateGood, Asks
<1>2. Undoable(k, e) /\ Leads(k, e, s, s)
  BY GetLeads
<1>3. /\ Send(s, c) = IF c = Nothing THEN <<>> ELSE <<q>>
      /\ SendOrGet(s, c) = IF c = Nothing THEN <<e>> ELSE <<q>>
  BY DEF Send, SendOrGet
<1> HIDE DEF q, e
<1>4. c = Nothing => Delivered(k, <<>>, s, p) /\ Delivered(k, <<e>>, s, p)
  BY <1>1, <1>2, ListsTurn, ProperLists DEF Delivered
<1>5. Delivered(k, <<q>>, s, p)
  BY <1>1, ListsTurn, ProperLists DEF Delivered
<1>6. ASSUME NEW g, Undoable(k, g), Leads(k, g, p, p)
      PROVE  Delivered(k, Send(s, c) \o <<g>>, s, p)
  <2>1. c = Nothing => Delivered(k, <<g>>, s, p)
    BY <1>6, <1>1, ListsTurn, ProperLists DEF Delivered, Same, Leads
  <2>2. Delivered(k, <<q, g>>, s, p)
    BY <1>1, <1>6, ListsTurn, ProperLists DEF Delivered
  <2> QED
    BY <1>3, Appended, <2>1, <2>2
<1> QED
  BY <1>3, <1>4, <1>5, <1>6

\* Updates of one PUT, and perhaps a GET or a PATCH of the flag.
LEMMA PlainDelivers ==
  ASSUME NotSetIsNoValue,
         NEW k \in {"schema", "topic", "model", "fileset", "tag", "view", "derived_view", "job_template", "policy",
                   "role", "idp_user"},
         NEW p, PlanOK(k, p), Record(p), DOMAIN p = AttrsOf(k), NEW s, StateGood(k, s),
         k \in {"schema", "view", "derived_view"} => p.comment = s.comment,
         k = "role" => p.props \in {Unknown, s.props},
         k = "idp_user" => p.members \in {Unknown, s.members}
  PROVE  Delivered(k, Updates(k, p, s), s, p)
<1>1. /\ SoundAll(k, p) /\ k \in MergedKinds /\ k \notin PartitionKinds
      /\ DOMAIN p = AttrsOf(k)
  BY DEF PlanOK, MergedKinds, PartitionKinds
<1>2. CASE k \in {"schema", "topic", "model", "fileset", "view", "derived_view"}
  <2>1. PICK attrs \in SUBSET {"name", "comment"} :
             /\ IF k \in {"schema", "fileset"} THEN Updates(k, p, s) = Send(s, Changes(p, s, attrs))
                ELSE Updates(k, p, s) = SendOrGet(s, Changes(p, s, attrs))
             /\ k \in {"schema", "view", "derived_view"} \/ "comment" \in attrs
    BY <1>2 DEF Updates, SchemaUpdate, TopicUpdate, ModelUpdate, FilesetUpdate, ViewUpdate
  <2> DEFINE c == Changes(p, s, attrs)
  <2>2. PICK r : r = p
    OBVIOUS
  <2>3. \A a \in AttrsOf(k) : r[a] \in {Unknown, p[a]}
    BY <2>2
  <2>4. "comment" \in attrs \/ p["comment"] \in {Unknown, s["comment"]}
    BY <2>1
  <2>5. /\ DOMAIN Nothing \subseteq DOMAIN c
        /\ \A a \in DOMAIN c.plain : Proper(a, c.plain[a])
        /\ c.add \subseteq Members
        /\ \A a \in ObjectAttrs(k) : Carries(k, a, c, r[a], s[a])
    <3>1. k \in {"catalog", "schema", "topic", "model", "fileset", "tag", "view", "derived_view"}
      BY <1>2
    <3> QED
      BY <2>4, <2>3, <3>1, <1>1, ChangesCarry
  <2> HIDE DEF c
  <2> QED
    BY <2>1, <1>1, <2>2, <2>5, OneOrGetDelivers DEF c
<1>3. CASE k = "tag"
  <2> DEFINE r == [p EXCEPT !.comment = IF @ = Unknown THEN "" ELSE @]
             c == Changes(r, s, {"name", "comment"})
  <2>1. DOMAIN r = DOMAIN p /\ \A a \in DOMAIN p : r[a] = IF a = "comment" /\ p[a] = Unknown THEN "" ELSE p[a]
    OBVIOUS
  <2>2. Updates(k, p, s) = SendOrGet(s, c)
    BY <1>3 DEF Updates, TagUpdate
  <2> HIDE DEF r
  <2>3. SoundAll(k, r)
    BY <1>1, <2>1 DEF Sound, Proper, Texts, SoundAll
  <2>4. \A a \in AttrsOf(k) : p[a] \in {Unknown, r[a]}
    BY <1>1, <2>1
  <2>5. /\ DOMAIN Nothing \subseteq DOMAIN c
        /\ \A a \in DOMAIN c.plain : Proper(a, c.plain[a])
        /\ c.add \subseteq Members
        /\ \A a \in ObjectAttrs(k) : Carries(k, a, c, p[a], s[a])
    BY <1>1, <2>1, <1>3, <2>3, <2>4, ChangesCarry
  <2> HIDE DEF c
  <2> QED
    BY <2>2, <1>1, <2>5, OneOrGetDelivers
<1>4. CASE k \in {"job_template", "policy", "role", "idp_user"}
  <2> DEFINE attrs == CASE k = "job_template" -> {"name", "comment", "content", "props"}
                        [] k = "policy" -> PolicyAttrs(p, s)
                        [] k = "role" -> {"members"}
                        [] OTHER -> {"secret"}
             c == Overlay([plain |-> PlainUpdates(p, s, attrs)], Nothing)
  <2>1. /\ attrs \subseteq AttrsOf(k)
        /\ \A a \in ObjectAttrs(k) \ attrs :
              \/ p[a] \in {Unknown, s[a]} \/ NotShown(a)
              \/ a = "props" /\ k \in ProjectedKinds /\ AsMap(p[a]) = AsMap(s[a])
    <3>1. CASE k = "policy"
      BY <3>1, MergedSchemas DEF ObjectAttrs, AttrsOf, NotShown, PolicyAttrs, PolicyContentEqual,
                                 ProjectedKinds
    <3> QED
      BY <1>4, <3>1, MergedSchemas DEF ObjectAttrs, AttrsOf, NotShown
  <2>2. /\ k \in {"job_template", "idp_user"} => Updates(k, p, s) = Send(s, c)
        /\ k = "role" => Updates(k, p, s) = Send(s, c) \o <<Get(p.name)>>
        /\ k = "policy" => Updates(k, p, s) = Send(s, c) \o PolicyPatch(p, s)
    BY <1>4 DEF Updates, JobTemplateUpdate, IdpUserUpdate, RoleUpdate, PolicyUpdate
  <2> HIDE DEF attrs
  <2>3. /\ DOMAIN Nothing \subseteq DOMAIN c
        /\ \A a \in DOMAIN c.plain : Proper(a, c.plain[a])
        /\ c.add \subseteq Members
        /\ \A a \in ObjectAttrs(k) : Carries(k, a, c, p[a], s[a])
    BY <1>1, <2>1, PlainCarries
  <2> HIDE DEF c
  <2>4. /\ Delivered(k, Send(s, c), s, p)
        /\ \A g : Undoable(k, g) /\ Leads(k, g, p, p) => Delivered(k, Send(s, c) \o <<g>>, s, p)
    BY <1>1, <2>3, OneOrGetDelivers
  <2>5. CASE k \in {"job_template", "idp_user"}
    BY <2>2, <2>4, <2>5
  <2>6. CASE k = "role"
    BY <1>1, GetLeads, <2>2, <2>4, <2>6
  <2>7. CASE k = "policy"
    <3> DEFINE d == Asks("patch", p.name, [plain |-> [flag |-> p.flag]])
    <3>1. Undoable(k, d) /\ Leads(k, d, p, p)
      BY <1>1, PatchLeads
    <3>2. PolicyPatch(p, s) \in {<<>>, <<d>>}
      BY DEF PolicyPatch
    <3> HIDE DEF d
    <3>3. Send(s, c) \o <<>> = Send(s, c)
      BY Appended DEF Send
    <3> QED
      BY <2>2, <2>4, <2>7, <3>1, <3>2, <3>3
  <2> QED
    BY <1>4, <2>5, <2>6, <2>7
<1> QED
  BY <1>2, <1>3, <1>4

\* A catalog: enabled for the PUT, and disabled after it.
LEMMA CatalogDelivers ==
  ASSUME NotSetIsNoValue, NEW p, PlanOK("catalog", p), DOMAIN p = AttrsOf("catalog"),
         NEW s, StateGood("catalog", s)
  PROVE  Delivered("catalog", Updates("catalog", p, s), s, p)
<1> DEFINE k == "catalog"
           c == Changes(p, s, {"name", "comment"})
           briefly == Temporarily(p, s, c)
           undo == IF briefly THEN Enable(s.name, FALSE) ELSE <<>>
           e == Asks("patch", s.name, [plain |-> [flag |-> TRUE]])
           q == AsksOrElse("put", s.name, c, undo)
           d == Asks("patch", p.name, [plain |-> [flag |-> FALSE]])
           first == IF (p.flag # s.flag /\ p.flag) \/ briefly THEN <<e>> ELSE <<>>
           second == IF c = Nothing THEN <<>> ELSE <<q>>
           third == IF (p.flag # s.flag /\ ~p.flag) \/ briefly THEN <<d>> ELSE <<>>
           l == Updates(k, p, s)
<1>1. k \in MergedKinds /\ k \notin PartitionKinds /\ SoundAll(k, p) /\ SoundAll(k, s)
      /\ ("props" \in ObjectAttrs(k) => s["props"] # Unknown)
  BY DEF PlanOK, StateGood, MergedKinds, PartitionKinds
<1>2. l = (first \o second) \o third
  BY DEF Updates, CatalogUpdate, Enable
<1>3. Undoable(k, e) /\ Leads(k, e, s, s)
  BY <1>1, PatchLeads
<1>4. Undoable(k, d) /\ Leads(k, d, p, p)
  BY <1>1, PatchLeads
<1>5. \A j \in DOMAIN undo : RequestProper(k, undo[j])
  <2> DEFINE u == Asks("patch", s.name, [plain |-> [flag |-> FALSE]])
  <2>1. Undoable(k, u)
    BY <1>1, PatchLeads
  <2>2. undo \in {<<>>, <<u>>}
    BY DEF Enable
  <2> HIDE DEF undo, u
  <2> QED
    BY <2>1, <2>2 DEF Undoable
<1>6. /\ DOMAIN Nothing \subseteq DOMAIN c
      /\ \A a \in DOMAIN c.plain : Proper(a, c.plain[a])
      /\ c.add \subseteq Members
      /\ \A a \in ObjectAttrs(k) : Carries(k, a, c, p[a], s[a])
  <2>1. PICK r : r = p
    OBVIOUS
  <2>2. \A a \in AttrsOf(k) : r[a] \in {Unknown, p[a]}
    BY <2>1
  <2>3. /\ DOMAIN Nothing \subseteq DOMAIN c
        /\ \A a \in DOMAIN c.plain : Proper(a, c.plain[a])
        /\ c.add \subseteq Members
        /\ \A a \in ObjectAttrs(k) : Carries(k, a, c, r[a], s[a])
    BY <1>1, <2>2, ChangesCarry
  <2> HIDE DEF c
  <2> QED
    BY <2>1, <2>3
<1> HIDE DEF undo, c
<1>7. Undoable(k, q) /\ Leads(k, q, s, p) /\ (c = Nothing => Same(k, s, p))
  BY <1>1, <1>5, <1>6, PutLeads
<1>8. first \in {<<>>, <<e>>} /\ third \in {<<>>, <<d>>}
      /\ IF c = Nothing THEN second = <<>> ELSE second = <<q>>
  OBVIOUS
<1> HIDE DEF first, second, third, e, q, d, l, briefly
<1>9. IF c = Nothing THEN l \in {<<>>, <<e>>, <<d>>, <<e, d>>}
      ELSE l \in {<<q>>, <<e, q>>, <<q, d>>, <<e, q, d>>}
  <2> DEFINE m == first \o second
  <2>1. IF c = Nothing THEN m \in {<<>>, <<e>>} ELSE m \in {<<q>>, <<e, q>>}
    BY <1>8, Appended
  <2>2. l = m \o third
    BY <1>2
  <2> HIDE DEF m
  <2>3. /\ <<>> \o <<d>> = <<d>> /\ <<e>> \o <<d>> = <<e, d>> /\ <<q>> \o <<d>> = <<q, d>>
        /\ <<e, q>> \o <<d>> = <<e, q, d>>
    BY Appended
  <2> QED
    BY <1>8, <2>1, <2>2, Appended, <2>3
<1> HIDE DEF k
<1>10. CASE c = Nothing
  <2>1. Same(k, s, p)
    BY <1>7, <1>10
  <2>2. Leads(k, e, s, p) /\ Leads(k, d, s, p)
    BY <1>3, <1>4, <2>1 DEF Leads, Same
  <2>3. Delivered(k, <<>>, s, p) /\ Delivered(k, <<e>>, s, p) /\ Delivered(k, <<d>>, s, p)
    BY <1>3, <1>4, <2>1, <2>2, ListsTurn, ProperLists DEF Delivered
  <2>4. Delivered(k, <<e, d>>, s, p)
    BY <1>3, <1>4, <2>2, ListsTurn, ProperLists DEF Delivered
  <2> QED
    BY <1>9, <1>10, <2>3, <2>4 DEF l, k
<1>11. CASE c # Nothing
  <2>1. Delivered(k, <<q>>, s, p)
    BY <1>7, ListsTurn, ProperLists DEF Delivered
  <2>2. Delivered(k, <<e, q>>, s, p)
    BY <1>3, <1>7, ListsTurn, ProperLists DEF Delivered
  <2>3. Delivered(k, <<q, d>>, s, p)
    BY <1>4, <1>7, ListsTurn, ProperLists DEF Delivered
  <2>4. Delivered(k, <<e, q, d>>, s, p)
    BY <1>3, <1>4, <1>7, ListsTurn, ProperLists DEF Delivered
  <2> QED
    BY <1>9, <1>11, <2>1, <2>2, <2>3, <2>4 DEF l, k
<1> QED
  BY <1>10, <1>11

\* Members who join and leave.
LEMMA JoinLeads ==
  ASSUME NEW k \in {"user", "group", "idp_group"}, NEW n, NEW c, NEW m, NEW p,
         PartOf(c, "plain") = NoMap, PartOf(c, "add") \subseteq Members, m["members"] # Unknown,
         p["members"] \in {Unknown, (m["members"] \ PartOf(c, "remove")) \cup PartOf(c, "add")}
  PROVE  LET q == Asks("put", n, c)
         IN q.verb = "put" /\ Undoable(k, q) /\ Leads(k, q, m, p)
<1> DEFINE q == Asks("put", n, c)
           d == q.changes
<1>1. ObjectAttrs(k) = {"members"} /\ k \in MergedKinds /\ k \notin ManagedKinds
  BY MergedSchemas, ManagedAssumption DEF ObjectAttrs, AttrsOf, MergedKinds
<1>2. q.verb = "put" /\ q.undo = <<>>
  BY Asked DEF Asks
<1>3. DOMAIN Nothing \subseteq DOMAIN d /\ \A x \in DOMAIN Nothing : d[x] = PartOf(c, x)
  BY PartsOfRequest DEF Asks
<1> HIDE DEF q
<1> HIDE DEF d
<1>4. d.plain = NoMap /\ d.add = PartOf(c, "add") /\ d.remove = PartOf(c, "remove")
  BY <1>3, PartsOfNothing
<1>5. RequestProper(k, q)
  BY <1>2, <1>3, <1>4 DEF RequestProper, NoMap, d
<1>6. Leads(k, q, m, p)
  <2> SUFFICES ASSUME NEW o, ObjectOK(k, o), FitsAll(k, m, o)
               PROVE  ObjectOK(k, Result(k, q, o)) /\ FitsAll(k, p, Result(k, q, o))
    BY DEF Leads
  <2>1. DOMAIN o = ObjectAttrs(k) /\ o["members"] = m["members"]
    BY <1>1 DEF ObjectOK, FitsAll, Fits
  <2> DEFINE r == Changed(o, Renamed(d))
  <2>2. Result(k, q, o) = r
    BY <1>1, <1>2 DEF Result, Added, d
  <2>3. ChangedAs(o, d, r)
    BY <1>1, <1>3, <2>1, ChangedParts
  <2> HIDE DEF r
  <2>4. FitsAll(k, p, r)
    BY <1>1, <1>4, <2>1, <2>3 DEF FitsAll, Fits, ChangedAs, Old, NoMap
  <2> QED
    BY <1>1, <1>5, ResultOK, <2>2, <2>4
<1> QED
  BY <1>2, <1>5, <1>6 DEF q, Undoable

\* Users, groups and IDP groups: one request for who leaves, and one for who joins.
LEMMA MembersDeliver ==
  ASSUME NotSetIsNoValue, NEW k \in {"user", "group", "idp_group"}, NEW p, PlanOK(k, p), NEW s, StateGood(k, s),
         s.name \in Names
  PROVE  Delivered(k, Updates(k, p, s), s, p) /\ StayAll(Updates(k, p, s), s.name)
<1> DEFINE new == p["members"]
           old == s["members"]
<1>1. ObjectAttrs(k) = {"members"} /\ "members" \in AttrsOf(k) \ {"name"}
  BY MergedSchemas DEF ObjectAttrs, AttrsOf
<1>2. /\ old \notin NotSet /\ old \in SUBSET Members /\ AsSet(old) = old
      /\ new = Unknown \/ (new \in SUBSET Members /\ AsSet(new) = new)
      /\ AsSet(new) \in SUBSET Members
  <2>1. old \notin NotSet /\ old \in SUBSET Members
    BY <1>1 DEF StateGood, SoundAll, Sound, Proper
  <2>2. new = Unknown \/ (new \in SUBSET Members /\ new \notin NotSet)
    BY <1>1, ComputedAttributes DEF PlanOK, SoundAll, Sound, Proper, NotSet, NotSetIsNoValue
  <2> HIDE DEF old, new
  <2> QED
    BY <2>1, <2>2 DEF AsSet, NotSet
<1>3. CASE k \in {"user", "group"}
  <2> DEFINE grant == AsSet(new) \ old
             revoke == old \ AsSet(new)
             q == Asks("put", s.name, [add |-> grant])
             r == Asks("put", s.name, [remove |-> revoke])
             first == IF grant = {} THEN <<>> ELSE <<q>>
             second == IF revoke = {} THEN <<>> ELSE <<r>>
             m == [members |-> old \cup grant]
  <2>1. Updates(k, p, s) = first \o second
    BY <1>2, <1>3 DEF Updates, UserUpdate, GroupUpdate, RolesUpdate
  <2> HIDE DEF old, new
  <2>2. /\ PartOf([add |-> grant], "plain") = NoMap /\ PartOf([add |-> grant], "add") = grant
        /\ PartOf([add |-> grant], "remove") = {}
    BY PartsOfNothing DEF PartOf
  <2>3. /\ PartOf([remove |-> revoke], "plain") = NoMap /\ PartOf([remove |-> revoke], "remove") = revoke
        /\ PartOf([remove |-> revoke], "add") = {}
    BY PartsOfNothing DEF PartOf
  <2>4. Stays(q, s.name) /\ Stays(r, s.name)
    BY Staying DEF NameKept, PlainOf, NoMap
  <2>5. s["members"] = old /\ old # Unknown /\ p["members"] = new
    BY <1>2 DEF old, new, NotSet
  <2>6. m["members"] = old \cup grant /\ m["members"] # Unknown
    BY <1>2 DEF NotSetIsNoValue, NotSet
  <2>7. \A x : x["members"] = old \cup grant => Undoable(k, q) /\ Leads(k, q, s, x)
    <3> TAKE x
    <3> HAVE x["members"] = old \cup grant
    <3>1. x["members"] \in {Unknown, (s["members"] \ {}) \cup grant} /\ grant \subseteq Members
      BY <1>2, <2>5
    <3> HIDE DEF grant, q
    <3> QED
      BY <2>2, <2>5, <3>1, JoinLeads DEF q
  <2>8. \A x : x["members"] # Unknown /\ new \in {Unknown, x["members"] \ revoke} => Undoable(k, r) /\ Leads(k, r, x, p)
    <3> TAKE x
    <3> HAVE x["members"] # Unknown /\ new \in {Unknown, x["members"] \ revoke}
    <3> HIDE DEF revoke, r
    <3> QED
      BY <2>3, <2>5, JoinLeads DEF r
  <2>9. Undoable(k, q) /\ Leads(k, q, s, m)
    BY <2>6, <2>7
  <2>10. Undoable(k, r) /\ Leads(k, r, m, p)
    BY <1>2, <2>6, <2>8
  <2>11. revoke = {} => Leads(k, q, s, p) \/ new = Unknown
    BY <1>2, <2>5, <2>7
  <2>12. grant = {} => Leads(k, r, s, p)
    BY <1>2, <2>5, <2>8
  <2>13. grant = {} /\ revoke = {} => Same(k, s, p)
    BY <1>2, <2>5, <1>1 DEF Same, FitsAll, Fits
  <2>14. new = Unknown => grant = {}
    BY DEF AsSet, NotSet
  <2>15. IF grant = {} THEN first = <<>> ELSE first = <<q>>
    OBVIOUS
  <2>16. IF revoke = {} THEN second = <<>> ELSE second = <<r>>
    OBVIOUS
  <2> HIDE DEF first, second, q, r, m, grant, revoke
  <2>17. CASE grant = {} /\ revoke = {}
    <3>1. first \o second = <<>>
      BY <2>15, <2>16, <2>17, Appended
    <3>2. Delivered(k, <<>>, s, p)
      BY <2>13, <2>17, ListsTurn, ProperLists DEF Delivered
    <3> QED
      BY <2>1, <3>1, <3>2 DEF StayAll
  <2>18. CASE grant = {} /\ revoke # {}
    <3>1. first \o second = <<r>>
      BY <2>15, <2>16, <2>18, Appended
    <3>2. Delivered(k, <<r>>, s, p)
      BY <2>10, <2>12, <2>18, ListsTurn, ProperLists DEF Delivered
    <3> QED
      BY <2>1, <3>1, <3>2, <2>4 DEF StayAll
  <2>19. CASE grant # {} /\ revoke = {}
    <3>1. first \o second = <<q>>
      BY <2>15, <2>16, <2>19, Appended
    <3>2. Delivered(k, <<q>>, s, p)
      BY <2>9, <2>11, <2>14, <2>19, ListsTurn, ProperLists DEF Delivered
    <3> QED
      BY <2>1, <3>1, <3>2, <2>4 DEF StayAll
  <2>20. CASE grant # {} /\ revoke # {}
    <3>1. first \o second = <<q, r>>
      BY <2>15, <2>16, <2>20, Appended
    <3>2. Delivered(k, <<q, r>>, s, p)
      BY <2>9, <2>10, ListsTurn, ProperLists DEF Delivered
    <3> QED
      BY <2>1, <3>1, <3>2, <2>4 DEF StayAll
  <2> QED
    BY <2>17, <2>18, <2>19, <2>20
<1>4. CASE k = "idp_group"
  <2> DEFINE wanted == IF new = Unknown THEN old ELSE AsSet(new)
             x == wanted \ old
             z == old \ wanted
             f == [add |-> x, remove |-> z]
             c == Overlay(f, Nothing)
             q == Asks("put", s.name, c)
  <2>1. Updates(k, p, s) = Send(s, c)
    BY <1>2, <1>4 DEF Updates, IdpGroupUpdate
  <2> HIDE DEF old, new
  <2>2. x \subseteq Members /\ new \in {Unknown, (old \ z) \cup x}
    BY <1>2
  <2>3. s["members"] = old /\ old # Unknown /\ p["members"] = new
    BY <1>2 DEF old, new, NotSet
  <2> HIDE DEF x, z
  <2>4. PartOf(c, "plain") = NoMap /\ PartOf(c, "add") = x /\ PartOf(c, "remove") = z
    <3>1. \A g \in {"plain", "add", "remove"} : PartOf(c, g) = IF g \in DOMAIN f THEN f[g] ELSE Nothing[g]
      BY PartsOfNothing DEF PartOf, Overlay
    <3>2. DOMAIN f = {"add", "remove"} /\ f["add"] = x /\ f["remove"] = z
      OBVIOUS
    <3> HIDE DEF f, c
    <3> QED
      BY <3>1, <3>2, PartsOfNothing
  <2>5. PlainOf(c) = NoMap
    BY PlainOfOverlay
  <2> HIDE DEF f, c
  <2>6. Undoable(k, q) /\ Leads(k, q, s, p)
    BY <2>2, <2>3, <2>4, JoinLeads
  <2>7. Stays(q, s.name)
    BY <2>5, Staying DEF NameKept, NoMap
  <2>8. c = Nothing => Same(k, s, p)
    BY <2>4, PartsOfNothing, <2>2, <1>1, <2>3 DEF PartOf, Same, FitsAll, Fits
  <2>9. Send(s, c) = IF c = Nothing THEN <<>> ELSE <<q>>
    BY DEF Send
  <2> HIDE DEF q
  <2>10. c = Nothing => Delivered(k, <<>>, s, p)
    BY <2>8, ListsTurn, ProperLists DEF Delivered
  <2>11. Delivered(k, <<q>>, s, p)
    BY <2>6, ListsTurn, ProperLists DEF Delivered
  <2>12. StayAll(<<q>>, s.name)
    BY <2>7 DEF StayAll
  <2> QED
    BY <2>1, <2>9, <2>10, <2>11, <2>12 DEF StayAll
<1> QED
  BY <1>3, <1>4

\* Whatever an update that does not replace the object is asked for, its requests take the
\* object to the plan.
LEMMA UpdateDelivers ==
  ASSUME NotSetIsNoValue, NEW k \in MergedKinds, k \notin PartitionKinds,
         NEW p, PlanOK(k, p), Record(p), DOMAIN p = AttrsOf(k),
         NEW s, StateGood(k, s), s.name \in Names,
         k \in {"schema", "view", "derived_view"} => p.comment = s.comment,
         k = "role" => p.props \in {Unknown, s.props},
         k = "idp_user" => p.members \in {Unknown, s.members}
  PROVE  /\ Delivered(k, Updates(k, p, s), s, p)
         /\ k \in TwoStepCreates => StayAll(Updates(k, p, s), s.name)
  BY PlainDelivers, CatalogDelivers, MembersDeliver DEF TwoStepCreates, MergedKinds,
                                                        PartitionKinds

\* What a create does: its first request makes an object, the others go on with it.
Begins(k, q, r) == \A o : ObjectOK(k, Result(k, q, o)) /\ FitsAll(k, r, Result(k, q, o))
CreateDelivers(k, l, p) ==
  /\ Listing(l) /\ l # <<>> /\ Makes(l[1], p.name)
  /\ \A i \in DOMAIN l : i = 1 \/ Stays(l[i], p.name)
  /\ \A o : FitsAll(k, p, Ahead(k, l, o))
  /\ ListProper(k, l) /\ Len(l) <= 3

\* A POST makes an object that shows what it carries.
LEMMA PostBegins ==
  ASSUME NEW k \in MergedKinds, NEW n, NEW f, DOMAIN f = ObjectAttrs(k), NEW r,
         \A a \in ObjectAttrs(k) : Proper(a, f[a]) /\ Fits(k, a, r[a], f[a]),
         "props" \in ObjectAttrs(k) /\ r["props"] \notin NotSet => f["props"] = r["props"]
  PROVE  LET q == Asks("post", n, [plain |-> f])
         IN Makes(q, n) /\ Undoable(k, q) /\ Begins(k, q, r)
<1> DEFINE c == [plain |-> f]
           q == Asks("post", n, c)
<1>1. q.verb = "post" /\ q.undo = <<>> /\ q.target = n
  BY Asked DEF Asks
<1>2. /\ DOMAIN Nothing \subseteq DOMAIN q.changes
      /\ \A x \in DOMAIN Nothing : q.changes[x] = PartOf(c, x)
  BY PartsOfRequest DEF Asks
<1>3. PartOf(c, "plain") = f /\ PartOf(c, "add") = {}
  BY PartsOfNothing DEF PartOf
<1> HIDE DEF q, c
<1>4. q.changes.plain = f /\ q.changes.add = {}
  BY <1>2, <1>3, PartsOfNothing
<1>5. RequestProper(k, q)
  BY <1>1, <1>2, <1>4 DEF RequestProper
<1>6. ASSUME NEW o
      PROVE  ObjectOK(k, Result(k, q, o)) /\ FitsAll(k, r, Result(k, q, o))
  <2>1. ASSUME NEW a \in ObjectAttrs(k)
        PROVE  Fits(k, a, r[a], Added(k, f)[a])
    <3> DEFINE v == r[a]
    <3>1. a = "props" /\ k \in ManagedKinds /\ v \notin NotSet =>
            ManagedKey \notin DOMAIN v \ DOMAIN f["props"]
      OBVIOUS
    <3> HIDE DEF v
    <3> QED
      BY <3>1, AddedFits DEF v
  <2> QED
    BY <1>1, <1>5, ResultOK, <1>4, <2>1 DEF FitsAll, Result
<1>7. Begins(k, q, r)
  BY <1>6 DEF Begins
<1> QED
  BY <1>1, <1>5, <1>4, <1>7 DEF q, c, Undoable, Makes, NoRename, ObjectAttrs

\* A Create of one POST delivers the plan.
LEMMA CreatesOfOne ==
  ASSUME NEW k, NEW p, NEW q, Makes(q, p.name), Undoable(k, q), Begins(k, q, p)
  PROVE  CreateDelivers(k, <<q>>, p)
<1>1. \A o : FitsAll(k, p, Ahead(k, <<q>>, o))
  BY DEF Ahead, Begins
<1>2. Listing(<<q>>)
  BY ShortLists
<1>3. ListProper(k, <<q>>) /\ Len(<<q>>) <= 3
  BY ProperLists
<1> QED
  BY <1>1, <1>3, <1>2 DEF CreateDelivers

\* A Create of a POST and a request that leads on from it delivers the plan.
LEMMA CreatesOfTwo ==
  ASSUME NEW k, NEW p, NEW q, NEW r, Makes(q, p.name), Undoable(k, q), Begins(k, q, r),
         NEW b, Stays(b, p.name), Undoable(k, b), Leads(k, b, r, p)
  PROVE  CreateDelivers(k, <<q, b>>, p)
<1>1. \A o : FitsAll(k, p, Ahead(k, <<q, b>>, o))
  BY DEF Ahead, Begins, Leads
<1>2. Listing(<<q, b>>)
  BY ShortLists
<1>3. ListProper(k, <<q, b>>) /\ Len(<<q, b>>) <= 3
  BY ProperLists
<1> QED
  BY <1>1, <1>3, <1>2 DEF CreateDelivers

\* A POST of everything that is planned.
LEMMA PlanBegins ==
  ASSUME NotSetIsNoValue, NEW k \in MergedKinds, NEW p, PlanOK(k, p), NEW f,
         DOMAIN f = ObjectAttrs(k), \A a \in ObjectAttrs(k) : f[a] = OnServer(a, p[a]) \/ a = "flag"
  PROVE  LET q == Asks("post", p.name, [plain |-> f])
         IN Makes(q, p.name) /\ Undoable(k, q) /\ Begins(k, q, p)
<1>1. ASSUME NEW a \in ObjectAttrs(k)
      PROVE  Proper(a, f[a]) /\ Fits(k, a, p[a], f[a])
  <2> DEFINE v == p[a]
  <2>1. Sound(k, a, v)
    BY DEF PlanOK, SoundAll, ObjectAttrs, AttrsOf
  <2>2. f[a] = OnServer(a, v) \/ a = "flag"
    OBVIOUS
  <2> HIDE DEF v
  <2>3. a \in {"comment", "props", "members"} => Proper(a, OnServer(a, v))
    BY <2>1, SoundOnServer
  <2>4. a \notin {"comment", "props", "members"} => Proper(a, f[a])
    BY DEF Proper
  <2>5. Proper(a, f[a])
    BY <2>2, <2>3, <2>4
  <2>6. a = "flag" => Fits(k, a, v, f[a])
    BY DEF Fits
  <2> QED
    BY SentFits, <2>2, <2>5, <2>6 DEF v
<1> QED
  BY <1>1, PostBegins DEF OnServer, AsMap

\* Whatever a Create plans, its requests make an object that shows it.
LEMMA CreateFits ==
  ASSUME NotSetIsNoValue, NEW k \in MergedKinds, NEW p, PlanOK(k, p), DOMAIN p = AttrsOf(k),
         p.name \in Names \/ (k \in PartitionKinds /\ p.name = Unknown),
         k = "idp_user" => p.members = Unknown
  PROVE  CreateDelivers(k, Creates(k, p), p)
<1>1. SoundAll(k, p)
  BY DEF PlanOK
<1>2. CASE k \in {"schema", "topic", "model", "fileset", "tag", "policy", "view", "derived_view", "role",
                  "job_template"} \cup PartitionKinds
  <2> DEFINE attrs == AttrsOf(k)
             f == [a \in attrs \ {"name"} |-> OnServer(a, p[a])]
             q == Asks("post", p.name, [plain |-> f])
             g == Get(p.name)
  <2>1. attrs \ {"name"} = ObjectAttrs(k)
    BY <1>2, MergedSchemas DEF ObjectAttrs, AttrsOf, PartitionKinds
  <2>2. Makes(q, p.name) /\ Undoable(k, q) /\ Begins(k, q, p)
    <3>1. DOMAIN f = ObjectAttrs(k) /\ \A a \in ObjectAttrs(k) : f[a] = OnServer(a, p[a])
      BY <2>1
    <3> HIDE DEF f
    <3> QED
      BY <3>1, PlanBegins
  <2>3. Post(p, attrs) = q
    BY DEF Post
  <2>4. IF k = "job_template" THEN Creates(k, p) = <<Post(p, attrs), g>> ELSE Creates(k, p) = <<Post(p, attrs)>>
    <3>1. CASE k = "derived_view"
      BY <3>1 DEF Creates, ViewCreate, AttrsOf, SchemaOf, ViewSchema, DerivedViewSchema
    <3> QED
      BY <3>1, <1>2 DEF Creates, SchemaCreate, TopicCreate, ModelCreate, FilesetCreate, TagCreate, PolicyCreate, ViewCreate,
         RoleCreate, JobTemplateCreate, PartitionCreate, AttrsOf, SchemaOf, PartitionKinds
  <2>5. Undoable(k, g) /\ Leads(k, g, p, p)
    BY GetLeads
  <2> HIDE DEF q, attrs
  <2>6. CASE k # "job_template"
    BY <2>2, <2>3, <2>4, <2>6, CreatesOfOne
  <2>7. CASE k = "job_template"
    <3>1. Stays(g, p.name)
      BY <2>7, Following DEF PartitionKinds
    <3> HIDE DEF g
    <3> QED
      BY <2>2, <2>3, <2>4, <2>5, <2>7, <3>1, CreatesOfTwo DEF g
  <2> QED
    BY <2>6, <2>7
<1>3. CASE k = "catalog"
  <2> DEFINE f == [comment |-> OnServer("comment", p.comment), props |-> AsMap(p.props), flag |-> TRUE]
             q == Asks("post", p.name, [plain |-> f])
             d == Asks("patch", p.name, [plain |-> [flag |-> FALSE]])
  <2>1. ObjectAttrs(k) = {"comment", "props", "flag"} /\ k \notin PartitionKinds /\ p.name \in Names
    BY <1>3, MergedSchemas DEF ObjectAttrs, AttrsOf, PartitionKinds
  <2>2. Makes(q, p.name) /\ Undoable(k, q) /\ Begins(k, q, p)
    <3>1. DOMAIN f = ObjectAttrs(k) /\ \A a \in ObjectAttrs(k) : f[a] = OnServer(a, p[a]) \/ a = "flag"
      BY <2>1 DEF OnServer
    <3> HIDE DEF f
    <3> QED
      BY <3>1, PlanBegins
  <2>3. Undoable(k, d) /\ Leads(k, d, p, p)
    BY <1>1, <2>1, PatchLeads
  <2>4. Stays(d, p.name)
    BY <2>1, Following
  <2>5. Creates(k, p) \in {<<q>> \o <<>>, <<q>> \o <<d>>}
    BY <1>3 DEF Creates, CatalogCreate, Enable
  <2> HIDE DEF q, d
  <2>6. Creates(k, p) \in {<<q>>, <<q, d>>}
    BY <2>5, Appended
  <2> QED
    BY <2>2, <2>3, <2>4, <2>6, CreatesOfOne, CreatesOfTwo
<1>4. CASE k \in {"user", "group", "idp_group"}
  <2> DEFINE f == [members |-> {}]
             q == Asks("post", p.name, [plain |-> f])
             c == [add |-> p.members]
             b == Asks("put", p.name, c)
  <2>1. ObjectAttrs(k) = {"members"} /\ "members" \in AttrsOf(k) \ {"name"} /\ p.name \in Names
    BY <1>4, MergedSchemas DEF ObjectAttrs, AttrsOf, PartitionKinds
  <2>2. Makes(q, p.name) /\ Undoable(k, q) /\ Begins(k, q, f)
    <3>1. DOMAIN f = {"members"} /\ f["members"] = {}
      OBVIOUS
    <3> HIDE DEF f
    <3>2. \A a \in ObjectAttrs(k) : Proper(a, f[a]) /\ Fits(k, a, f[a], f[a])
      BY <2>1, <3>1 DEF Proper, Fits
    <3>3. PICK r : r = f
      OBVIOUS
    <3> QED
      BY <3>3, <2>1, <3>1, <3>2, PostBegins
  <2>3. Creates(k, p) = IF AsSet(p.members) = {} THEN <<q>> \o <<>> ELSE <<q>> \o <<b>>
    BY <1>4 DEF Creates, UserCreate, GroupCreate, IdpGroupCreate, Bare, Join
  <2>4. p["members"] = Unknown \/ (p["members"] \in SUBSET Members /\ AsSet(p["members"]) = p["members"])
    BY <1>4, ComputedAttributes, <1>1, <2>1 DEF PlanOK, SoundAll, Sound, Proper, NotSet, AsSet
  <2> HIDE DEF q
  <2>5. CASE AsSet(p["members"]) = {}
    <3>1. Begins(k, q, p)
      BY <2>1, <2>2, <2>4, <2>5 DEF Begins, FitsAll, Fits
    <3>2. Creates(k, p) = <<q>>
      BY <2>3, <2>5, Appended
    <3> QED
      BY <2>2, <3>1, <3>2, CreatesOfOne
  <2>6. CASE AsSet(p["members"]) # {}
    <3>1. p["members"] \in SUBSET Members
      BY <2>4, <2>6 DEF AsSet, NotSet
    <3>2. /\ PartOf(c, "plain") = NoMap /\ PartOf(c, "add") = p["members"] /\ PartOf(c, "remove") = {}
      BY PartsOfNothing DEF PartOf
    <3>3. f["members"] = {} /\ {} # Unknown
      BY DEF NotSetIsNoValue, NotSet
    <3>4. NameKept(c)
      BY DEF NameKept, PlainOf, NoMap
    <3> HIDE DEF c, f
    <3>5. Undoable(k, b) /\ Leads(k, b, f, p)
      BY <3>2, <3>3, <1>4, <3>1, JoinLeads
    <3>6. Stays(b, p.name)
      BY <2>1, <3>4, Staying
    <3> HIDE DEF b
    <3>7. Creates(k, p) = <<q, b>>
      BY <2>3, <2>6, Appended
    <3> QED
      BY <2>2, <3>5, <3>6, <3>7, CreatesOfTwo
  <2> QED
    BY <2>5, <2>6
<1>5. CASE k = "idp_user"
  <2> DEFINE f == [members |-> {}, secret |-> p.secret]
             q == Asks("post", p.name, [plain |-> f])
  <2>1. ObjectAttrs(k) = {"members", "secret"}
    BY <1>5, MergedSchemas DEF ObjectAttrs, AttrsOf
  <2>2. Makes(q, p.name) /\ Undoable(k, q) /\ Begins(k, q, p)
    <3>1. DOMAIN f = ObjectAttrs(k) /\ f["members"] = {}
      BY <2>1
    <3> HIDE DEF f
    <3>2. \A a \in ObjectAttrs(k) : Proper(a, f[a]) /\ Fits(k, a, p[a], f[a])
      BY <1>5, <2>1, <3>1 DEF Proper, Fits
    <3> QED
      BY <2>1, <3>1, <3>2, PostBegins
  <2>3. Creates(k, p) = <<q>>
    BY <1>5 DEF Creates, IdpUserCreate
  <2> HIDE DEF q
  <2> QED
    BY <2>2, <2>3, CreatesOfOne
<1> QED
  BY <1>2, <1>3, <1>4, <1>5 DEF MergedKinds, PartitionKinds

-----------------------------------------------------------------------------
(* Configurations, plans and what is read.                                 *)

ConfigSound(k, c) ==
  /\ SoundAll(k, c)
  /\ \A a \in {"flag", "force"} \cap AttrsOf(k) : c[a] # Null
  /\ \A a \in AttrsOf(k) \ {"name"} : c[a] # Unknown
  /\ k = "idp_user" => c["members"] = Null

\* What can be configured is sound.
LEMMA Configurables ==
  ASSUME NotSetIsNoValue, kind \in MergedKinds, NEW a \in AttrsOf(kind) \ {"name"}, NEW v \in ConfigurableAs(a)
  PROVE  /\ Sound(kind, a, v) /\ v # Unknown
         /\ a \in {"flag", "force"} => v # Null
         /\ a = "members" /\ kind = "idp_user" => v = Null
<1>1. ASSUME NEW m \in Maps
      PROVE  Record(m) /\ ManagedKey \notin DOMAIN m
  BY ManagedAssumption DEF Maps, Record
<1>2. CASE a = "comment"
  BY <1>2, ValueAssumption DEF ConfigurableAs, Texts, Sound, Proper, NotSet, NotSetIsNoValue
<1>3. CASE a = "props"
  BY <1>3, <1>1, ValueAssumption DEF ConfigurableAs, NotSet, NotSetIsNoValue, Sound, Proper
<1>4. CASE a = "members"
  BY <1>4, ValueAssumption DEF ConfigurableAs, NotSet, NotSetIsNoValue, Sound, Proper
<1>5. CASE a \in {"flag", "force"}
  BY <1>5 DEF ConfigurableAs, NotSetIsNoValue, Sound, Proper, NotSet
<1>6. CASE a \in {"content", "secret"}
  BY <1>6 DEF ConfigurableAs, NotSet, NotSetIsNoValue, Sound, Proper
<1>7. a \in {"comment", "props", "members", "content", "flag", "force", "secret"}
  BY MergedSchemas DEF MergedKinds, PartitionKinds
<1> QED
  BY <1>2, <1>3, <1>4, <1>5, <1>6, <1>7

\* So is the configuration it starts with.
LEMMA FirstConfigSound ==
  ASSUME NotSetIsNoValue, kind \in MergedKinds
  PROVE  ConfigSound(kind, FirstConfig)
<1>1. ASSUME NEW a \in AttrsOf(kind) \ {"name"}
      PROVE  /\ Sound(kind, a, FirstConfig[a]) /\ FirstConfig[a] # Unknown
             /\ a \in {"flag", "force"} => FirstConfig[a] # Null
             /\ a = "members" /\ kind = "idp_user" => FirstConfig[a] = Null
  <2>1. FirstValue(a) \in ConfigurableAs(a)
    <3>1. a \in {"comment", "props", "members", "content", "flag", "force", "secret"}
      BY <1>1, MergedSchemas DEF MergedKinds, PartitionKinds
    <3>2. [k \in Keys |-> "1"] \in Maps
      BY DEF Maps
    <3> QED
      BY <3>1, <3>2 DEF FirstValue, ConfigurableAs
  <2> QED
    BY <2>1, Configurables DEF FirstConfig, Attrs, AttrsOf
<1> QED
  BY <1>1, MergedSchemas DEF ConfigSound, SoundAll

\* What is planned of an attribute of the merged kinds.
LEMMA PlainPlans ==
  ASSUME NEW k \in MergedKinds, NEW c, NEW s, NEW a \in AttrsOf(k) \ {"name"}
  PROVE  /\ PlanCreate(k, c)[a] = IF NotConfigured(k, c, a) THEN Unknown ELSE c[a]
         /\ PlanUpdate(k, c, s)[a] =
              IF ~NotConfigured(k, c, a) THEN c[a]
              ELSE IF SameAsState(k, c, s) \/ (a \in SchemaOf(k).keep /\ s[a] # Null) THEN s[a]
              ELSE Unknown
<1>1. a # "index" /\ k \notin {"function", "table"}
  BY MergedSchemas DEF MergedKinds, PartitionKinds
<1>2. ASSUME NEW f, a \in DOMAIN f
      PROVE  Modified(k, f)[a] = f[a]
  BY <1>1, <1>2 DEF Modified, IdentityName
<1>3. PlanCreate(k, c)[a] = IF NotConfigured(k, c, a) THEN Unknown ELSE c[a]
  <2> DEFINE f == [x \in SchemaOf(k).attrs |->
                     IF c[x] = Null /\ x \in SchemaOf(k).computed THEN Unknown
                     ELSE Fill(x, c[x], Unknown)]
  <2> HIDE DEF f
  <2> QED
    BY <1>2, <1>1 DEF NotConfigured, Fill, AttrsOf, PlanCreate
<1>4. PlanUpdate(k, c, s)[a] =
              IF ~NotConfigured(k, c, a) THEN c[a]
              ELSE IF SameAsState(k, c, s) \/ (a \in SchemaOf(k).keep /\ s[a] # Null) THEN s[a]
              ELSE Unknown
  <2> DEFINE sch == SchemaOf(k)
             same == SameAsState(k, c, s)
             kept(x) == same \/ (x \in sch.keep /\ s[x] # Null)
             g == [x \in sch.attrs |->
                     IF ~NotConfigured(k, c, x)
                     THEN Fill(x, c[x], IF x = "index" /\ same THEN IndexName(s) ELSE Unknown)
                     ELSE IF kept(x) THEN s[x] ELSE Unknown]
  <2> HIDE DEF g
  <2> QED
    BY <1>2, <1>1 DEF Fill, AttrsOf, PlanUpdate
<1> QED
  BY <1>3, <1>4

\* The plan of a Create is sound, and leaves unknown what it does not configure.
LEMMA CreatePlanOK ==
  ASSUME NotSetIsNoValue, NEW k \in MergedKinds, NEW c, ConfigSound(k, c), c.name # Null \/ k = "identity"
  PROVE  LET p == PlanCreate(k, c)
         IN PlanOK(k, p) /\ (k = "idp_user" => p.members = Unknown)
<1> DEFINE p == PlanCreate(k, c)
<1>1. ASSUME NEW a \in AttrsOf(k) \ {"name"}
      PROVE  p[a] = IF NotConfigured(k, c, a) THEN Unknown ELSE c[a]
  BY PlainPlans
<1>2. p.name = IF k = "identity" THEN Unknown ELSE c.name
  <2>1. k \in AllKinds
    BY DEF MergedKinds, AllKinds
  <2> QED
    BY <2>1, Plans
<1> HIDE DEF p
<1>3. SchemaOf(k).computed \subseteq AttrsOf(k)
  BY DEF AttrsOf, MergedKinds, SchemaOf, CatalogSchema, SchemaSchema, TopicSchema, ModelSchema,
     FilesetSchema, TagSchema, PolicySchema, ViewSchema, DerivedViewSchema, JobTemplateSchema, PartitionSchema, UserSchema, GroupSchema,
     RoleSchema, IdpUserSchema, IdpGroupSchema
<1>4. ASSUME NEW a \in SchemaOf(k).computed \cup ({"flag", "force"} \cap AttrsOf(k))
      PROVE  p[a] # Null
  BY <1>2, ValueAssumption, <1>1, <1>3, <1>4 DEF PartitionKinds, NotConfigured, ConfigSound
<1>5. k = "idp_user" => p["members"] = Unknown
  BY ComputedAttributes, <1>1, <1>3 DEF NotConfigured, ConfigSound
<1> QED
  BY <1>1, <1>4, <1>5 DEF PlanOK, p, Sound, NotSet, SoundAll, ConfigSound

\* An update that is the state after all is none; any other keeps what is not replaced.
LEMMA UpdatePlanOK ==
  ASSUME NotSetIsNoValue, NEW k \in MergedKinds, k \notin PartitionKinds,
         NEW c, ConfigSound(k, c), c.name # Null,
         NEW s, StateGood(k, s), Record(s), DOMAIN s = AttrsOf(k),
         ~(PlanUpdate(k, c, s) = s /\ SameAsState(k, c, s)),
         ~Replaces(k, c, PlanUpdate(k, c, s), s)
  PROVE  LET p == PlanUpdate(k, c, s)
         IN /\ PlanOK(k, p)
            /\ k \in {"schema", "view", "derived_view"} => p.comment = s.comment
            /\ k = "role" => p.props \in {Unknown, s.props}
            /\ k = "idp_user" => p.members \in {Unknown, s.members}
<1> DEFINE p == PlanUpdate(k, c, s)
           same == SameAsState(k, c, s)
<1>1. ASSUME NEW a \in AttrsOf(k) \ {"name"}
      PROVE  p[a] = IF ~NotConfigured(k, c, a) THEN c[a]
                    ELSE IF same \/ (a \in SchemaOf(k).keep /\ s[a] # Null) THEN s[a]
                    ELSE Unknown
  BY PlainPlans
<1>2. Record(p) /\ DOMAIN p = AttrsOf(k) /\ p.name = c.name
  BY Plans DEF AttrsOf, MergedKinds, AllKinds, PartitionKinds
<1>3. "index" \notin AttrsOf(k) /\ "name" \in AttrsOf(k)
  BY MergedSchemas DEF MergedKinds, PartitionKinds
<1>4. Replaces(k, c, p, s) <=> ((\E a \in SchemaOf(k).replace : p[a] # s[a] /\ ~(k = "identity" /\ a = "name"))
                               \/ (k = "role" /\ RolePropertiesReplaced(c, p, s)))
  BY DEF Replaces, MergedKinds
<1> HIDE DEF p, same
<1>5. ~same
  BY <1>1, <1>3, <1>2 DEF p, same, NotConfigured, Record, SameAsState, AttrsOf
<1>6. SchemaOf(k).computed \subseteq AttrsOf(k) \ {"name"}
  BY DEF AttrsOf, MergedKinds, PartitionKinds, SchemaOf, CatalogSchema, SchemaSchema, TopicSchema,
     ModelSchema, FilesetSchema, TagSchema, PolicySchema, ViewSchema, DerivedViewSchema, JobTemplateSchema, UserSchema, GroupSchema,
     RoleSchema, IdpUserSchema, IdpGroupSchema
<1>7. SoundAll(k, p)
  BY <1>1 DEF Sound, NotSet, SoundAll, ConfigSound, StateGood
<1>8. \A a \in SchemaOf(k).computed \cup ({"flag", "force"} \cap AttrsOf(k)) : p[a] # Null
  BY <1>1, <1>5, <1>6, ValueAssumption DEF NotConfigured, ConfigSound
<1>9. ~Replaces(k, c, p, s)
  BY DEF p
<1>10. k \in {"schema", "view", "derived_view"} => p["comment"] = s["comment"]
  BY <1>4, <1>9 DEF SchemaOf, SchemaSchema, ViewSchema, DerivedViewSchema
<1>11. k = "role" => p["props"] \in {Unknown, s["props"]}
  BY ComputedAttributes, <1>4, <1>9, <1>1, <1>6 DEF RolePropertiesReplaced, NotConfigured
<1>12. k = "idp_user" => p["members"] \in {Unknown, s["members"]}
  BY ComputedAttributes, <1>1, <1>6 DEF NotConfigured, ConfigSound
<1> QED
  BY <1>7, <1>8, <1>10, <1>11, <1>12 DEF PlanOK, p

\* What is read of an object, and what the object has to show for it.
LEMMA ReadGood ==
  ASSUME NotSetIsNoValue, NEW k \in MergedKinds, NEW srv, NEW n, ObjectOK(k, srv[n]),
         NEW m, DOMAIN m = AttrsOf(k), SoundAll(k, m)
  PROVE  LET s == Refreshed(k, View(srv, n), m, {ManagedKey})
         IN /\ StateGood(k, s) /\ FitsAll(k, s, srv[n]) /\ s.name = n
            /\ k = "policy" => s.flag = srv[n].flag
<1> DEFINE o == srv[n]
           v == View(srv, n)
           s == Refreshed(k, v, m, {ManagedKey})
<1>1. v # Null /\ v.name = n
  BY NullIsNone, Views
<1>2. \A a \in ObjectAttrs(k) : v[a] = o[a] /\ Proper(a, o[a])
  <2>1. v = Overlay([name |-> n], o)
    BY DEF View
  <2>2. DOMAIN o = ObjectAttrs(k) /\ "name" \notin ObjectAttrs(k) /\ ProperAll(k, o)
    BY DEF ObjectOK, ObjectAttrs
  <2> HIDE DEF o, v
  <2> QED
    BY <2>1, <2>2 DEF Overlay, ProperAll
<1> HIDE DEF v, o
<1>3. SoundAll(k, s) /\ FitsAll(k, s, v)
  BY <1>1, <1>2, ReadFits DEF ProperAll
<1>4. /\ k \in {"catalog"} => s.props = MergeCatalogProperties(v.props, m.props, {ManagedKey})
      /\ k \in {"tag", "topic"} => s.props = PropertiesToState(v.props, m.props)
      /\ k = "policy" => s.props = ReconcileStringMap(v.props, m.props)
      /\ k \in PartitionKinds => s.props = MergePartitionProperties(v.props, m.props)
      /\ k \in PlainMaps => s.props = MapFromResponse(v.props, m.props)
      /\ k = "fileset" => s.props = FilesetProperties(v.props, m.props)
      /\ k = "policy" => s.flag = v.flag
      /\ k = "job_template" => s.props = MapToTF(v.props)
      /\ k = "role" => s.props = v.props
      /\ k \in {"user", "group", "role", "idp_user", "idp_group"} => s.members = v.members
      /\ s.name = v.name
  BY <1>1, ReadParts
<1> HIDE DEF s
<1>5. FitsAll(k, s, o)
  BY <1>2, <1>3 DEF FitsAll
<1>6. "members" \in ObjectAttrs(k) => s["members"] \notin NotSet
  BY MergedSchemas, <1>2, <1>4 DEF ObjectAttrs, AttrsOf, MergedKinds, PartitionKinds, Proper,
                                   NotSetIsNoValue
<1>7. "props" \in ObjectAttrs(k) => s["props"] # Unknown
  <2> SUFFICES ASSUME "props" \in ObjectAttrs(k)
               PROVE  s["props"] # Unknown
    OBVIOUS
  <2> DEFINE w == v["props"]
             n0 == m["props"]
             t == s["props"]
  <2>1. Record(w) /\ w # Unknown
    BY <1>2 DEF Proper, NotSetIsNoValue, NotSet
  <2>2. \/ t = MergeCatalogProperties(w, n0, {ManagedKey}) \/ t = PropertiesToState(w, n0)
        \/ t = ReconcileStringMap(w, n0) \/ t = MergePartitionProperties(w, n0)
        \/ t = MapFromResponse(w, n0) \/ t = MapToTF(w) \/ t = w \/ t = FilesetProperties(w, n0)
    BY <1>4, MergedSchemas DEF MergedKinds, PartitionKinds, ObjectAttrs, AttrsOf, PlainMaps
  <2> HIDE DEF w, n0, t
  <2>3. \A f, g : Record(ProjectProperties(f, g)) /\ Record(Only(f, g)) /\ Record(NoMap)
    BY DEF ProjectProperties, Only, Record, NoMap
  <2>4. ~Record(Unknown) /\ Null # Unknown
    BY ValueAssumption DEF NotSetIsNoValue, NotSet
  <2>5. t # Unknown
    BY <2>1, <2>2, <2>3, <2>4 DEF MergeCatalogProperties, PropertiesToState, ReconcileStringMap,
       MergePartitionProperties, MapFromResponse, MapToTF, FilesetProperties, ServerProperties
  <2> QED
    BY <2>5 DEF t
<1>8. k = "policy" => s["flag"] = o["flag"]
  BY MergedSchemas, <1>2, <1>4 DEF ObjectAttrs, AttrsOf
<1> QED
  BY <1>1, <1>3, <1>4, <1>5, <1>6, <1>7, <1>8 DEF StateGood, s, o, v

-----------------------------------------------------------------------------
(* The flag of a policy, which a request of its own sets.                    *)

\* Which flag a PUT or a PATCH leaves a policy with.
LEMMA FlagAfter ==
  ASSUME NEW v \in {"put", "patch"}, NEW n, NEW c, NEW f, PartOf(c, "plain") = f,
         NEW o, DOMAIN o = ObjectAttrs("policy")
  PROVE  LET r == Result("policy", Asks(v, n, c), o)
         IN /\ DOMAIN r = ObjectAttrs("policy")
            /\ r["flag"] = IF "flag" \in DOMAIN f THEN f["flag"] ELSE o["flag"]
<1> DEFINE q == Asks(v, n, c)
           d == Changed(o, Renamed(q.changes))
<1>1. q.verb = v /\ DOMAIN Nothing \subseteq DOMAIN q.changes /\ q.changes.plain = f
  BY Asked, PartsOfNothing, PartsOfRequest DEF Asks
<1>2. Result("policy", q, o) = Added("policy", d)
  BY <1>1 DEF Result
<1>3. "policy" \in MergedKinds /\ "policy" \notin ManagedKinds /\ "flag" \in ObjectAttrs("policy")
  BY MergedSchemas, MergedObjects DEF MergedKinds, PartitionKinds, HidingKinds, ObjectAttrs, AttrsOf
<1> HIDE DEF q
<1>4. ChangedAs(o, q.changes, d)
  BY <1>1, <1>3, ChangedParts
<1> HIDE DEF d
<1> QED
  BY <1>2, <1>1, <1>3, <1>4, AddedParts DEF q, ChangedAs, Old

\* An update leaves the planned flag, with a PATCH or because it is there already.
LEMMA PolicyFlagTurns ==
  ASSUME NEW p, "flag" \in DOMAIN p, p["flag"] # Unknown, NEW s,
         NEW o, DOMAIN o = ObjectAttrs("policy"), o["flag"] = s["flag"]
  PROVE  Ahead("policy", Updates("policy", p, s), o)["flag"] = p["flag"]
<1> DEFINE attrs == PolicyAttrs(p, s)
           f == PlainUpdates(p, s, attrs)
           c == Overlay([plain |-> f], Nothing)
           q == Asks("put", s.name, c)
           e == [plain |-> [flag |-> p.flag]]
           a == Asks("patch", p.name, e)
           l == Updates("policy", p, s)
           put(x) == Result("policy", q, x)
           patch(x) == Result("policy", a, x)
<1>1. PartOf(c, "plain") = f /\ "flag" \notin DOMAIN f
  <2>1. "flag" \notin DOMAIN f
    BY DEF PlainUpdates, PolicyAttrs
  <2> HIDE DEF f
  <2> QED
    BY <2>1 DEF PartOf, Overlay
<1>2. PartOf(e, "plain") = [flag |-> p["flag"]]
  BY DEF PartOf
<1>3. l = Send(s, c) \o PolicyPatch(p, s)
  BY DEF Updates, PolicyUpdate
<1>4. Send(s, c) \in {<<>>, <<q>>}
  BY DEF Send
<1>5. IF p["flag"] = s["flag"] THEN PolicyPatch(p, s) = <<>> ELSE PolicyPatch(p, s) = <<a>>
  BY DEF PolicyPatch, Differs
<1> HIDE DEF attrs, f, c, e, l
<1>6. \A x : DOMAIN x = ObjectAttrs("policy") =>
              DOMAIN put(x) = ObjectAttrs("policy") /\ put(x)["flag"] = x["flag"]
  BY <1>1, FlagAfter
<1>7. \A x : DOMAIN x = ObjectAttrs("policy") => patch(x)["flag"] = p["flag"]
  BY <1>2, FlagAfter
<1> HIDE DEF q, a
<1>8. IF p["flag"] = s["flag"] THEN l \in {<<>>, <<q>>} ELSE l \in {<<a>>, <<q, a>>}
  BY <1>3, <1>4, <1>5, Appended
<1>9. /\ Ahead("policy", <<>>, o) = o /\ Ahead("policy", <<q>>, o) = put(o)
      /\ Ahead("policy", <<a>>, o) = patch(o) /\ Ahead("policy", <<q, a>>, o) = patch(put(o))
  BY DEF Ahead
<1> HIDE DEF put, patch
<1> QED
  BY <1>6, <1>7, <1>8, <1>9 DEF l

\* A new policy has the planned flag.
LEMMA PolicyFlagMade ==
  ASSUME NEW p, NEW o
  PROVE  Ahead("policy", Creates("policy", p), o)["flag"] = p["flag"]
<1> DEFINE f == [a \in {"comment", "props", "flag"} |-> OnServer(a, p[a])]
           c == [plain |-> f]
           q == Asks("post", p.name, c)
<1>1. Creates("policy", p) = <<q>>
  BY DEF Creates, PolicyCreate, Post, PolicySchema
<1>2. f["flag"] = p["flag"] /\ "flag" \in DOMAIN f
  BY DEF OnServer
<1> HIDE DEF f
<1>3. PartOf(c, "plain") = f
  BY DEF PartOf
<1> HIDE DEF c
<1>4. q.verb = "post" /\ q.changes.plain = f
  BY Asked, PartsOfNothing, <1>3, PartsOfRequest DEF Asks
<1> HIDE DEF q
<1>5. Result("policy", q, o) = Added("policy", f)
  BY <1>4 DEF Result
<1> QED
  BY <1>1, <1>2, <1>5, AddedParts DEF Ahead

-----------------------------------------------------------------------------
(* What every state satisfies of the values in it.                         *)

\* A request that carries nothing.
LEMMA EmptyRequests ==
  ASSUME NEW k, NEW v \in {"delete", "force", "unsupported"}, NEW n,
         NEW u, \A j \in DOMAIN u : RequestProper(k, u[j])
  PROVE  Undoable(k, AsksOrElse(v, n, Nothing, u))
<1> DEFINE q == AsksOrElse(v, n, Nothing, u)
<1>1. q.verb = v /\ q.undo = u
  BY Asked
<1>2. DOMAIN NoMap = {}
  BY DEF NoMap
<1> QED
  BY PartsOfRequest, PartsOfNothing, <1>1, <1>2 DEF Undoable, RequestProper, PartOf

\* The requests of a delete.
LEMMA DeletesProper ==
  ASSUME NEW k \in MergedKinds, NEW s
  PROVE  ListProper(k, Deletes(k, s))
<1>1. ASSUME NEW f, k = "catalog"
      PROVE  LET q == Asks("patch", s.name, [plain |-> [flag |-> f]])
             IN Undoable(k, q) /\ RequestProper(k, q)
  <2> DEFINE m == [a \in AttrsOf(k) |-> Null]
  <2>1. SoundAll(k, m)
    BY DEF SoundAll, Sound, NotSet
  <2> HIDE DEF m
  <2> QED
    BY <2>1, <1>1, PatchLeads DEF Undoable, PartitionKinds
<1>2. CASE k = "catalog" /\ s.force
  <2> DEFINE q == Asks("force", s.name, Nothing)
  <2>1. Deletes(k, s) = <<q>>
    BY <1>2 DEF Deletes, CatalogDelete
  <2>2. Undoable(k, q)
    BY EmptyRequests DEF Asks
  <2> HIDE DEF q
  <2> QED
    BY <2>1, <2>2, ProperLists
<1>3. CASE k = "catalog" /\ ~s.force
  <2> DEFINE e == Asks("patch", s.name, [plain |-> [flag |-> FALSE]])
             b == Asks("patch", s.name, [plain |-> [flag |-> TRUE]])
             u == IF s.flag THEN <<b>> ELSE <<>>
             q == AsksOrElse("delete", s.name, Nothing, u)
  <2>1. Deletes(k, s) = <<e>> \o <<q>>
    BY <1>3 DEF Deletes, CatalogDelete, Enable
  <2>2. Undoable(k, e) /\ RequestProper(k, b)
    BY <1>1, <1>3
  <2> HIDE DEF e, b
  <2>3. \A j \in DOMAIN u : RequestProper(k, u[j])
    BY <2>2
  <2> HIDE DEF u
  <2>4. Undoable(k, q)
    BY <2>3, EmptyRequests
  <2> HIDE DEF q
  <2>5. <<e>> \o <<q>> = <<e, q>>
    BY Appended
  <2> QED
    BY <2>1, <2>2, <2>4, <2>5, ProperLists
<1>4. CASE k # "catalog"
  <2> DEFINE q == Asks("delete", s.name, Nothing)
  <2>1. Deletes(k, s) = <<q>>
    BY <1>4 DEF Deletes, MergedKinds, SchemaDelete, FilesetDelete, TopicDelete, ModelDelete, TagDelete, PolicyDelete,
         ViewDelete, JobTemplateDelete, PartitionDelete, UserDelete, GroupDelete, RoleDelete,
         IdpUserDelete, IdpGroupDelete, Drop
  <2>2. Undoable(k, q)
    BY EmptyRequests DEF Asks
  <2> HIDE DEF q
  <2> QED
    BY <2>1, <2>2, ProperLists
<1> QED
  BY <1>2, <1>3, <1>4

\* The object a request leaves behind, and the others.
LEMMA ServerParts ==
  ASSUME kind # "table", NEW q
  PROVE  /\ q.verb \in {"get", "list"} => After(q) = server
         /\ q.verb = "post" => After(q)[NameGiven(q)] = Result(kind, q, NoMap)
         /\ q.verb \notin {"get", "list", "post", "delete", "force"} =>
              After(q)[TargetOf(q)] = Result(kind, q, server[q.target])
         /\ \A n \in DOMAIN After(q) :
              \/ n \in DOMAIN server /\ After(q)[n] = server[n]
              \/ q.verb = "post" /\ n = NameGiven(q)
              \/ q.verb \notin {"get", "list", "post", "delete", "force"} /\ n = TargetOf(q)
<1>1. \A o : WithManaged(o) = Added(kind, o)
  <2>1. AddedKeys = {ManagedKey}
    BY DEF AddedKeys
  <2> QED
    BY <2>1 DEF WithManaged, Added
<1>2. CASE q.verb \in {"get", "list"}
  BY <1>2 DEF After
<1>3. CASE q.verb = "post"
  <2> DEFINE n == NameGiven(q)
             o == Added(kind, q.changes.plain)
  <2>1. After(q) = Overlay([m \in {n} |-> o], server)
    BY <1>1, <1>3 DEF After
  <2>2. Result(kind, q, NoMap) = o
    BY <1>3 DEF Result
  <2> HIDE DEF n, o
  <2> QED
    BY <1>3, <2>2, <2>1 DEF n, Overlay
<1>4. CASE q.verb \in {"delete", "force"}
  BY <1>4 DEF After, Only
<1>5. CASE q.verb \notin {"get", "list", "post", "delete", "force"}
  <2> DEFINE n == TargetOf(q)
             o == Added(kind, Changed(server[q.target], Renamed(q.changes)))
  <2>1. After(q) = Overlay([m \in {n} |-> o], Only(server, DOMAIN server \ {q.target}))
    BY <1>1, <1>5 DEF After, Renamed
  <2>2. Result(kind, q, server[q.target]) = o
    BY <1>5 DEF Result
  <2> HIDE DEF n, o
  <2> QED
    BY <1>5, <2>2, <2>1 DEF n, Overlay, Only
<1> QED
  BY <1>2, <1>3, <1>4, <1>5

\* What the values are that an invariant speaks of: those configured, on the server, in
\* state, planned, asked for and answered.
ConfigValues == config # Null => ConfigSound(kind, config)
ServerValues == \A n \in DOMAIN server : ObjectOK(kind, server[n])
StateValues == state # Null => SoundAll(kind, state)
PlannedValues ==
  /\ pc = "create" \/ (pc = "update" /\ kind \notin PartitionKinds) => PlanOK(kind, planned)
  /\ pc = "update" /\ kind = "idp_user" => planned.members \in {Unknown, state.members}
RequestValues == /\ ListProper(kind, todo)
                 /\ pc = "update" /\ kind \in PartitionKinds =>
                      todo # <<>> /\ todo[1].verb = "unsupported"
AnswerValues == answer # Null => ProperAll(kind, answer)
HandlerValues == PlannedValues /\ RequestValues /\ AnswerValues
ValueInv == ConfigValues /\ ServerValues /\ StateValues /\ HandlerValues

\* The object a handler works on, which nobody else has touched since the plan: it is at n;
\* what is still to be sent keeps it there, or moves it to the name in the plan, and takes
\* it to the plan; and when no answer is to come any more the last one showed the plan.
Placed(l, n, m) == (StayAll(l, n) /\ m \in {n, Unknown}) \/ MoveOnce(l, n, m)
Quiet(l) == \A i \in DOMAIN l : ~Shows(l[i])
Reaches(k, p, o) == FitsAll(k, p, o) /\ (k = "policy" => o["flag"] = p["flag"])
Working(n) ==
  /\ Len(todo) <= 3 /\ (kind \in PartitionKinds => Len(todo) <= 1)
  /\ Placed(todo, n, planned.name)
  /\ Reaches(kind, planned, Ahead(kind, todo, server[n]))
  /\ pc = "create" => answer # Null
  /\ answer # Null => answer.name = n /\ (Quiet(todo) => FitsAll(kind, planned, answer))
Making == /\ answer = Null /\ CreateDelivers(kind, todo, planned)
          /\ kind = "policy" => \A o : Ahead(kind, todo, o)["flag"] = planned["flag"]
          /\ kind \in PartitionKinds => Len(todo) <= 1
WorkInv ==
  ~disturbed =>
    /\ pc = "create" => Making \/ \E n \in DOMAIN server : Working(n)
    /\ pc = "update" /\ kind \notin PartitionKinds => \E n \in DOMAIN server : Working(n)

\* A handler that has stopped.
LEMMA StoppedValues ==
  ASSUME Stop
  PROVE  HandlerValues' /\ WorkInv'
  BY DEF Stop, PlannedValues, AnswerValues, WorkInv, RequestValues, ListProper, HandlerValues

\* What a partition is made by is one request.
LEMMA PartitionLists ==
  ASSUME NEW k \in PartitionKinds, NEW p
  PROVE  Len(Creates(k, p)) <= 1
  BY DEF Creates, PartitionCreate, PartitionKinds

\* A Create begins with sound values, and with requests that deliver its plan.
LEMMA CreateStartedValues ==
  ASSUME NotSetIsNoValue, kind \in MergedKinds, KindInv, ConfigInv, ConfigValues, config # Null,
         UNCHANGED <<kind, config>>, StartCreate(PlanCreate(kind, config))
  PROVE  HandlerValues' /\ WorkInv'
<1> DEFINE p == PlanCreate(kind, config)
           l == Creates(kind, p)
<1>1. CASE Accepted(kind, p, config, Null)
  <2>1. DOMAIN p = AttrsOf(kind) /\ p.name \in IF kind = "identity" THEN {Unknown} ELSE Names
    BY CreatePlans DEF AttrsOf, Attrs
  <2>2. PlanOK(kind, p) /\ (kind = "idp_user" => p.members = Unknown)
    BY NameAssumption, CreatePlanOK DEF ConfigValues, ConfigInv
  <2>3. Start("create", p, l, FALSE)
    BY <1>1 DEF StartCreate
  <2> HIDE DEF p
  <2>4. CreateDelivers(kind, l, p)
    BY <2>1, <2>2, CreateFits DEF PartitionKinds
  <2>5. /\ kind \in PartitionKinds => Len(l) <= 1
        /\ kind = "policy" => \A o : Ahead(kind, l, o)["flag"] = p["flag"]
    BY PartitionLists, PolicyFlagMade
  <2> HIDE DEF l
  <2>6. pc' = "create" /\ planned' = p /\ todo' = l /\ answer' = Null
    BY <2>3 DEF Start
  <2>7. HandlerValues'
    BY <2>2, <2>4, <2>6 DEF HandlerValues, PlannedValues, RequestValues, AnswerValues, CreateDelivers
  <2>8. WorkInv'
    BY <2>4, <2>5, <2>6 DEF WorkInv, Making
  <2> QED
    BY <2>7, <2>8
<1>2. CASE ~Accepted(kind, p, config, Null)
  BY <1>2, StoppedValues DEF StartCreate
<1> QED
  BY <1>1, <1>2

\* A Delete begins with sound values.
LEMMA DeleteStartedValues ==
  ASSUME kind \in MergedKinds, UNCHANGED kind, NEW s, NEW again,
         Start("delete", s, Deletes(kind, s), again)
  PROVE  HandlerValues' /\ WorkInv'
<1> DEFINE l == Deletes(kind, s)
<1> HIDE DEF l
<1> QED
  BY DeletesProper DEF HandlerValues, PlannedValues, RequestValues, AnswerValues, WorkInv, Start

\* What is read of the server, and what is on it.
LEMMA ReadValues ==
  ASSUME NotSetIsNoValue, kind \in MergedKinds, DataInv, ServerValues, StateValues, ReadState # Null
  PROVE  /\ Record(ReadState) /\ DOMAIN ReadState = AttrsOf(kind)
         /\ StateGood(kind, ReadState) /\ ReadState.name \in DOMAIN server \cap Names
         /\ Reaches(kind, ReadState, server[ReadState.name])
<1> DEFINE n == state.name
<1>1. state # Null /\ ReadState.name = n
  BY NullIsNone, ReadStates
<1>2. CASE ~Exists(n)
  BY <1>1, <1>2, KindKnown, GoneFromState DEF ReadState, DataInv
<1>3. CASE Exists(n)
  <2> DEFINE s == Refreshed(kind, View(server, n), state, {ManagedKey})
  <2>1. ReadState = s
    BY <1>1, <1>3 DEF ReadState
  <2>2. n \in DOMAIN server /\ DOMAIN state = AttrsOf(kind) /\ SoundAll(kind, state)
    BY <1>1, <1>3 DEF Exists, DataInv, StateOK, StateValues, Attrs, AttrsOf
  <2>3. Shaped(s, state)
    BY <2>2, NullIsNone, Views, KindKnown, RefreshedStates DEF DataInv, Attrs, AttrsOf
  <2>4. ObjectOK(kind, server[n]) /\ n \in Names
    BY <2>2 DEF ServerValues, DataInv, ServerInv
  <2> HIDE DEF n
  <2>5. /\ StateGood(kind, s) /\ FitsAll(kind, s, server[n]) /\ s.name = n
        /\ kind = "policy" => s.flag = server[n].flag
    BY <2>2, <2>4, ReadGood
  <2> HIDE DEF s
  <2> QED
    BY <2>1, <2>2, <2>3, <2>4, <2>5 DEF Shaped, Reaches
<1> QED
  BY <1>2, <1>3

\* An Update begins with requests that take what was just read to its plan.
LEMMA UpdateStartedValues ==
  ASSUME NotSetIsNoValue, kind \in MergedKinds, KindInv, ConfigInv, ConfigValues, ServerValues,
         config # Null, UNCHANGED <<kind, config, server>>,
         NEW s, s # Null, Record(s), DOMAIN s = AttrsOf(kind), StateGood(kind, s),
         s.name \in DOMAIN server \cap Names, Reaches(kind, s, server[s.name]), state' = s,
         NEW p, p = PlanUpdate(kind, config, s), ~Replaces(kind, config, p, s),
         ~(p = s /\ SameAsState(kind, config, s)), Start("update", p, Updates(kind, p, s), FALSE)
  PROVE  HandlerValues' /\ WorkInv'
<1> DEFINE l == Updates(kind, p, s)
<1>1. pc' = "update" /\ planned' = p /\ todo' = l /\ answer' = Null
  BY DEF Start
<1>2. CASE kind \in PartitionKinds
  <2> DEFINE q == Asks("unsupported", s.name, Nothing)
  <2>1. l = <<q>>
    BY <1>2 DEF Updates, PartitionUpdate, PartitionKinds
  <2>2. Undoable(kind, q)
    <3>1. \A j \in DOMAIN <<>> : RequestProper(kind, <<>>[j])
      OBVIOUS
    <3> QED
      BY <3>1, EmptyRequests DEF Asks
  <2>3. q.verb = "unsupported"
    BY Asked DEF Asks
  <2> HIDE DEF q, l
  <2>4. ListProper(kind, l) /\ l # <<>> /\ l[1].verb = "unsupported"
    BY <2>1, <2>2, <2>3, ProperLists
  <2>5. kind # "idp_user"
    BY <1>2 DEF PartitionKinds
  <2> QED
    BY <1>1, <1>2, <2>4, <2>5 DEF HandlerValues, PlannedValues, RequestValues, AnswerValues, WorkInv
<1>3. CASE kind \notin PartitionKinds
  <2>1. kind # "identity" /\ kind \notin Attached
    BY <1>3 DEF PartitionKinds, MergedKinds, Attached, StatisticsKinds
  <2>2. PlanOK(kind, p) /\ (kind \in {"schema", "view", "derived_view"} => p.comment = s.comment)
        /\ (kind = "role" => p.props \in {Unknown, s.props})
        /\ (kind = "idp_user" => p.members \in {Unknown, s.members})
    BY <1>3, <2>1, NameAssumption, UpdatePlanOK DEF ConfigValues, ConfigInv
  <2>3. /\ Record(p) /\ DOMAIN p = AttrsOf(kind) /\ p.name \in Names
        /\ kind \in RenamedKinds \cup {"identity"} \/ p.name = s.name
        /\ UpdateOK(kind, l, s, p)
    BY <2>1, UpdatePlans DEF AttrsOf, Attrs, StateOK
  <2>4. /\ Delivered(kind, l, s, p)
        /\ kind \in TwoStepCreates => StayAll(l, s.name)
    BY <1>3, <2>2, <2>3, UpdateDelivers
  <2> HIDE DEF l
  <2>5. Placed(l, s.name, p.name)
    BY <2>3, <2>4, <2>1 DEF Placed, TwoStepCreates, RenamedKinds, UpdateOK, Renames
  <2>6. Len(l) <= 3 /\ ListProper(kind, l)
    BY <2>4 DEF Delivered
  <2>7. Reaches(kind, p, Ahead(kind, l, server[s.name]))
    BY <2>4, MergedSchemas, PlainPlans, <2>3, PolicyFlagTurns DEF Delivered, Turns, ServerValues,
                                                                  Reaches, SchemaOf, PolicySchema,
                                                                  NotConfigured, ConfigValues,
                                                                  ConfigSound, ObjectOK, l
  <2>8. WorkInv'
    BY <1>1, <1>3, <2>5, <2>6, <2>7 DEF WorkInv, Working
  <2> QED
    BY <1>1, <1>3, <2>2, <2>6, <2>8 DEF HandlerValues, PlannedValues, RequestValues, AnswerValues
<1> QED
  BY <1>2, <1>3

\* A plan that is the state after all begins nothing.
LEMMA UpdatesDiffer ==
  ASSUME NEW s, s # Null, config # Null, Decide(s), pc' = "update"
  PROVE  ~(PlanUpdate(kind, config, s) = s /\ SameAsState(kind, config, s))
  BY DEF Decide, Stop, Start

\* The refresh and the plan keep the values sound.
LEMMA ReadAndPlanValues ==
  ASSUME NotSetIsNoValue, kind \in MergedKinds, TypeInv, ValueInv, ReadAndPlan
  PROVE  ValueInv' /\ WorkInv'
<1> DEFINE s == ReadState
<1>1. Decide(s) /\ state' = s /\ UNCHANGED <<kind, config, server>>
  BY DEF ReadAndPlan
<1>2. s # Null => /\ Record(s) /\ DOMAIN s = AttrsOf(kind)
                  /\ StateGood(kind, s) /\ s.name \in DOMAIN server \cap Names
                  /\ Reaches(kind, s, server[s.name])
  BY ReadValues DEF TypeInv, ValueInv
<1> HIDE DEF s
<1>3. HandlerValues' /\ WorkInv'
  <2>1. KindInv /\ ConfigInv /\ ConfigValues /\ ServerValues
    BY DEF TypeInv, DataInv, ValueInv
  <2>2. CASE Stop
    BY <2>2, StoppedValues
  <2>3. CASE s = Null /\ config # Null /\ StartCreate(PlanCreate(kind, config))
    BY <1>1, <2>1, <2>3, CreateStartedValues
  <2>4. CASE s # Null /\ \E again \in BOOLEAN : /\ again => config # Null
                                                /\ Start("delete", s, Deletes(kind, s), again)
    BY <1>1, <2>4, DeleteStartedValues
  <2>5. CASE /\ s # Null /\ config # Null
             /\ \E p : /\ p = PlanUpdate(kind, config, s) /\ ~Replaces(kind, config, p, s)
                       /\ Start("update", p, Updates(kind, p, s), FALSE)
    BY <2>5, <1>1, UpdatesDiffer, <1>2, <2>1, UpdateStartedValues DEF Start
  <2> QED
    BY <1>1, <2>2, <2>3, <2>4, <2>5, Decisions
<1> QED
  BY <1>1, <1>2, <1>3 DEF ValueInv, ConfigValues, ServerValues, StateValues, StateGood

\* A handler that fails, or is refused.
LEMMA FailedValues ==
  ASSUME HandlerValues, NEW q, Undoable(kind, q), RequestOK(q), FailAfter(q), UNCHANGED kind
  PROVE  HandlerValues' /\ WorkInv'
  BY StoppedValues DEF FailAfter, Fail, Undoable, RequestOK, Undoes, ListProper, PlannedValues,
                       RequestValues, HandlerValues, AnswerValues, WorkInv

\* So does a refusal, whether it fails the handler or counts as done.
LEMMA RefusedValues ==
  ASSUME HandlerValues, NEW q, Undoable(kind, q), RequestOK(q), Refused(q), UNCHANGED kind
  PROVE  HandlerValues' /\ WorkInv' /\ state' \in {state, Null}
  BY StoppedValues, FailedValues, FailedState DEF Refused, CountsAsGone, GoneOnUpdate, ListProper,
                                                  PlannedValues, RequestValues, HandlerValues,
                                                  AnswerValues, WorkInv

\* What is carried out leaves proper objects on the server, and is answered with one.
LEMMA ServerStepValues ==
  ASSUME kind \in MergedKinds, ServerValues, NEW q, RequestProper(kind, q), Possible(q),
         UNCHANGED kind, server' = After(q)
  PROVE  ServerValues'
  BY ServerParts, ResultOK DEF Possible, Exists, ServerValues, MergedKinds

\* An answer shows the object as it is on the server.
LEMMA ViewParts ==
  ASSUME NEW k \in MergedKinds, NEW srv, NEW n, ObjectOK(k, srv[n]), NEW p
  PROVE  /\ ProperAll(k, View(srv, n))
         /\ FitsAll(k, p, View(srv, n)) <=> FitsAll(k, p, srv[n])
<1> DEFINE o == srv[n]
           v == View(srv, n)
<1>1. \A a \in DOMAIN o : a # "name" => v[a] = o[a]
  BY DEF View, Overlay
<1> HIDE DEF v
<1>2. ObjectOK(k, o)
  OBVIOUS
<1> HIDE DEF o
<1>3. \A a \in ObjectAttrs(k) : v[a] = o[a]
  BY MergedObjects, <1>1, <1>2 DEF ObjectOK
<1> QED
  BY <1>2, <1>3 DEF v, o, ObjectOK, ProperAll, FitsAll

\* What is answered: there is an object at the name the request has left it with.
LEMMA AnsweredObject ==
  ASSUME kind # "table", ServerInv, NEW q, RequestOK(q), Possible(q),
         q.verb \notin {"list", "delete", "force"}
  PROVE  /\ TargetOf(q) \in DOMAIN After(q)
         /\ q.verb # "post" => q.target \in DOMAIN server \cap Names
         /\ After(q)[TargetOf(q)] = Result(kind, q, IF q.verb = "post" THEN NoMap
                                                    ELSE server[q.target])
<1>1. /\ q.verb = "post" => After(q)[NameGiven(q)] = Result(kind, q, NoMap)
      /\ q.verb \notin {"get", "list", "post"} =>
           After(q)[TargetOf(q)] = Result(kind, q, server[q.target])
      /\ q.verb = "get" => After(q) = server
  BY ServerParts
<1>2. CASE q.verb = "post"
  BY <1>1, <1>2, NamesOfRequests, NamesAfter DEF RequestOK
<1>3. CASE q.verb = "get"
  BY <1>1, <1>3, NamesOfRequests DEF Possible, Exists, ServerInv, RequestOK, Result
<1>4. CASE q.verb \notin {"get", "post"}
  BY <1>1, <1>4, NamesOfRequests, NamesAfter DEF Possible, Exists, ServerInv, RequestOK
<1> QED
  BY <1>2, <1>3, <1>4

\* An answer holds values of the server.
LEMMA AnswerStepValues ==
  ASSUME kind \in MergedKinds, ServerInv, ServerValues, AnswerValues, NEW q, RequestOK(q),
         RequestProper(kind, q), Possible(q), UNCHANGED kind, server' = After(q),
         answer' = AnswerTo(q)
  PROVE  AnswerValues'
<1>1. CASE q.verb \in {"patch", "delete", "force"}
  BY <1>1 DEF AnswerTo, AnswerValues
<1>2. CASE q.verb \notin {"patch", "delete", "force"}
  <2> DEFINE n == TargetOf(q)
  <2>1. answer' = View(server', n)
    BY <1>2 DEF AnswerTo
  <2>2. n \in DOMAIN server'
    BY <1>2, AnsweredObject DEF RequestProper, MergedKinds
  <2> HIDE DEF n
  <2> QED
    BY <2>1, <2>2, ServerStepValues, ViewParts DEF AnswerValues, ServerValues
<1> QED
  BY <1>1, <1>2

-----------------------------------------------------------------------------
(* A handler that nobody interferes with takes its object to the plan.     *)

\* The requests that are left find the object where the first of them has left it.
LEMMA PlacedRest ==
  ASSUME NEW l, Listing(l), l # <<>>, NEW n, NEW m, Placed(l, n, m), NEW q, q = Head(l)
  PROVE  /\ q.target = n /\ q.verb \in {"get", "put", "patch", "unsupported"}
         /\ \/ NoRename(q) /\ Placed(Tail(l), n, m)
            \/ /\ ~NoRename(q) /\ q.verb = "put" /\ q.changes.plain.name = m
               /\ Placed(Tail(l), m, m)
<1> DEFINE t == Tail(l)
<1>1. /\ 1 \in DOMAIN l /\ q = l[1]
      /\ \A i \in DOMAIN t : i + 1 \in DOMAIN l /\ t[i] = l[i + 1]
      /\ \A i \in DOMAIN l : i \in Nat /\ (i = 1 \/ (i - 1 \in DOMAIN t /\ i > 1))
  BY RestOfList
<1>2. \A i \in DOMAIN t : i \in Nat /\ i > 0
  <2>1. Listing(t)
    BY RestOfList
  <2> HIDE DEF t
  <2> QED
    BY <2>1 DEF Listing
<1> HIDE DEF t
<1>3. CASE StayAll(l, n) /\ m \in {n, Unknown}
  BY <1>1, <1>3 DEF StayAll, Stays, Placed, t
<1>4. CASE MoveOnce(l, n, m)
  <2>1. PICK i \in DOMAIN l : /\ Moves(l[i], n, m)
                              /\ \A j \in DOMAIN l : /\ j < i => Stays(l[j], n)
                                                     /\ j > i => Follows(l[j], m)
    BY <1>4 DEF MoveOnce
  <2>2. CASE i = 1
    BY <1>1, <2>1, <2>2, <1>2 DEF Follows, Stays, Moves, Placed, StayAll, t
  <2>3. CASE i # 1
    <3>1. i - 1 \in DOMAIN t /\ i \in Nat /\ 1 < i
      BY <1>1, <2>3
    <3>2. ASSUME NEW j \in DOMAIN t
          PROVE  /\ j < i - 1 => Stays(t[j], n)
                 /\ j > i - 1 => Follows(t[j], m)
      BY <1>1, <1>2, <3>1, <2>1
    <3>3. MoveOnce(t, n, m)
      BY <2>1, <3>1, <1>1, <3>2 DEF MoveOnce
    <3> QED
      BY <1>1, <2>1, <3>1, <3>3 DEF Stays, Placed, t
  <2> QED
    BY <2>2, <2>3
<1> QED
  BY <1>3, <1>4 DEF Placed

\* Nothing that is left when no answer is to come changes what the object shows.
LEMMA QuietFits ==
  ASSUME NEW k \in MergedKinds, NEW p, SoundAll(k, p), NEW l, Listing(l), Len(l) <= 3, ListProper(k, l),
         Quiet(l), NEW n, NEW m, Placed(l, n, m), k \in PartitionKinds => l = <<>>,
         NEW o, ObjectOK(k, o)
  PROVE  FitsAll(k, p, Ahead(k, l, o)) <=> FitsAll(k, p, o)
<1>1. ASSUME NEW i \in DOMAIN l, NEW x, ObjectOK(k, x)
      PROVE  /\ ObjectOK(k, Result(k, l[i], x))
             /\ FitsAll(k, p, Result(k, l[i], x)) <=> FitsAll(k, p, x)
  <2> DEFINE q == l[i]
  <2>1. StayAll(l, n)
    BY DEF Placed, MoveOnce, Moves, Quiet, Shows
  <2>2. q.verb = "patch"
    BY <2>1 DEF StayAll, Stays, Quiet, Shows
  <2>3. RequestProper(k, q)
    BY DEF ListProper, Undoable
  <2> HIDE DEF q
  <2>4. FitsAll(k, p, Result(k, q, x)) <=> FitsAll(k, p, x)
    BY <1>1, <2>2, <2>3, FlagFits DEF RequestProper
  <2> QED
    BY <1>1, <2>3, ResultOK, <2>4 DEF q
<1>2. Len(l) \in Nat /\ DOMAIN l = 1 .. Len(l) /\ (Len(l) = 0 <=> l = <<>>)
  BY DEF Listing
<1>3. CASE Len(l) = 0
  BY <1>2, <1>3 DEF Ahead
<1>4. CASE Len(l) = 1
  BY <1>2, <1>4, <1>1 DEF Ahead
<1>5. CASE Len(l) = 2
  BY <1>2, <1>5, <1>1 DEF Ahead
<1>6. CASE Len(l) = 3
  BY <1>2, <1>6, <1>1 DEF Ahead
<1> QED
  BY <1>2, <1>3, <1>4, <1>5, <1>6

\* What is left of a list of one.
LEMMA RestOfOne ==
  ASSUME NEW l, Listing(l), l # <<>>, Len(l) <= 1
  PROVE  Tail(l) = <<>>
<1>1. PICK S : l \in Seq(S)
  BY DEF Listing
<1> HIDE DEF Listing
<1> QED
  BY <1>1

\* The first request is carried out, and the rest goes on from what it leaves.
LEMMA WorkStep ==
  ASSUME NotSetIsNoValue, kind \in MergedKinds, TypeInv, ValueInv,
         pc = "create" \/ (pc = "update" /\ kind \notin PartitionKinds),
         NEW q, Answered(q), Len(todo) <= 3, kind \in PartitionKinds => Len(todo) <= 1,
         Placed(Tail(todo), TargetOf(q), planned.name),
         Reaches(kind, planned,
                 Ahead(kind, todo, IF q.verb = "post" THEN NoMap ELSE server[q.target])),
         \/ q.verb \in {"get", "put", "post"}
         \/ /\ q.verb = "patch" /\ (pc = "create" => answer # Null)
            /\ answer # Null => /\ answer.name = TargetOf(q)
                                /\ Quiet(todo) => FitsAll(kind, planned, answer)
  PROVE  \E n \in DOMAIN server' : Working(n)'
<1> DEFINE n == TargetOf(q)
           t == Tail(todo)
           o == server'[n]
<1>1. /\ RequestOK(q) /\ 1 \in DOMAIN todo /\ q = todo[1] /\ todo # <<>> /\ q = Head(todo)
      /\ Listing(t) /\ \A i \in DOMAIN t : i + 1 \in DOMAIN todo /\ t[i] = todo[i + 1]
      /\ \A i \in DOMAIN todo : i \in Nat /\ (i = 1 \/ (i - 1 \in DOMAIN t /\ i > 1))
  BY FirstOfList DEF TypeInv, Answered
<1>2. Listing(todo) /\ ListProper(kind, todo) /\ SoundAll(kind, planned)
  BY DEF TypeInv, HandlerInv, TodoInv, ListOK, ValueInv, HandlerValues, RequestValues,
     PlannedValues, PlanOK
<1>3. RequestProper(kind, q) /\ ListProper(kind, t)
  BY <1>1, <1>2 DEF ListProper, Undoable
<1>4. /\ Possible(q) /\ server' = After(q) /\ todo' = t /\ answer' = AnswerTo(q)
      /\ UNCHANGED <<kind, planned, pc>>
  BY <1>3 DEF Answered, RequestProper
<1>5. n \in DOMAIN server' /\ o = Result(kind, q, IF q.verb = "post" THEN NoMap ELSE server[q.target])
  BY <1>1, <1>4, AnsweredObject DEF TypeInv, DataInv, MergedKinds
<1>6. ObjectOK(kind, o)
  BY <1>3, <1>4, <1>5, ServerStepValues DEF ValueInv, ServerValues
<1>7. Len(t) <= 3 /\ Reaches(kind, planned, Ahead(kind, t, o))
  BY <1>1, <1>2, <1>5, AheadOfTail
<1>8. kind \in PartitionKinds => t = <<>>
  BY <1>1, <1>2, RestOfOne
<1>9. CASE q.verb \in {"get", "put", "post"}
  <2>1. answer' = View(server', n)
    BY <1>4, <1>9 DEF AnswerTo
  <2>2. answer' # Null /\ answer'.name = n
    BY <2>1, NullIsNone, Views
  <2> HIDE DEF n, t
  <2>3. FitsAll(kind, planned, View(server', n)) <=> FitsAll(kind, planned, o)
    BY <1>6, ViewParts
  <2> HIDE DEF o
  <2>4. Quiet(t) => FitsAll(kind, planned, o)
    BY <1>1, <1>2, <1>3, <1>6, <1>7, <1>8, QuietFits DEF n, t, Reaches
  <2>5. Quiet(t) => FitsAll(kind, planned, answer')
    BY <2>1, <2>3, <2>4
  <2>6. Working(n)'
    BY <1>4, <1>7, <2>2, <2>5, <1>8 DEF Working, o, t, n
  <2> QED
    BY <1>5, <2>6
<1>10. CASE q.verb = "patch"
  <2>1. answer' = answer
    BY <1>4, <1>10 DEF AnswerTo
  <2>2. Quiet(t) => Quiet(todo)
    BY <1>1, <1>10 DEF Quiet, Shows
  <2> HIDE DEF n, t, o
  <2>3. Placed(t, n, planned.name)
    BY DEF t, n
  <2>4. kind \in PartitionKinds => Len(t) <= 1
    BY <1>8
  <2>5. Working(n)'
    BY <1>4, <1>7, <1>10, <2>1, <2>2, <2>3, <2>4 DEF Working, o, n
  <2> QED
    BY <1>5, <2>5
<1> QED
  BY <1>9, <1>10

\* An answered request keeps the handler on its way to the plan.
LEMMA AnsweredWork ==
  ASSUME NotSetIsNoValue, kind \in MergedKinds, TypeInv, ValueInv, WorkInv, NEW q, Answered(q),
         disturbed' = disturbed
  PROVE  WorkInv'
<1> DEFINE n == q.target
<1> SUFFICES ASSUME ~disturbed, pc = "create" \/ (pc = "update" /\ kind \notin PartitionKinds)
             PROVE  \E m \in DOMAIN server' : Working(m)'
  BY DEF WorkInv, Answered
<1>1. /\ RequestOK(q) /\ q = todo[1] /\ todo # <<>> /\ q = Head(todo) /\ Listing(todo)
      /\ \A i \in DOMAIN Tail(todo) : i + 1 \in DOMAIN todo /\ Tail(todo)[i] = todo[i + 1]
      /\ \A i \in DOMAIN Tail(todo) : i \in Nat \ {0}
  BY FirstOfList DEF TypeInv, Answered, HandlerInv, TodoInv, ListOK
<1>2. Possible(q)
  BY DEF Answered
<1>3. CASE \E m \in DOMAIN server : Working(m)
  <2>1. PICK m \in DOMAIN server : Working(m)
    BY <1>3
  <2>2. Len(todo) <= 3 /\ (kind \in PartitionKinds => Len(todo) <= 1)
    BY <2>1 DEF Working
  <2>3. /\ q.target = m /\ q.verb \in {"get", "put", "patch", "unsupported"}
        /\ \/ NoRename(q) /\ Placed(Tail(todo), m, planned.name)
           \/ /\ ~NoRename(q) /\ q.verb = "put" /\ q.changes.plain.name = planned.name
              /\ Placed(Tail(todo), planned.name, planned.name)
    BY <1>1, <2>1, PlacedRest DEF Working
  <2>4. q.verb \in {"get", "put", "patch"}
    BY <1>2, <2>3 DEF Possible
  <2>5. /\ NoRename(q) => TargetOf(q) = m
        /\ ~NoRename(q) => TargetOf(q) = planned.name
    BY <1>1, <2>3, <2>1, NamesOfRequests DEF TypeInv, DataInv, ServerInv
  <2>6. Placed(Tail(todo), TargetOf(q), planned.name)
    BY <2>3, <2>5
  <2>7. Reaches(kind, planned, Ahead(kind, todo, IF q.verb = "post" THEN NoMap ELSE server[q.target]))
    BY <2>1, <2>3, <2>4 DEF Working
  <2>8. q.verb = "patch" =>
           /\ pc = "create" => answer # Null
           /\ answer # Null => answer.name = TargetOf(q) /\ (Quiet(todo) => FitsAll(kind, planned, answer))
    BY <2>1, <2>3, <2>5 DEF Working
  <2> QED
    BY <2>2, <2>4, <2>6, <2>7, <2>8, WorkStep
<1>4. CASE pc = "create" /\ Making
  <2>1. CreateDelivers(kind, todo, planned) /\ (kind \in PartitionKinds => Len(todo) <= 1)
    BY <1>4 DEF Making
  <2>2. Makes(q, planned.name) /\ Len(todo) <= 3
    BY <1>1, <2>1 DEF CreateDelivers
  <2>3. q.verb = "post" /\ TargetOf(q) = NameGiven(q) /\ TargetOf(q) \in Names
    BY <1>1, <2>2, NamesOfRequests DEF Makes
  <2>4. Reaches(kind, planned, Ahead(kind, todo, NoMap))
    BY <1>4, <2>1 DEF CreateDelivers, Making, Reaches
  <2>5. Placed(Tail(todo), TargetOf(q), planned.name)
    BY <1>1, <2>2, <2>3, NamesOfRequests, <2>1, <1>4, RestOfOne DEF Makes, CreateDelivers, Placed,
                                                                    StayAll, TypeInv, HandlerInv,
                                                                    PlannedInv, PartitionKinds
  <2> QED
    BY <2>1, <2>2, <2>3, <2>4, <2>5, WorkStep
<1> QED
  BY <1>3, <1>4 DEF WorkInv

-----------------------------------------------------------------------------
(* Each action keeps the values in order, and the handler on its way.      *)

\* A request keeps the values in order, whatever becomes of it.
LEMMA CallValues ==
  ASSUME NotSetIsNoValue, kind \in MergedKinds, TypeInv, ValueInv, WorkInv, Call
  PROVE  ValueInv' /\ WorkInv'
<1> DEFINE q == Head(todo)
<1>1. pc # "idle" /\ todo # <<>> /\ UNCHANGED <<kind, config>>
  BY DEF Call
<1>2. /\ RequestOK(q) /\ 1 \in DOMAIN todo /\ q = todo[1]
      /\ \A i \in DOMAIN Tail(todo) : i + 1 \in DOMAIN todo /\ Tail(todo)[i] = todo[i + 1]
  BY <1>1, FirstOfList DEF TypeInv
<1>3. Undoable(kind, q) /\ RequestProper(kind, q)
  BY <1>2 DEF ValueInv, HandlerValues, RequestValues, ListProper, Undoable
<1>4. ConfigValues'
  BY <1>1 DEF ValueInv, ConfigValues
<1>5. UNCHANGED server \/ (Possible(q) /\ server' = After(q)) => ServerValues'
  BY <1>1, <1>3, ServerStepValues DEF ValueInv, ServerValues
<1>6. state' \in {state, Null} => StateValues'
  BY <1>1 DEF ValueInv, StateValues
<1>7. CASE Answered(q) /\ disturbed' = disturbed
  <2>1. /\ Possible(q) /\ server' = After(q) /\ answer' = AnswerTo(q) /\ todo' = Tail(todo)
        /\ UNCHANGED <<state, pc, planned>>
    BY <1>3, <1>7 DEF Answered, RequestProper
  <2>2. PlannedValues'
    BY <1>1, <2>1 DEF ValueInv, HandlerValues, PlannedValues
  <2>3. AnswerValues'
    BY <1>1, <1>2, <1>3, <2>1, AnswerStepValues DEF ValueInv, HandlerValues, TypeInv, DataInv
  <2>4. RequestValues'
    BY <1>1, <2>1, <1>2 DEF RequestValues, ValueInv, HandlerValues, ListProper, Possible
  <2>5. WorkInv'
    BY <1>7, AnsweredWork
  <2> QED
    BY <1>4, <1>5, <1>6, <2>1, <2>2, <2>3, <2>4, <2>5 DEF ValueInv, HandlerValues
<1>8. CASE Refused(q) /\ UNCHANGED server
  <2>1. HandlerValues' /\ WorkInv' /\ state' \in {state, Null}
    BY <1>1, <1>2, <1>3, <1>8, RefusedValues DEF ValueInv
  <2> QED
    BY <1>4, <1>5, <1>6, <1>8, <2>1 DEF ValueInv
<1>9. CASE FailAfter(q) /\ (UNCHANGED server \/ (Possible(q) /\ server' = After(q)))
  <2>1. HandlerValues' /\ WorkInv'
    BY <1>1, <1>2, <1>3, <1>9, FailedValues DEF ValueInv
  <2>2. state' = state
    BY <1>9, FailedState
  <2> QED
    BY <1>4, <1>5, <1>6, <1>9, <2>1, <2>2 DEF ValueInv
<1> QED
  BY <1>1, <1>7, <1>8, <1>9 DEF Call, Answered

\* What is written into state is sound, whatever the answer shows.
LEMMA AppliedSound ==
  ASSUME NotSetIsNoValue, NEW k \in MergedKinds, NEW v, v # Null, NEW p, DOMAIN p = AttrsOf(k),
         SoundAll(k, p), ProperAll(k, v)
  PROVE  SoundAll(k, Applied(k, v, p, {ManagedKey}))
<1> DEFINE r == Applied(k, v, p, {ManagedKey})
           s == Refreshed(k, v, p, {ManagedKey})
<1>1. SoundAll(k, s)
  BY ReadFits
<1>2. \A a \in AttrsOf(k) : r[a] \in {s[a], p[a]}
  BY AppliedParts
<1> HIDE DEF r, s
<1> QED
  BY <1>1, <1>2 DEF r, SoundAll

\* What the handler writes when all its requests are answered.
LEMMA WrittenValues ==
  ASSUME NotSetIsNoValue, kind \in MergedKinds, TypeInv, ValueInv, WorkInv,
         pc \in {"create", "update"}, todo = <<>>
  PROVE  /\ SoundAll(kind, Written)
         /\ ~disturbed => \A a \in Attrs : Written1(kind, a, planned[a], Written[a])
<1>1. /\ Record(planned) /\ DOMAIN planned = AttrsOf(kind) /\ kind \in AllKinds
      /\ pc = "update" => state # Null
      /\ pc = "update" => kind \in RenamedKinds \cup {"identity"} \/ planned.name = state.name
  BY KindKnown DEF TypeInv, DataInv, HandlerInv, PlannedInv, PcInv, Attrs, AttrsOf
<1>2. ~(pc = "update" /\ kind \in PartitionKinds)
  BY DEF ValueInv, HandlerValues, RequestValues
<1>3. PlanOK(kind, planned) /\ (pc = "update" /\ kind = "idp_user" => planned.members \in {Unknown, state.members})
  BY <1>2 DEF ValueInv, HandlerValues, PlannedValues
<1>4. CASE answer # Null
  <2>1. Written = Applied(kind, answer, planned, {ManagedKey})
    BY <1>4 DEF Written
  <2>2. ProperAll(kind, answer)
    BY <1>4 DEF ValueInv, HandlerValues, AnswerValues
  <2>3. SoundAll(kind, Written)
    BY <1>1, <1>3, <1>4, <2>1, <2>2, AppliedSound DEF PlanOK
  <2>4. ASSUME ~disturbed
        PROVE  FitsAll(kind, planned, answer) /\ planned.name \in {answer.name, Unknown}
    BY <1>2, <1>4, <2>4 DEF WorkInv, Making, Quiet, MoveOnce, Working, Placed
  <2>5. ~disturbed => \A a \in AttrsOf(kind) : Written1(kind, a, planned[a], Written[a])
    BY <1>1, <1>3, <1>4, <2>1, <2>2, <2>4, AppliedFits
  <2> QED
    BY <2>3, <2>5 DEF Attrs, AttrsOf
<1>5. CASE answer = Null
  BY <1>5, NullIsNone, WrittenStates, <1>1, <1>3, KeptFits DEF Written, ValueInv, StateValues,
                                                               TypeInv, DataInv, StateOK, Attrs,
                                                               AttrsOf, RenamedKinds
<1> QED
  BY <1>4, <1>5

\* So does the last step of a handler.
LEMMA FinishValues ==
  ASSUME NotSetIsNoValue, kind \in MergedKinds, TypeInv, ValueInv, WorkInv, Finish
  PROVE  ValueInv' /\ WorkInv'
  BY StoppedValues, CreateStartedValues, WrittenValues DEF Finish, TypeInv, DataInv, HandlerInv,
                                                           ValueInv, Fail, PcInv, StateValues,
                                                           Written, ConfigValues, ServerValues

\* The parts that run no handler.
LEMMA HandlerValuesKept ==
  ASSUME HandlerValues, pc' = "idle" \/ disturbed', UNCHANGED <<kind, handler>>,
         pc = "idle" \/ state' = state
  PROVE  HandlerValues' /\ WorkInv'
  BY DEF handler, HandlerValues, PlannedValues, RequestValues, AnswerValues, WorkInv

\* So does an import.
LEMMA ImportValues ==
  ASSUME NotSetIsNoValue, kind \in MergedKinds, TypeInv, ValueInv, ImportState
  PROVE  ValueInv' /\ WorkInv'
<1>1. PICK n \in DOMAIN server :
        state' = Refreshed(kind, View(server, n), Imported(n), {ManagedKey})
  BY DEF ImportState
<1>2. pc = "idle" /\ UNCHANGED <<kind, config, server, handler>> /\ pc' = "idle"
  BY DEF ImportState, handler
<1>3. StateValues'
  <2> DEFINE m == Imported(n)
  <2>1. DOMAIN m = AttrsOf(kind) /\ \A a \in AttrsOf(kind) \ {"name"} : m[a] = Null
    BY DEF Imported, Attrs, AttrsOf
  <2> HIDE DEF m
  <2>2. SoundAll(kind, Refreshed(kind, View(server, n), m, {ManagedKey}))
    BY <2>1, ReadGood DEF StateGood, SoundAll, Sound, NotSet, ValueInv, ServerValues
  <2> QED
    BY <1>1, <1>2, <2>2 DEF StateValues, m
<1> QED
  BY <1>3, <1>2, HandlerValuesKept DEF ValueInv, ConfigValues, ServerValues

\* So does an edit of the configuration.
LEMMA EditValues ==
  ASSUME NotSetIsNoValue, kind \in MergedKinds, TypeInv, ValueInv, Edit
  PROVE  ValueInv' /\ WorkInv'
<1>1. /\ pc = "idle" /\ pc' = "idle" /\ UNCHANGED <<kind, state, server, handler>>
      /\ \/ config # Null /\ \E a \in Attrs : \E v \in ConfigurableAs(a) \ {config[a]} :
                               config' = [config EXCEPT ![a] = v]
         \/ config' = Null
         \/ config' = FirstConfig
  BY DEF Edit, handler
<1>2. ConfigValues'
  <2>1. CASE config # Null /\ \E a \in Attrs : \E v \in ConfigurableAs(a) \ {config[a]} :
                                config' = [config EXCEPT ![a] = v]
    <3>1. PICK a \in Attrs : \E v \in ConfigurableAs(a) : config' = [config EXCEPT ![a] = v]
      BY <2>1
    <3>2. PICK v \in ConfigurableAs(a) : config' = [config EXCEPT ![a] = v]
      BY <3>1
    <3>3. DOMAIN config = AttrsOf(kind) /\ ConfigSound(kind, config)
      BY <2>1 DEF TypeInv, DataInv, ConfigInv, ValueInv, ConfigValues, Attrs, AttrsOf
    <3>4. a # "name" => /\ Sound(kind, a, v) /\ v # Unknown
                        /\ a \in {"flag", "force"} => v # Null
                        /\ a = "members" /\ kind = "idp_user" => v = Null
      BY Configurables DEF Attrs, AttrsOf
    <3>5. \A b \in AttrsOf(kind) : config'[b] = IF b = a THEN v ELSE config[b]
      BY <3>2, <3>3
    <3>6. SoundAll(kind, config')
      BY <3>3, <3>4, <3>5 DEF ConfigSound, SoundAll
    <3>7. \A b \in {"flag", "force"} \cap AttrsOf(kind) : config'[b] # Null
      BY <3>3, <3>4, <3>5 DEF ConfigSound
    <3>8. kind = "idp_user" => config'["members"] = Null
      BY <3>3, <3>4, <3>5, MergedSchemas DEF ConfigSound
    <3>9. \A b \in AttrsOf(kind) \ {"name"} : config'[b] # Unknown
      BY <3>3, <3>4, <3>5 DEF ConfigSound
    <3> QED
      BY <1>1, <3>6, <3>7, <3>8, <3>9 DEF ConfigSound, ConfigValues
  <2>2. CASE config' = Null
    BY <2>2 DEF ConfigValues
  <2>3. CASE config' = FirstConfig
    BY <1>1, <2>3, FirstConfigSound DEF ConfigValues
  <2> QED
    BY <1>1, <2>1, <2>2, <2>3
<1> QED
  BY <1>2, <1>1, HandlerValuesKept DEF ValueInv, ServerValues, StateValues

\* So do others, who may stop the handler from getting to its plan.
LEMMA OthersValues ==
  ASSUME NotSetIsNoValue, kind \in MergedKinds, TypeInv, ValueInv, Others
  PROVE  ValueInv' /\ WorkInv'
<1>1. UNCHANGED <<kind, config, state, handler>> /\ disturbed' = (pc # "idle") /\ pc' = pc
  BY DEF Others, handler
<1>2. known \subseteq Members /\ \A n \in DOMAIN server : ObjectOK(kind, server[n])
  BY DEF TypeInv, DataInv, ServerInv, ValueInv, ServerValues
<1>3. ASSUME NEW o, NEW a, a \in ObjectAttrs(kind), ObjectOK(kind, o), NEW v, Proper(a, v)
      PROVE  ObjectOK(kind, [o EXCEPT ![a] = v])
  BY <1>3 DEF ObjectOK, ProperAll
<1>4. ServerValues'
  <2>1. CASE \E n \in DOMAIN server : server' = Only(server, DOMAIN server \ {n})
    BY <1>1, <1>2, <2>1 DEF ServerValues, Only
  <2>2. CASE \E n \in DOMAIN server : \E a \in DOMAIN server[n] : \E v \in OthersValue(server[n], a) :
               server' = [server EXCEPT ![n][a] = v]
    <3>1. PICK n \in DOMAIN server : \E a \in DOMAIN server[n] : \E v \in OthersValue(server[n], a) :
                 server' = [server EXCEPT ![n][a] = v]
      BY <2>2
    <3> DEFINE o == server[n]
    <3>2. PICK a \in DOMAIN o : \E v \in OthersValue(o, a) : server' = [server EXCEPT ![n] = [o EXCEPT ![a] = v]]
      BY <3>1
    <3>3. PICK v \in OthersValue(o, a) : server' = [server EXCEPT ![n] = [o EXCEPT ![a] = v]]
      BY <3>2
    <3>4. Proper(a, v)
      <4> HIDE DEF o
      <4>1. CASE a = "comment"
        BY <4>1 DEF OthersValue, Proper, Texts
      <4>2. CASE a = "props"
        <5>1. Record(Only(o[a], {})) /\ Record(Overlay([k \in {ManagedKey} |-> "x"], o[a]))
          BY RecordsMade
        <5>2. Record(v)
          BY <4>2, <5>1 DEF OthersValue, Record
        <5> QED
          BY <4>2, <5>2 DEF Proper
      <4>3. CASE a = "members"
        BY <1>2, <4>3 DEF OthersValue, Proper
      <4> QED
        BY <4>1, <4>2, <4>3 DEF Proper
    <3> QED
      BY <1>1, <1>2, <3>3, <1>3, <3>4 DEF ServerValues, ObjectOK
  <2>3. CASE \E m \in known :
               server' = [n \in DOMAIN server |->
                    IF "members" \in DOMAIN server[n]
                    THEN [server[n] EXCEPT !.members = @ \ {m}] ELSE server[n]]
    <3>1. PICK m \in known : server' = [n \in DOMAIN server |->
                    IF "members" \in DOMAIN server[n]
                    THEN [server[n] EXCEPT !.members = @ \ {m}] ELSE server[n]]
      BY <2>3
    <3>2. ASSUME NEW n \in DOMAIN server
          PROVE  ObjectOK(kind, server'[n])
      <4> DEFINE o == server[n]
                 v == o["members"] \ {m}
      <4>1. server'[n] = IF "members" \in DOMAIN o THEN [o EXCEPT !["members"] = v] ELSE o
        BY <3>1
      <4>2. ObjectOK(kind, o)
        BY <1>2
      <4>3. CASE "members" \in DOMAIN o
        <5>1. "members" \in ObjectAttrs(kind) /\ o["members"] \in SUBSET Members
          BY <4>2, <4>3 DEF ObjectOK, ProperAll, Proper
        <5>2. Proper("members", v)
          BY <5>1 DEF Proper
        <5> HIDE DEF o, v
        <5>3. ObjectOK(kind, [o EXCEPT !["members"] = v])
          BY <1>3, <4>2, <5>1, <5>2
        <5> QED
          BY <4>1, <4>3, <5>3
      <4>4. CASE "members" \notin DOMAIN o
        BY <4>1, <4>2, <4>4
      <4> QED
        BY <4>3, <4>4
    <3> QED
      BY <1>1, <3>1, <3>2 DEF ServerValues
  <2> QED
    BY <2>1, <2>2, <2>3 DEF Others
<1> QED
  BY <1>4, <1>1, HandlerValuesKept DEF ValueInv, ConfigValues, StateValues

\* Of the kinds whose answers are merged into the plan.
RunInv == kind \in MergedKinds => ValueInv /\ WorkInv

\* Values and handler are in order at first.
LEMMA InitRunInv ==
  ASSUME NotSetIsNoValue, Init
  PROVE  RunInv
<1> SUFFICES ASSUME kind \in MergedKinds
             PROVE  ValueInv /\ WorkInv
  BY DEF RunInv
<1>1. server = NoMap
  BY DEF Init, InitialServer, MergedKinds, PartitionKinds, StatisticsKinds
<1>2. StateValues /\ WorkInv
  BY DEF Init, StateValues, WorkInv
<1>3. HandlerValues
  BY DEF Init, HandlerValues, PlannedValues, RequestValues, AnswerValues, ListProper
<1> QED
  BY FirstConfigSound, <1>1, <1>2, <1>3 DEF ValueInv, Init, ConfigValues, ServerValues, NoMap

\* A step that changes nothing keeps them so.
LEMMA StutterValues ==
  ASSUME ValueInv, WorkInv, UNCHANGED vars
  PROVE  ValueInv' /\ WorkInv'
<1>1. UNCHANGED <<kind, config, state, server, pc, planned, todo, answer, disturbed>>
  BY DEF vars, handler
<1>2. HandlerValues'
  BY <1>1 DEF ValueInv, HandlerValues, PlannedValues, RequestValues, AnswerValues
<1>3. WorkInv'
  BY <1>1 DEF WorkInv, Making, Working
<1> QED
  BY <1>1, <1>2, <1>3 DEF ValueInv, ConfigValues, ServerValues, StateValues

\* So does every step.
LEMMA NextRunInv ==
  ASSUME NotSetIsNoValue, TypeInv, RunInv, [Next]_vars
  PROVE  RunInv'
<1>1. kind' = kind
  BY DEF Next, ReadAndPlan, Call, Finish, ImportState, Edit, Others, vars
<1>2. ASSUME kind \in MergedKinds
      PROVE  ValueInv' /\ WorkInv'
  <2>1. ValueInv /\ WorkInv
    BY <1>2 DEF RunInv
  <2>2. CASE ReadAndPlan
    BY <1>2, <2>1, <2>2, ReadAndPlanValues
  <2>3. CASE Call
    BY <1>2, <2>1, <2>3, CallValues
  <2>4. CASE Finish
    BY <1>2, <2>1, <2>4, FinishValues
  <2>5. CASE ImportState
    BY <1>2, <2>1, <2>5, ImportValues
  <2>6. CASE Edit
    BY <1>2, <2>1, <2>6, EditValues
  <2>7. CASE Others
    BY <1>2, <2>1, <2>7, OthersValues
  <2>8. CASE UNCHANGED vars
    BY <2>1, <2>8, StutterValues
  <2> QED
    BY <2>2, <2>3, <2>4, <2>5, <2>6, <2>7, <2>8 DEF Next
<1> QED
  BY <1>1, <1>2 DEF RunInv

\* They are in order always.
LEMMA AlwaysRunInv == ASSUME NotSetIsNoValue PROVE Spec => []RunInv
<1>1. Init => RunInv
  BY InitRunInv
<1>2. TypeInv /\ RunInv /\ [Next]_vars => RunInv'
  BY NextRunInv
<1> QED
  BY <1>1, <1>2, NullIsNone, AlwaysTypeInv, PTL DEF Spec

-----------------------------------------------------------------------------
(* What is planned, and what a plan of what is configured already looks like.   *)

\* No kind but a table has an index.
LEMMA NoIndex ==
  ASSUME NEW k \in AllKinds, k # "table"
  PROVE  "index" \notin AttrsOf(k)
  BY DEF AllKinds, AttrsOf, SchemaOf, CatalogSchema, SchemaSchema, TopicSchema, ModelSchema,
     FilesetSchema, TagSchema, PolicySchema, ViewSchema, DerivedViewSchema, FunctionSchema, JobTemplateSchema,
     PartitionSchema, UserSchema, GroupSchema, RoleSchema, OwnerSchema, IdpUserSchema,
     IdpGroupSchema, StatisticsSchema, PartitionStatisticsSchema

\* The plan p has what is configured in c, wherever something is.
AsConfigured(k, c, p) == \A a \in AttrsOf(k) : NotConfigured(k, c, a) \/ p[a] = c[a]

\* The plans of the kinds that plan no attribute otherwise have it.
LEMMA PlansAsConfigured ==
  ASSUME NEW k \in AllKinds \ {"function", "table"}, NEW c, NEW s, k = "identity" => c.name = Null
  PROVE  AsConfigured(k, c, PlanCreate(k, c)) /\ AsConfigured(k, c, PlanUpdate(k, c, s))
<1> SUFFICES ASSUME NEW a \in AttrsOf(k), ~NotConfigured(k, c, a)
             PROVE  PlanCreate(k, c)[a] = c[a] /\ PlanUpdate(k, c, s)[a] = c[a]
  BY DEF AsConfigured
<1>1. a # "index"
  BY NoIndex
<1>2. ASSUME NEW f, a \in DOMAIN f
      PROVE  Modified(k, f)[a] = f[a]
  BY <1>2 DEF Modified, IdentityName, NotConfigured, SchemaOf, PartitionSchema
<1>3. PlanCreate(k, c)[a] = c[a]
  <2> DEFINE f == [x \in SchemaOf(k).attrs |->
                     IF c[x] = Null /\ x \in SchemaOf(k).computed THEN Unknown
                     ELSE Fill(x, c[x], Unknown)]
  <2> HIDE DEF f
  <2> QED
    BY <1>2, <1>1 DEF NotConfigured, Fill, AttrsOf, PlanCreate
<1>4. PlanUpdate(k, c, s)[a] = c[a]
  <2> DEFINE sch == SchemaOf(k)
             same == SameAsState(k, c, s)
             kept(x) == same \/ (x \in sch.keep /\ s[x] # Null)
             g == [x \in sch.attrs |->
                     IF ~NotConfigured(k, c, x)
                     THEN Fill(x, c[x], IF x = "index" /\ same THEN IndexName(s) ELSE Unknown)
                     ELSE IF kept(x) THEN s[x] ELSE Unknown]
  <2> HIDE DEF g
  <2> QED
    BY <1>2, <1>1 DEF Fill, AttrsOf, PlanUpdate
<1> QED
  BY <1>3, <1>4

\* A state that shows what is configured is its own plan.
LEMMA QuietPlan ==
  ASSUME NEW k \in AllKinds \ {"function", "table", "identity"}, NEW c, c.name # Null, NEW s,
         Record(s), DOMAIN s = AttrsOf(k), AsConfigured(k, c, s)
  PROVE  PlanUpdate(k, c, s) = s /\ SameAsState(k, c, s)
<1> DEFINE p == PlanUpdate(k, c, s)
<1>1. "index" \notin AttrsOf(k)
  BY NoIndex
<1>2. SameAsState(k, c, s)
  BY <1>1 DEF SameAsState, AsConfigured, AttrsOf
<1>3. Record(p) /\ DOMAIN p = AttrsOf(k)
  BY Plans DEF AttrsOf
<1>4. \A a \in AttrsOf(k) : p[a] = s[a]
  <2> DEFINE g == [x \in AttrsOf(k) |-> IF ~NotConfigured(k, c, x) THEN c[x] ELSE s[x]]
  <2>1. p = g
    BY <1>1, <1>2 DEF PlanUpdate, Modified, Fill, AttrsOf
  <2> HIDE DEF p
  <2>2. \A a \in AttrsOf(k) : g[a] = s[a]
    BY DEF AsConfigured
  <2> QED
    BY <2>1, <2>2
<1> HIDE DEF p
<1>5. p = s
  BY <1>3, <1>4 DEF Record
<1> QED
  BY <1>2, <1>5 DEF p

\* What is planned is what is configured, and what is deleted for good is not.
PlanInv ==
  kind \notin {"function", "table"} =>
    /\ pc \in {"create", "update"} => config # Null /\ AsConfigured(kind, config, planned)
    /\ pc = "delete" /\ ~next => config = Null

\* Each step keeps the plan to the configuration it was made for.
LEMMA NextPlanInv ==
  ASSUME TypeInv, PlanInv, [Next]_vars
  PROVE  PlanInv'
<1>1. kind' = kind /\ kind \in AllKinds
  BY KindKnown DEF TypeInv, DataInv, Next, ReadAndPlan, Call, Finish, ImportState, Edit, Others, vars
<1> SUFFICES ASSUME kind \notin {"function", "table"}
             PROVE  /\ pc' \in {"create", "update"} => config' # Null /\ AsConfigured(kind, config', planned')
                    /\ pc' = "delete" /\ ~next' => config' = Null
  BY <1>1 DEF PlanInv
<1>2. config # Null => \A s : /\ AsConfigured(kind, config, PlanCreate(kind, config))
                              /\ AsConfigured(kind, config, PlanUpdate(kind, config, s))
  BY <1>1, PlansAsConfigured DEF TypeInv, DataInv, ConfigInv
<1>3. ASSUME StartCreate(PlanCreate(kind, config)), config # Null, config' = config
      PROVE  /\ pc' \in {"create", "update"} => config' # Null /\ AsConfigured(kind, config', planned')
             /\ pc' # "delete"
  <2> DEFINE p == PlanCreate(kind, config)
  <2> HIDE DEF p
  <2> QED
    BY <1>2, <1>3 DEF p, StartCreate, Start, Stop
<1>4. CASE ReadAndPlan
  <2> DEFINE s == ReadState
  <2>1. Decide(s) /\ config' = config
    BY <1>4 DEF ReadAndPlan
  <2> HIDE DEF s
  <2>2. CASE s = Null /\ config # Null /\ StartCreate(PlanCreate(kind, config))
    BY <1>3, <2>1, <2>2
  <2>3. CASE s # Null /\ \E again \in BOOLEAN : Start("delete", s, Deletes(kind, s), again)
    BY <2>3, <2>1 DEF Start, Decide, Stop
  <2>4. CASE s # Null /\ config # Null /\ \E p : /\ p = PlanUpdate(kind, config, s)
                                                 /\ Start("update", p, Updates(kind, p, s), FALSE)
    BY <2>4, <1>2, <2>1 DEF Start
  <2>5. CASE Stop
    BY <2>5 DEF Stop
  <2> QED
    BY <2>1, <2>2, <2>3, <2>4, <2>5, Decisions
<1>5. CASE Finish
  BY <1>5, <1>3 DEF Finish, TypeInv, HandlerInv, PcInv, Fail, Stop
<1>6. CASE ~ReadAndPlan /\ ~Finish
  BY <1>6, <1>1 DEF Next, Call, Refused, FailAfter, Fail, Stop, ImportState, Edit, Others, vars,
                    handler, PlanInv
<1> QED
  BY <1>4, <1>5, <1>6

\* It is always kept.
LEMMA AlwaysPlanInv == ASSUME NullIsNoRecord PROVE Spec => []PlanInv
<1>1. Init => PlanInv
  BY DEF Init, PlanInv
<1>2. TypeInv /\ PlanInv /\ [Next]_vars => PlanInv'
  BY NextPlanInv
<1> QED
  BY <1>1, <1>2, AlwaysTypeInv, PTL DEF Spec

-----------------------------------------------------------------------------
(* An owner and statistics: their requests are PUTs to the object they belong to.  *)

\* The object shows what is planned or configured.
Matches(k, p, o) ==
  /\ Reaches(k, p, o)
  /\ k = "owner" => o["content"] = p["content"]
  /\ k \in StatisticsKinds => CurrentStatistics(o["props"], {ManagedKey}) = p["props"]

\* A PUT to what something is attached to changes what it carries.
LEMMA AttachedPut ==
  ASSUME NEW k \in Attached, NEW o, DOMAIN o = ObjectAttrs(k), NEW n, NEW c
  PROVE  LET q == Asks("put", n, c)
         IN DOMAIN Result(k, q, o) = ObjectAttrs(k) /\ ChangedAs(o, q.changes, Result(k, q, o))
<1> DEFINE q == Asks("put", n, c)
           d == Changed(o, Renamed(q.changes))
           r == Result(k, q, o)
<1>1. DOMAIN Nothing \subseteq DOMAIN q.changes /\ q.verb = "put"
  BY PartsOfRequest, Asked DEF Asks
<1>2. r = Added(k, d)
  BY <1>1 DEF Result
<1> HIDE DEF q, r
<1>3. ChangedAs(o, q.changes, d)
  BY <1>1, ChangedParts
<1>4. r = d
  BY MergedObjects, <1>2 DEF Added, Attached, StatisticsKinds, HidingKinds, PartitionKinds
<1> HIDE DEF d
<1> QED
  BY <1>3, <1>4 DEF ChangedAs, r, q

\* The owner that is put is the owner then.
LEMMA OwnerPut ==
  ASSUME NEW o, DOMAIN o = ObjectAttrs("owner"), NEW n, NEW v
  PROVE  Result("owner", Asks("put", n, [plain |-> [content |-> v]]), o)["content"] = v
<1> DEFINE c == [plain |-> [content |-> v]]
           q == Asks("put", n, c)
           r == Result("owner", q, o)
<1> HIDE DEF c
<1>1. ChangedAs(o, q.changes, r)
  BY AttachedPut DEF Attached
<1> HIDE DEF q, r
<1>2. r["content"] = Old(o, q.changes, "content")
  BY <1>1, AttachedSchemas DEF ChangedAs, ObjectAttrs, AttrsOf
<1> QED
  BY Asked, <1>2 DEF r, q, c, Old, Asks, PlainOf

\* So are the statistics that are set, and those that are dropped are not.
LEMMA StatisticsPut ==
  ASSUME NEW k \in StatisticsKinds, NEW o, DOMAIN o = ObjectAttrs(k), NEW n, NEW c, PlainOf(c) = NoMap
  PROVE  LET r == Result(k, Asks("put", n, c), o)
         IN /\ DOMAIN r = ObjectAttrs(k)
            /\ r["props"] = Overlay(PartOf(c, "set"),
                                    Only(o["props"], DOMAIN o["props"] \ PartOf(c, "drop")))
<1> DEFINE q == Asks("put", n, c)
           r == Result(k, q, o)
<1>1. q.changes.plain = NoMap /\ q.changes.set = PartOf(c, "set") /\ q.changes.drop = PartOf(c, "drop")
  BY PartsOfRequest, PartsOfNothing, Asked DEF Asks
<1>2. DOMAIN r = ObjectAttrs(k) /\ ChangedAs(o, q.changes, r)
  BY AttachedPut DEF Attached
<1> HIDE DEF q, r
<1>3. r["props"] = Overlay(PartOf(c, "set"), Only(o["props"], DOMAIN o["props"] \ PartOf(c, "drop")))
  BY <1>1, <1>2, AttachedSchemas DEF ChangedAs, ObjectAttrs, AttrsOf, Old, NoMap
<1> QED
  BY <1>2, <1>3 DEF r, q

\* Setting an owner shows the owner that is planned, whoever it was before.
LEMMA OwnerIsSet ==
  ASSUME NEW p, NEW o, DOMAIN o = ObjectAttrs("owner")
  PROVE  Matches("owner", p, Ahead("owner", OwnerCreate(p), o))
<1> DEFINE r == Result("owner", Asks("put", p.name, [plain |-> [content |-> p.content]]), o)
<1>1. Ahead("owner", OwnerCreate(p), o) = r
  BY DEF Ahead, OwnerCreate
<1>2. r["content"] = p["content"]
  BY OwnerPut
<1> HIDE DEF r
<1>3. ObjectAttrs("owner") = {"content"}
  BY AttachedSchemas DEF ObjectAttrs, AttrsOf
<1> QED
  BY <1>1, <1>2, <1>3 DEF Matches, Reaches, FitsAll, Fits, StatisticsKinds

\* What the catalog does not supply is what is planned, once what differs is written and
\* what is not planned is dropped, each by a request that is not sent when it is empty.
LEMMA WritesMatch ==
  ASSUME NEW k \in StatisticsKinds, NEW p, Record(p["props"]), ManagedKey \notin DOMAIN p["props"],
         p.name \in Names,
         NEW o, DOMAIN o = ObjectAttrs(k), NEW l, l = Listed(k, o["props"], p, {ManagedKey})
  PROVE  /\ Len(l) <= 3 /\ Matches(k, p, Ahead(k, l, o))
         /\ \A i \in DOMAIN l : l[i].verb = "put" /\ Stays(l[i], p.name)
<1> DEFINE current == CurrentStatistics(o["props"], {ManagedKey})
           new == ToWrite(current, p["props"])
           gone == DOMAIN current \ DOMAIN p["props"]
           a == Asks("put", p.name, [set |-> new])
           b == Asks("put", p.name, [drop |-> gone])
           u == IF new = NoMap THEN o ELSE Result(k, a, o)
           w == IF gone = {} THEN u ELSE Result(k, b, u)
<1>1. l = Write(p.name, new) \o DropNames(p.name, gone)
  BY DEF Listed, StatisticsWrites, PartitionStatisticsWrites, CurrentStatistics, CurrentPartitions
<1>2. Len(l) <= 3 /\ Ahead(k, l, o) = w
  <2> HIDE DEF current, new, gone
  <2>1. /\ Write(p.name, new) = IF new = NoMap THEN <<>> ELSE <<a>>
        /\ DropNames(p.name, gone) = IF gone = {} THEN <<>> ELSE <<b>>
    BY DEF Write, DropNames
  <2> HIDE DEF a, b
  <2>2. /\ Ahead(k, <<>>, o) = o /\ Ahead(k, <<a>>, o) = Result(k, a, o)
        /\ Ahead(k, <<b>>, o) = Result(k, b, o)
        /\ Ahead(k, <<a, b>>, o) = Result(k, b, Result(k, a, o))
    BY DEF Ahead
  <2>3. CASE new = NoMap
    BY <1>1, <2>1, <2>2, <2>3, Appended
  <2>4. CASE new # NoMap
    <3>1. gone = {} => l = <<a>>
      BY <1>1, <2>1, <2>4, Appended
    <3>2. gone # {} => l = <<a, b>>
      BY <1>1, <2>1, <2>4, Appended
    <3> HIDE DEF a, b
    <3>3. Len(l) <= 3
      <4>1. Len(<<a>>) <= 3 /\ Len(<<a, b>>) <= 3
        OBVIOUS
      <4> QED
        BY <3>1, <3>2, <4>1
    <3> QED
      BY <3>3, <2>2, <3>1, <3>2, <2>4
  <2> QED
    BY <2>3, <2>4
<1>3. \A i \in DOMAIN l : l[i].verb = "put" /\ Stays(l[i], p.name)
  <2>1. a.verb = "put" /\ Stays(a, p.name) /\ b.verb = "put" /\ Stays(b, p.name)
    BY Staying DEF NameKept, PlainOf, NoMap
  <2> HIDE DEF current, new, gone
  <2>2. /\ Write(p.name, new) \in {<<>>, <<a>>}
        /\ DropNames(p.name, gone) \in {<<>>, <<b>>}
    BY DEF Write, DropNames
  <2> HIDE DEF a, b
  <2>3. l \in {<<>>, <<a>>, <<b>>, <<a, b>>}
    BY <1>1, <2>2, Appended
  <2> QED
    BY <2>1, <2>3
<1>4. DOMAIN u = ObjectAttrs(k) /\ \/ u["props"] = o["props"] /\ new = NoMap
                                   \/ u["props"] = Overlay(new, Only(o["props"], DOMAIN o["props"]))
  <2> DEFINE c == [set |-> new]
  <2> HIDE DEF c, new
  <2> QED
    BY PartsOfNothing, StatisticsPut DEF c, PartOf, PlainOf
<1>5. DOMAIN w = ObjectAttrs(k) /\ \/ w["props"] = u["props"] /\ gone = {}
                                   \/ w["props"] = Overlay(NoMap, Only(u["props"], DOMAIN u["props"] \ gone))
  <2> DEFINE c == [drop |-> gone]
  <2>1. PartOf(c, "set") = NoMap /\ PartOf(c, "drop") = gone /\ PlainOf(c) = NoMap
    BY PartsOfNothing DEF PartOf, PlainOf
  <2> HIDE DEF c, gone, u
  <2> QED
    BY <1>4, <2>1, StatisticsPut DEF c
<1> DEFINE v == o["props"]
           d == p["props"]
           x == u["props"]
           y == w["props"]
<1>6. DOMAIN current = DOMAIN v \ {ManagedKey} /\ \A m \in DOMAIN current : current[m] = v[m]
  BY DEF CurrentStatistics, Only
<1>7. /\ DOMAIN new = {m \in DOMAIN d : m \notin DOMAIN current \/ current[m] # d[m]}
      /\ \A m \in DOMAIN new : new[m] = d[m]
  BY DEF ToWrite, Only
<1>8. /\ DOMAIN x = DOMAIN new \cup DOMAIN v
      /\ \A m \in DOMAIN x : x[m] = IF m \in DOMAIN new THEN new[m] ELSE v[m]
  <2> HIDE DEF u, new
  <2> QED
    BY <1>4 DEF Overlay, Only, NoMap
<1>9. DOMAIN y = DOMAIN x \ gone /\ \A m \in DOMAIN y : y[m] = x[m]
  <2> HIDE DEF u, w, gone
  <2> QED
    BY <1>5 DEF Overlay, Only, NoMap
<1> HIDE DEF w, u, new, current
<1>10. DOMAIN y \ {ManagedKey} = DOMAIN d
  BY <1>6, <1>7, <1>8, <1>9
<1>11. \A m \in DOMAIN d : m \in DOMAIN y /\ y[m] = d[m]
  BY <1>6, <1>7, <1>8, <1>9
<1>12. CurrentStatistics(y, {ManagedKey}) = d
  <2> HIDE DEF y, d
  <2> QED
    BY <1>11, <1>10 DEF Record, d, CurrentStatistics, Only
<1>13. Reaches(k, p, w)
  BY AttachedSchemas DEF ObjectAttrs, AttrsOf, Reaches, FitsAll, Fits, StatisticsKinds,
                         ExactKinds, PlainMaps, ProjectedKinds, PartitionKinds
<1> QED
  BY <1>2, <1>12, <1>13, <1>3 DEF Matches, StatisticsKinds

\* What every state satisfies of them: what is configured and what is on the server, and
\* that a handler nobody interferes with lists, or puts what takes the object to the plan.
AttachedConfig == config # Null /\ kind \in StatisticsKinds => config.props \in Maps
AttachedServer == \A n \in DOMAIN server : DOMAIN server[n] = ObjectAttrs(kind)
ToList == kind \in StatisticsKinds /\ todo = List(planned)
ToPut == /\ Len(todo) <= 3
         /\ \A i \in DOMAIN todo : todo[i].verb = "put" /\ Stays(todo[i], planned.name)
         /\ todo # <<>> \/ Exists(planned.name)
         /\ Exists(planned.name) =>
              Matches(kind, planned, Ahead(kind, todo, server[planned.name]))
AttachedWork == ~disturbed /\ pc \in {"create", "update"} => ToList \/ ToPut
AttachedInv == kind \in Attached => AttachedConfig /\ AttachedServer /\ AttachedWork

\* What can be configured of statistics are properties the catalog does not supply.
LEMMA MapsConfigured ==
  ASSUME NEW m \in Maps
  PROVE  Record(m) /\ ManagedKey \notin DOMAIN m
  BY ManagedAssumption DEF Maps, Record

\* A Create and an Update begin with a list, or with the one request for an owner.
LEMMA AttachedStarted ==
  ASSUME kind \in Attached, AttachedServer, UNCHANGED <<kind, server>>, NEW op, NEW p, p.name \in Names,
         NEW s, NEW l, l \in {Creates(kind, p), Updates(kind, p, s)}, Start(op, p, l, FALSE)
  PROVE  ToList' \/ ToPut'
<1>1. planned' = p /\ todo' = l
  BY DEF Start
<1>2. CASE kind \in StatisticsKinds
  BY <1>1, <1>2 DEF ToList, StatisticsKinds, Creates, Updates, StatisticsCreate, StatisticsUpdate,
     PartitionStatisticsCreate, PartitionStatisticsUpdate
<1>3. CASE kind = "owner"
  <2> DEFINE c == [plain |-> [content |-> p.content]]
             q == Asks("put", p.name, c)
  <2>1. l = OwnerCreate(p) /\ l = <<q>>
    BY <1>3 DEF Creates, Updates, OwnerCreate, OwnerUpdate
  <2>2. q.verb = "put" /\ Stays(q, p.name)
    <3>1. NameKept(c)
      BY DEF NameKept, PlainOf
    <3> HIDE DEF c
    <3> QED
      BY <3>1, Staying
  <2> HIDE DEF q
  <2>3. Exists(p.name) => Matches(kind, p, Ahead(kind, l, server[p.name]))
    BY <1>3, <2>1, OwnerIsSet DEF Exists, AttachedServer
  <2>4. ToPut'
    BY <1>1, <2>2, <2>1, <2>3 DEF ToPut, Exists
  <2> QED
    BY <2>4
<1> QED
  BY <1>2, <1>3 DEF Attached

\* An answered request leaves what is to be put after a list, or the rest of it.
LEMMA AttachedAnswered ==
  ASSUME kind \in Attached, TypeInv, PlanInv, AttachedConfig, AttachedServer,
         pc \in {"create", "update"}, ToList \/ ToPut, NEW q, Answered(q)
  PROVE  ToPut'
<1> DEFINE n == planned.name
<1>1. /\ kind # "identity" /\ kind \notin {"function", "table"} /\ n \in Names
  BY DEF Attached, StatisticsKinds, TypeInv, HandlerInv, PlannedInv
<1>2. /\ todo # <<>> /\ q = Head(todo) /\ Possible(q) /\ server' = After(q)
      /\ UNCHANGED <<kind, planned>>
      /\ todo' = IF q.verb # "list" THEN Tail(todo)
                 ELSE Listed(kind, server[q.target].props, planned, {ManagedKey})
  BY DEF Answered
<1>3. CASE ToList
  <2>1. q.verb = "list" /\ q.target = n
    BY <1>2, <1>3, Asked DEF ToList, List, Asks
  <2>2. n \in DOMAIN server /\ server' = server
    BY <1>2, <2>1, NamesAfter DEF Possible, Exists
  <2>3. Record(planned["props"]) /\ ManagedKey \notin DOMAIN planned["props"]
    BY <1>3, <1>1, AttachedSchemas, MapsConfigured DEF ToList, AttachedConfig, PlanInv,
                                                       AsConfigured, NotConfigured
  <2> DEFINE l == Listed(kind, server[n]["props"], planned, {ManagedKey})
  <2>4. todo' = l
    BY <1>2, <2>1
  <2>5. /\ Len(l) <= 3 /\ Matches(kind, planned, Ahead(kind, l, server[n]))
        /\ \A i \in DOMAIN l : l[i].verb = "put" /\ Stays(l[i], n)
    BY <1>3, <2>2, <1>1, <2>3, WritesMatch DEF AttachedServer, ToList
  <2> HIDE DEF l
  <2> QED
    BY <1>2, <2>2, <2>4, <2>5 DEF ToPut, Exists
<1>4. CASE ToPut
  <2>1. /\ RequestOK(q) /\ 1 \in DOMAIN todo /\ q = todo[1] /\ Listing(todo)
        /\ \A i \in DOMAIN Tail(todo) : i + 1 \in DOMAIN todo /\ Tail(todo)[i] = todo[i + 1]
    BY <1>2, FirstOfList DEF TypeInv, HandlerInv, TodoInv, ListOK
  <2>2. q.verb = "put" /\ q.target = n /\ NoRename(q)
    BY <1>4, <2>1 DEF ToPut, Stays
  <2>3. n \in DOMAIN server
    BY <1>2, <2>2 DEF Possible, Exists
  <2>4. TargetOf(q) = n
    BY <1>1, <2>1, <2>2, NamesOfRequests
  <2>5. n \in DOMAIN server' /\ server'[n] = Result(kind, q, server[n])
    BY <1>1, <1>2, <2>2, <2>4, NamesAfter, ServerParts
  <2>6. /\ Len(Tail(todo)) <= 3
        /\ Ahead(kind, todo, server[n]) = Ahead(kind, Tail(todo), Result(kind, q, server[n]))
    <3> HIDE DEF Listing
    <3> QED
      BY <1>2, <1>4, <2>1, AheadOfTail DEF ToPut
  <2>7. todo' = Tail(todo)
    BY <1>2, <2>2
  <2>8. Matches(kind, planned, Ahead(kind, todo', server'[n]))
    BY <1>4, <2>3, <2>5, <2>6, <2>7 DEF ToPut, Exists
  <2>9. \A i \in DOMAIN todo' : todo'[i].verb = "put" /\ Stays(todo'[i], n)
    BY <1>4, <2>1, <2>7 DEF ToPut
  <2> QED
    BY <1>2, <2>5, <2>6, <2>7, <2>8, <2>9 DEF ToPut, Exists
<1> QED
  BY <1>3, <1>4

\* The server keeps what something is attached to in shape.
LEMMA AttachedServerKept ==
  ASSUME kind \in Attached, TypeInv, AttachedServer, [Next]_vars
  PROVE  AttachedServer'
<1>1. kind' = kind
  BY DEF Next, ReadAndPlan, Call, Finish, ImportState, Edit, Others, vars
<1>2. CASE Call
  <2> DEFINE q == Head(todo)
  <2>1. q.verb # "post" /\ RequestOK(q)
    BY <1>2, FirstOfList DEF Call, TypeInv, HandlerInv, TodoInv
  <2>2. CASE Possible(q) /\ server' = After(q)
    <3> HIDE DEF q
    <3>1. SUFFICES ASSUME NEW n \in DOMAIN After(q), q.verb \notin {"get", "list", "post", "delete", "force"},
                          n = TargetOf(q)
                   PROVE  DOMAIN After(q)[n] = ObjectAttrs(kind)
      BY <1>1, <2>1, <2>2, ServerParts DEF AttachedServer, Attached, StatisticsKinds
    <3>2. DOMAIN Result(kind, q, server[q.target]) = DOMAIN server[q.target]
      <4> DEFINE d == Changed(server[q.target], Renamed(q.changes))
      <4> HIDE DEF d
      <4> QED
        BY <3>1, AddedParts DEF Changed, Result
    <3> QED
      BY <2>2, <3>1, ServerParts, <3>2 DEF AttachedServer, Possible, Exists, Attached,
                                           StatisticsKinds
  <2> QED
    BY <1>1, <1>2, <2>2 DEF AttachedServer, Call
<1>3. CASE Others
  <2>1. CASE \E n \in DOMAIN server : server' = Only(server, DOMAIN server \ {n})
    BY <1>1, <2>1 DEF AttachedServer, Only
  <2>2. CASE \E n \in DOMAIN server : \E a \in DOMAIN server[n] : \E v \in OthersValue(server[n], a) :
               server' = [server EXCEPT ![n][a] = v]
    <3>1. PICK n \in DOMAIN server : \E a \in DOMAIN server[n] : \E v \in OthersValue(server[n], a) :
                 server' = [server EXCEPT ![n][a] = v]
      BY <2>2
    <3> DEFINE o == server[n]
    <3>2. PICK a \in DOMAIN o : \E v \in OthersValue(o, a) : server' = [server EXCEPT ![n] = [o EXCEPT ![a] = v]]
      BY <3>1
    <3>3. PICK v : server' = [server EXCEPT ![n] = [o EXCEPT ![a] = v]]
      BY <3>2
    <3> QED
      BY <1>1, <3>3 DEF AttachedServer
  <2>3. CASE \E m \in known :
               server' = [n \in DOMAIN server |->
                    IF "members" \in DOMAIN server[n]
                    THEN [server[n] EXCEPT !.members = @ \ {m}] ELSE server[n]]
    BY <1>1, <2>3 DEF AttachedServer
  <2> QED
    BY <1>3, <2>1, <2>2, <2>3 DEF Others
<1>4. CASE UNCHANGED server
  BY <1>1, <1>4 DEF AttachedServer
<1> QED
  BY <1>2, <1>3, <1>4 DEF Next, ReadAndPlan, Finish, ImportState, Edit, vars

\* Each step keeps the handler of an owner or of statistics on its way.
LEMMA NextAttachedInv ==
  ASSUME NullIsNoRecord, TypeInv, PlanInv, AttachedInv, [Next]_vars
  PROVE  AttachedInv'
<1>1. kind' = kind
  BY DEF Next, ReadAndPlan, Call, Finish, ImportState, Edit, Others, vars
<1> SUFFICES ASSUME kind \in Attached
             PROVE  AttachedConfig' /\ AttachedServer' /\ AttachedWork'
  BY <1>1 DEF AttachedInv
<1>2. AttachedConfig /\ AttachedServer /\ AttachedWork
  BY DEF AttachedInv
<1>3. AttachedConfig'
  <2>1. CASE Edit
    <3> SUFFICES ASSUME config' # Null, kind \in StatisticsKinds
                 PROVE  config'.props \in Maps
      BY <1>1 DEF AttachedConfig
    <3>1. Attrs = {"name", "props"}
      BY AttachedSchemas DEF Attrs, AttrsOf
    <3>2. CASE config # Null /\ \E a \in Attrs : \E v \in ConfigurableAs(a) \ {config[a]} :
                                  config' = [config EXCEPT ![a] = v]
      BY <1>2, <3>2, <3>1 DEF AttachedConfig, TypeInv, DataInv, ConfigInv, ConfigurableAs
    <3> QED
      BY <2>1, <3>1, <3>2 DEF Edit, FirstConfig, FirstValue, Maps
  <2>2. CASE UNCHANGED config
    BY <1>1, <1>2, <2>2 DEF AttachedConfig
  <2> QED
    BY <2>1, <2>2 DEF Next, ReadAndPlan, Call, Finish, ImportState, Others, vars
<1>4. AttachedWork'
  <2>1. ASSUME StartCreate(PlanCreate(kind, config)), UNCHANGED <<config, server>>, config # Null
        PROVE  AttachedWork'
    <3> DEFINE p == PlanCreate(kind, config)
    <3>1. p.name \in Names
      BY <2>1, CreatePlans DEF TypeInv, DataInv, Attached, StatisticsKinds
    <3>2. pc' = "idle" \/ Start("create", p, Creates(kind, p), FALSE)
      BY <2>1 DEF StartCreate, Stop
    <3> HIDE DEF p
    <3> QED
      BY <1>1, <1>2, <2>1, <3>1, <3>2, AttachedStarted DEF AttachedWork
  <2>2. CASE ReadAndPlan
    <3> DEFINE s == ReadState
    <3>1. Decide(s) /\ UNCHANGED <<config, server>> /\ state' = s
      BY <2>2 DEF ReadAndPlan
    <3>2. StateOK(s)
      BY ReadStates DEF TypeInv
    <3> HIDE DEF s
    <3>3. CASE config # Null /\ StartCreate(PlanCreate(kind, config))
      BY <2>1, <3>1, <3>3
    <3>4. CASE s # Null /\ config # Null /\
                 \E p : /\ p = PlanUpdate(kind, config, s) /\ ~Replaces(kind, config, p, s)
                        /\ Start("update", p, Updates(kind, p, s), FALSE)
      BY <3>4, <3>2, UpdatePlans, <1>1, <1>2, <3>1, AttachedStarted DEF TypeInv, DataInv,
                                                                        Attached, StatisticsKinds,
                                                                        AttachedWork
    <3>5. CASE pc' \in {"idle", "delete"}
      BY <3>5 DEF AttachedWork
    <3> QED
      BY <3>1, <3>3, <3>4, <3>5, Decisions DEF Stop, Start
  <2>3. CASE Finish
    BY <2>3, <2>1 DEF Finish, Fail, Stop, TypeInv, HandlerInv, PcInv, AttachedWork
  <2>4. CASE Call
    <3> DEFINE q == Head(todo)
    <3>1. CASE Answered(q) /\ disturbed' = disturbed
      BY <3>1, <1>2, AttachedAnswered DEF Answered, AttachedWork
    <3>2. CASE Refused(q) \/ FailAfter(q)
      BY <3>2 DEF Refused, CountsAsGone, FailAfter, Fail, Stop, AttachedWork
    <3> QED
      BY <1>1, <2>4, <3>1, <3>2 DEF Call, Answered
  <2>5. CASE Others
    BY <2>5 DEF Others, handler, AttachedWork
  <2>6. CASE ImportState \/ Edit
    BY <2>6 DEF ImportState, Edit, handler, AttachedWork
  <2>7. CASE UNCHANGED vars
    BY <2>7, <1>2 DEF vars, handler, AttachedWork, ToList, ToPut, Exists
  <2> QED
    BY <2>2, <2>3, <2>4, <2>5, <2>6, <2>7 DEF Next
<1> QED
  BY <1>2, AttachedServerKept, <1>3, <1>4

\* They are on their way always.
LEMMA AlwaysAttachedInv == ASSUME NullIsNoRecord PROVE Spec => []AttachedInv
<1>1. Init => AttachedInv
  <2> SUFFICES ASSUME Init, kind \in Attached
               PROVE  AttachedConfig /\ AttachedServer /\ AttachedWork
    BY DEF AttachedInv
  <2>1. AttachedConfig
    BY AttachedSchemas DEF Attrs, AttrsOf, Init, AttachedConfig, FirstConfig, FirstValue, Maps
  <2>2. AttachedServer
    BY AttachedSchemas DEF ObjectAttrs, AttrsOf, Init, InitialServer, StatisticsKinds,
                           AttachedServer, Attached
  <2> QED
    BY <2>1, <2>2 DEF Init, AttachedWork
<1>2. TypeInv /\ PlanInv /\ AttachedInv /\ [Next]_vars => AttachedInv'
  BY NextAttachedInv
<1> QED
  BY <1>1, <1>2, AlwaysTypeInv, AlwaysPlanInv, PTL DEF Spec

-----------------------------------------------------------------------------
(* What has been applied, and has not been touched since.                    *)

\* The state shows what is configured, but for what a job template shows as not set; and so
\* does the object, as far as the kind shows it.
StateShows(k, c, s) ==
  \A a \in AttrsOf(k) : \/ NotConfigured(k, c, a) \/ s[a] = c[a]
                        \/ k = "job_template" /\ EmptyOf(a, c[a])
ObjectShows(k, c, o) ==
  /\ \A a \in ObjectAttrs(k) : NotConfigured(k, c, a) \/ Fits(k, a, c[a], o[a])
  /\ k = "policy" => o["flag"] = c["flag"]
  /\ k = "owner" => o["content"] = c["content"]
  /\ k \in StatisticsKinds => CurrentStatistics(o["props"], {ManagedKey}) = c["props"]
CleanInv ==
  clean /\ kind \notin {"function", "table"} =>
    IF config = Null THEN state = Null
    ELSE /\ state # Null /\ Exists(state.name) /\ StateShows(kind, config, state)
         /\ ObjectShows(kind, config, server[state.name])

\* Every kind but those with lists is merged or attached.
LEMMA KindsWithoutLists ==
  ASSUME NEW k \in AllKinds \ {"function", "table"}
  PROVE  k \in MergedKinds \/ (k \in Attached /\ k \notin MergedKinds)
  BY DEF AllKinds, MergedKinds, Attached, StatisticsKinds

\* An object that shows a plan shows the configuration the plan was made for.
LEMMA PlanIsConfigured ==
  ASSUME NEW k \in AllKinds, NEW c, NEW p, AsConfigured(k, c, p), NEW o, Matches(k, p, o)
  PROVE  ObjectShows(k, c, o)
<1>1. \A a \in ObjectAttrs(k) : a \in AttrsOf(k) /\ Fits(k, a, p[a], o[a])
  BY DEF Matches, Reaches, FitsAll, ObjectAttrs, AttrsOf
<1>2. \A a \in ObjectAttrs(k) : NotConfigured(k, c, a) \/ Fits(k, a, c[a], o[a])
  BY <1>1 DEF AsConfigured
<1>3. k = "policy" => o["flag"] = c["flag"]
  BY MergedSchemas DEF SchemaOf, PolicySchema, AsConfigured, NotConfigured, Matches, Reaches
<1> QED
  BY <1>2, <1>3, AttachedSchemas DEF ObjectShows, Attached, AsConfigured, NotConfigured, Matches

\* A refresh shows an object that is there.
LEMMA ReadMatches ==
  ASSUME NotSetIsNoValue, TypeInv, RunInv, AttachedInv, kind \notin {"function", "table"}, ReadState # Null
  PROVE  /\ Record(ReadState) /\ DOMAIN ReadState = AttrsOf(kind) /\ ReadState.name \in DOMAIN server
         /\ Matches(kind, ReadState, server[ReadState.name])
<1>1. kind \in AllKinds
  BY KindKnown DEF TypeInv, DataInv
<1>2. CASE kind \in MergedKinds
  BY <1>2, ReadValues DEF TypeInv, RunInv, ValueInv, MergedKinds, StatisticsKinds, Matches
<1>3. CASE kind \in Attached
  <2> DEFINE n == state.name
             v == View(server, n)
             s == Refreshed(kind, v, state, {ManagedKey})
  <2>1. NullIsNoRecord /\ DataInv /\ state # Null /\ ReadState.name = n
    BY NullIsNone, ReadStates DEF TypeInv
  <2>2. Exists(n)
    BY <1>1, <2>1, GoneFromState DEF ReadState
  <2>3. ReadState = s
    BY <2>1, <2>2 DEF ReadState
  <2>4. v # Null /\ v.name = n /\ DOMAIN server[n] = ObjectAttrs(kind)
        /\ \A a \in ObjectAttrs(kind) : v[a] = server[n][a]
    BY <1>3, <2>2, <2>1, Views DEF ObjectAttrs, AttachedInv, AttachedServer, Exists, View, Overlay
  <2>5. DOMAIN state = AttrsOf(kind) /\ "name" \in DOMAIN state
    BY <1>1, <2>1, NamesAreAttributes DEF DataInv, StateOK, Attrs, AttrsOf
  <2> HIDE DEF v
  <2>6. Shaped(s, state)
    BY <1>1, <2>4, <2>5, RefreshedStates
  <2>7. Matches(kind, s, server[n])
    <3>1. CASE kind = "owner"
      <4>1. ObjectAttrs(kind) = {"content"} /\ AttrsOf(kind) = {"name", "content"}
        BY <3>1, AttachedSchemas DEF ObjectAttrs, AttrsOf
      <4>2. s["content"] = server[n]["content"]
        BY <2>4, <2>5, <4>1, <3>1 DEF Refreshed, OwnerRead, IfThere, OwnerState
      <4> HIDE DEF s
      <4> QED
        BY <3>1, <4>1, <4>2 DEF Matches, Reaches, FitsAll, Fits, StatisticsKinds
    <3>2. CASE kind \in StatisticsKinds
      <4>1. ObjectAttrs(kind) = {"props"} /\ AttrsOf(kind) = {"name", "props"}
        BY <3>2, AttachedSchemas DEF ObjectAttrs, AttrsOf
      <4>2. s["props"] = CurrentStatistics(server[n]["props"], {ManagedKey})
        BY <2>4, <2>5, <4>1, <3>2 DEF Refreshed, StatisticsKinds, StatisticsRead,
                                      PartitionStatisticsRead, CurrentPartitions,
                                      CurrentStatistics
      <4> HIDE DEF s
      <4> QED
        BY <3>2, <4>1, <4>2 DEF Matches, Reaches, FitsAll, Fits, StatisticsKinds, ExactKinds,
           PlainMaps, ProjectedKinds, PartitionKinds
    <3> QED
      BY <1>3, <3>1, <3>2 DEF Attached
  <2> HIDE DEF s, n
  <2>8. Record(s) /\ DOMAIN s = AttrsOf(kind)
    BY <2>5, <2>6 DEF Shaped
  <2> QED
    BY <2>1, <2>2, <2>3, <2>7, <2>8 DEF Exists
<1> QED
  BY <1>1, <1>2, <1>3, KindsWithoutLists

\* A handler that nobody has interfered with has taken its object to the plan when it is
\* done, and writes the plan.
LEMMA WrittenMatches ==
  ASSUME NotSetIsNoValue, TypeInv, RunInv, AttachedInv, kind \notin {"function", "table"},
         pc \in {"create", "update"}, todo = <<>>, ~disturbed
  PROVE  /\ Written # Null /\ Written.name \in DOMAIN server
         /\ Matches(kind, planned, server[Written.name])
         /\ \A a \in AttrsOf(kind) : Written1(kind, a, planned[a], Written[a])
         /\ kind \in Attached => Written = planned
<1>1. /\ kind \in AllKinds /\ NullIsNoRecord
      /\ planned.name \in IF kind = "identity" THEN {Unknown} ELSE Names
      /\ pc = "update" => kind \in RenamedKinds \cup {"identity"} \/ planned.name = state.name
  BY KindKnown, NullIsNone DEF TypeInv, DataInv, HandlerInv, PlannedInv
<1>2. /\ Written # Null
      /\ answer # Null => /\ Written.name \in {answer.name, planned.name}
                          /\ kind = "identity" => Written.name = answer.name
      /\ answer = Null => /\ pc = "update" /\ kind \in KeptKinds
                          /\ Written.name = planned.name
                               \/ (kind \in {"idp_user", "idp_group"} /\ Written.name = state.name)
  BY <1>1, WrittenStates
<1>3. CASE kind \in MergedKinds
  <2>1. ValueInv /\ WorkInv /\ kind \notin StatisticsKinds /\ kind \notin Attached /\ kind # "owner"
    BY <1>3 DEF RunInv, MergedKinds, Attached, StatisticsKinds
  <2>2. ~(pc = "update" /\ kind \in PartitionKinds)
    BY <2>1 DEF ValueInv, HandlerValues, RequestValues
  <2>3. PICK n \in DOMAIN server : Working(n)
    BY <1>2, <2>1, <2>2 DEF Making, WorkInv
  <2>4. /\ planned.name \in {n, Unknown} /\ Reaches(kind, planned, server[n])
        /\ answer # Null => answer.name = n
    BY <2>3 DEF MoveOnce, Ahead, Working, Placed
  <2>5. Written.name = n
    BY <1>2, <2>2, <2>4, <1>1, NameAssumption DEF PartitionKinds, RenamedKinds
  <2>6. \A a \in AttrsOf(kind) : Written1(kind, a, planned[a], Written[a])
    BY <1>3, <2>1, WrittenValues DEF Attrs, AttrsOf
  <2> QED
    BY <1>2, <2>1, <2>4, <2>5, <2>6 DEF Matches
<1>4. CASE kind \in Attached
  <2>1. Written = planned
    BY <1>2, <1>4 DEF Written, Applied, Attached, StatisticsKinds, KeptKinds
  <2>2. ToPut
    BY <1>4 DEF ToList, List, AttachedInv, AttachedWork
  <2> QED
    BY <1>2, <2>1, <2>2 DEF Written1, Ahead, ToPut, Exists
<1> QED
  BY <1>1, <1>3, <1>4, KindsWithoutLists

\* After an apply that nobody else has interfered with, the state that the handler writes
\* shows every value the plan had, whichever requests it took, whatever they were answered
\* with and whatever was refused or lost before; of every kind but tables and functions,
\* whose lists of columns and of definitions are converted one by one.
THEOREM AppliesShowThePlan ==
  ASSUME NotSetIsNoValue, Kinds \cap {"table", "function"} = {}
  PROVE  Spec => AppliedAsPlanned
<1>1. ASSUME TypeInv, RunInv, AttachedInv, Finish, pc \in {"create", "update"}, ~disturbed
      PROVE  \A a \in Attrs : Written1(kind, a, planned[a], state'[a])
  BY <1>1, WrittenMatches DEF Finish, TypeInv, DataInv, KindInv, Attrs, AttrsOf
<1>2. TypeInv /\ RunInv /\ AttachedInv =>
        [(Finish /\ pc \in {"create", "update"} /\ ~disturbed) =>
           \A a \in Attrs : \/ planned[a] = Unknown
                            \/ state'[a] = planned[a]
                            \/ a = "index" /\ ~IndexChanged(planned[a], state'[a])
                            \/ kind = "job_template" /\ EmptyOf(a, planned[a])]_vars
  BY <1>1 DEF Written1
<1> QED
  BY <1>2, NullIsNone, AlwaysTypeInv, AlwaysRunInv, AlwaysAttachedInv, PTL DEF AppliedAsPlanned

\* What an apply leaves, and what a plan finds in order, shows what is configured.
LEMMA FinishClean ==
  ASSUME NotSetIsNoValue, TypeInv, RunInv, PlanInv, AttachedInv, CleanInv, Finish, UNCHANGED kind
  PROVE  CleanInv'
<1> SUFFICES ASSUME clean', kind \notin {"function", "table"}
             PROVE  IF config' = Null THEN state' = Null
                    ELSE /\ state' # Null /\ (Exists(state.name))' /\ StateShows(kind, config', state')
                         /\ ObjectShows(kind, config', server'[state'.name])
  BY DEF CleanInv
<1>1. /\ pc \in {"create", "update", "delete"} /\ todo = <<>> /\ state' = Written /\ UNCHANGED <<config, server>>
      /\ ~disturbed /\ ~next
  BY DEF Fail, StartCreate, Start, TypeInv, HandlerInv, PcInv, Finish
<1>2. CASE pc = "delete"
  BY <1>1, <1>2 DEF PlanInv, Written
<1>3. CASE pc \in {"create", "update"}
  <2>1. /\ Written # Null /\ Written.name \in DOMAIN server
        /\ Matches(kind, planned, server[Written.name])
        /\ \A a \in AttrsOf(kind) : Written1(kind, a, planned[a], Written[a])
        /\ kind \in Attached => Written = planned
    BY <1>1, <1>3, WrittenMatches
  <2>2. config # Null /\ AsConfigured(kind, config, planned) /\ kind \in AllKinds
    BY <1>3, KindKnown DEF PlanInv, TypeInv, DataInv
  <2>3. StateShows(kind, config, Written)
    <3>1. CASE kind \in MergedKinds
      <4>1. \A a \in AttrsOf(kind) : config[a] # Unknown
        BY <2>2, NameAssumption, ValueAssumption, <3>1 DEF TypeInv, DataInv, ConfigInv, RunInv,
                                                           ValueInv, ConfigValues, ConfigSound
      <4> QED
        BY <2>1, <2>2, <4>1 DEF StateShows, AsConfigured, Written1
    <3>2. CASE kind \in Attached
      BY <2>1, <2>2, <3>2 DEF StateShows, AsConfigured
    <3> QED
      BY <2>2, <3>1, <3>2, KindsWithoutLists
  <2> QED
    BY <1>1, <2>1, <2>2, PlanIsConfigured, <2>3 DEF Exists
<1> QED
  BY <1>1, <1>2, <1>3

\* So does a plan that finds nothing to do.
LEMMA ReadClean ==
  ASSUME NotSetIsNoValue, TypeInv, RunInv, AttachedInv, ReadAndPlan
  PROVE  CleanInv'
<1>1. kind' = kind /\ UNCHANGED <<config, server>> /\ state' = ReadState /\ Decide(ReadState)
  BY DEF ReadAndPlan
<1> SUFFICES ASSUME clean', kind \notin {"function", "table"}
             PROVE  IF config = Null THEN ReadState = Null
                    ELSE /\ ReadState # Null /\ ReadState.name \in DOMAIN server
                         /\ StateShows(kind, config, ReadState)
                         /\ ObjectShows(kind, config, server[ReadState.name])
  BY <1>1 DEF CleanInv, Exists
<1> DEFINE s == ReadState
<1>2. \/ s = Null /\ config = Null
      \/ s # Null /\ config # Null /\ SameAsState(kind, config, s)
  <2> HIDE DEF s
  <2>1. \A op, p, l, again : ~Start(op, p, l, again)
    BY DEF Start
  <2> QED
    BY <1>1, <2>1 DEF Decide, s, StartCreate, Start
<1>3. CASE s = Null /\ config = Null
  BY <1>3
<1>4. CASE s # Null /\ config # Null /\ SameAsState(kind, config, s)
  <2>1. /\ s.name \in DOMAIN server /\ Matches(kind, s, server[s.name]) /\ kind \in AllKinds
    BY <1>4, ReadMatches, KindKnown DEF TypeInv, DataInv
  <2> HIDE DEF s
  <2>2. AsConfigured(kind, config, s)
    BY <1>4, <2>1, NoIndex DEF SameAsState, AsConfigured, AttrsOf
  <2> QED
    BY <1>4, <2>1, <2>2, PlanIsConfigured DEF s, AsConfigured, StateShows
<1> QED
  BY <1>2, <1>3, <1>4

\* Nothing else makes it so, and whatever changes ends it.
LEMMA NextCleanInv ==
  ASSUME NotSetIsNoValue, TypeInv, RunInv, PlanInv, AttachedInv, CleanInv, [Next]_vars
  PROVE  CleanInv'
<1>1. kind' = kind
  BY DEF Next, ReadAndPlan, Call, Finish, ImportState, Edit, Others, vars
<1>2. CASE Finish
  BY <1>1, <1>2, FinishClean
<1>3. CASE ReadAndPlan
  BY <1>3, ReadClean
<1>4. CASE Call
  BY <1>4 DEF Call, TypeInv, HandlerInv, PcInv, Refused, FailAfter, Fail, CleanInv
<1>5. CASE ImportState \/ Edit \/ Others
  BY <1>5 DEF ImportState, Edit, Others, CleanInv
<1>6. CASE UNCHANGED vars
  BY <1>6 DEF vars, handler, CleanInv, Exists
<1> QED
  BY <1>2, <1>3, <1>4, <1>5, <1>6 DEF Next

\* It always shows.
LEMMA AlwaysCleanInv == ASSUME NotSetIsNoValue PROVE Spec => []CleanInv
<1>1. Init => CleanInv
  BY DEF Init, CleanInv
<1>2. TypeInv /\ RunInv /\ PlanInv /\ AttachedInv /\ CleanInv /\ [Next]_vars => CleanInv'
  BY NextCleanInv
<1>3. /\ Spec => []TypeInv
      /\ Spec => []RunInv
      /\ Spec => []PlanInv
      /\ Spec => []AttachedInv
  BY NullIsNone, AlwaysTypeInv, AlwaysRunInv, AlwaysPlanInv, AlwaysAttachedInv
<1> QED
  BY <1>1, <1>2, <1>3, PTL DEF Spec

\* Drift is seen and undone, for whatever names, keys, members and bounds: after an apply,
\* or a plan that finds nothing to do, the object is there and has what is configured,
\* whatever others have done to it before and whatever a handler has left half done; of every
\* kind but tables and functions.
THEOREM DriftIsRepaired ==
  ASSUME NotSetIsNoValue, Kinds \cap {"table", "function"} = {}
  PROVE  Spec => []DriftRepaired
<1>1. TypeInv /\ RunInv /\ AttachedInv /\ CleanInv => DriftRepaired
  <2> SUFFICES ASSUME TypeInv, RunInv, AttachedInv, CleanInv, clean, config # Null
               PROVE  /\ Exists(state.name)
                      /\ \A a \in Attrs \ {"name"} : Agrees(a, config[a], server[state.name][a])
    BY DEF DriftRepaired
  <2> DEFINE o == server[state.name]
  <2>1. kind \in AllKinds \ {"function", "table"}
    BY KindKnown DEF TypeInv, DataInv, KindInv
  <2>2. state # Null /\ Exists(state.name) /\ ObjectShows(kind, config, o)
    BY <2>1 DEF CleanInv
  <2> HIDE DEF o
  <2>3. ASSUME NEW a \in AttrsOf(kind) \ {"name"}
        PROVE  Agrees(a, config[a], o[a])
    <3> DEFINE c == config[a]
               v == o[a]
    <3>1. CASE NotConfigured(kind, config, a)
      BY <3>1 DEF Agrees, NotConfigured
    <3>2. CASE ~NotConfigured(kind, config, a) /\ kind \in MergedKinds
      <4>1. c # Unknown
        BY <3>2 DEF RunInv, ValueInv, ConfigValues, ConfigSound
      <4>2. a \in ObjectAttrs(kind) => Fits(kind, a, c, v)
        BY <2>2, <3>2 DEF ObjectShows
      <4>3. c = Null => a \notin SchemaOf(kind).computed
        BY <3>2 DEF NotConfigured
      <4>4. kind = "policy" /\ a = "flag" => v = c
        BY <2>2 DEF ObjectShows
      <4> HIDE DEF c, v
      <4>5. CASE a = "comment"
        BY <4>1, <4>2, <4>5 DEF Fits, ObjectAttrs, AttrsOf, Agrees, TracksComment, c, v
      <4>6. CASE a = "props"
        <5>1. a \in ObjectAttrs(kind)
          BY <4>6 DEF ObjectAttrs, AttrsOf
        <5>2. CASE kind \in ExactKinds
          BY <4>1, <4>2, <4>6, <5>1, <5>2, RecordsMade DEF Fits, AsMap, Agrees, c, v
        <5>3. CASE kind \in ProjectedKinds
          BY <4>1, <4>3, <4>6, <5>3, ComputedAttributes, <4>2, <5>1 DEF ProjectedKinds,
                                                                        PartitionKinds, AsMap,
                                                                        NotSet, Fits, TracksKeys,
                                                                        Agrees, c, v
        <5>4. CASE kind = "role"
          BY <4>1, <4>3, <4>6, <5>4, ComputedAttributes, <4>2, <5>1 DEF AsMap, NotSet, Fits,
                                                                        Agrees, c, v
        <5>5. kind \in ExactKinds \cup ProjectedKinds \cup {"role"}
          BY <4>6, MergedSchemas, <3>2 DEF MergedKinds, ExactKinds, PlainMaps, ProjectedKinds,
                                           PartitionKinds
        <5> QED
          BY <5>2, <5>3, <5>4, <5>5
      <4>7. CASE a = "members"
        BY <3>2, <4>7, MergedSchemas, <4>1, <4>3, ComputedAttributes, <4>2
           DEF MergedKinds, PartitionKinds, AsSet, NotSet, Fits, ObjectAttrs, AttrsOf, Agrees, c,
               v
      <4>8. CASE a = "content"
        BY <4>1, <4>2, <4>8 DEF Fits, ObjectAttrs, AttrsOf, Agrees, c, v
      <4>9. CASE a = "flag"
        BY <3>2, <4>9, MergedSchemas, <4>4 DEF MergedKinds, PartitionKinds, Agrees, c, v
      <4>10. CASE a \in {"secret", "force"}
        BY <4>10 DEF Agrees
      <4>11. a \in {"comment", "props", "members", "content", "flag", "secret", "force"}
        BY <3>2, MergedSchemas DEF MergedKinds, PartitionKinds
      <4> QED
        BY <4>5, <4>6, <4>7, <4>8, <4>9, <4>10, <4>11
    <3>3. CASE kind = "owner"
      BY <2>2, <3>3, AttachedSchemas DEF ObjectShows, Agrees
    <3>4. CASE kind \in StatisticsKinds
      <4>1. a = "props" /\ CurrentStatistics(v, {ManagedKey}) = c
        BY <2>2, <3>4, AttachedSchemas DEF ObjectShows
      <4>2. Record(c)
        BY <3>4, <4>1, MapsConfigured DEF AttachedInv, AttachedConfig, Attached
      <4>3. DOMAIN c = DOMAIN v \ {ManagedKey} /\ \A x \in DOMAIN c : v[x] = c[x]
        <5> HIDE DEF c, v
        <5> QED
          BY <4>1 DEF CurrentStatistics, Only
      <4> QED
        BY <3>4, <4>1, <4>2, <4>3 DEF Agrees, AsMap, NotSetIsNoValue
    <3> QED
      BY <2>1, <3>1, <3>2, <3>3, <3>4, KindsWithoutLists DEF Attached
  <2> QED
    BY <2>2, <2>3 DEF o, Attrs, AttrsOf
<1>2. /\ Spec => []TypeInv
      /\ Spec => []RunInv
      /\ Spec => []AttachedInv
      /\ Spec => []CleanInv
  BY NullIsNone, AlwaysTypeInv, AlwaysRunInv, AlwaysAttachedInv, AlwaysCleanInv
<1> QED
  BY <1>1, <1>2, PTL

\* What a refresh shows is what is configured, if that is what state and server had.
LEMMA ReadAsConfigured ==
  ASSUME NotSetIsNoValue, NEW k \in MergedKinds, NEW c, ConfigSound(k, c), c["name"] # Null,
         NEW m, DOMAIN m = AttrsOf(k), NEW v, v # Null, ProperAll(k, v), v.name = m["name"],
         \A a \in AttrsOf(k) : NotConfigured(k, c, a) \/ m[a] = c[a],
         \A a \in ObjectAttrs(k) : NotConfigured(k, c, a) \/ Fits(k, a, c[a], v[a]),
         k = "policy" => v["flag"] = c["flag"],
         k = "job_template" => \A a \in AttrsOf(k) : ~EmptyOf(a, c[a])
  PROVE  AsConfigured(k, c, Refreshed(k, v, m, {ManagedKey}))
<1> DEFINE r == Refreshed(k, v, m, {ManagedKey})
<1> SUFFICES ASSUME NEW a \in AttrsOf(k), ~NotConfigured(k, c, a)
             PROVE  r[a] = c[a]
  BY DEF AsConfigured
<1> DEFINE x == c[a]
<1>1. m[a] = x
  OBVIOUS
<1>2. a # "name" => x # Unknown /\ Sound(k, a, x)
  BY DEF ConfigSound, SoundAll
<1>3. x = Null => a \notin SchemaOf(k).computed
  BY DEF NotConfigured
<1>4. a \notin {"name", "force"} => Fits(k, a, x, v[a]) /\ Proper(a, v[a])
  BY DEF ObjectAttrs, AttrsOf, ProperAll
<1>5. k = "job_template" => ~EmptyOf(a, x)
  OBVIOUS
<1> HIDE DEF x, r
<1>6. CASE a = "name"
  BY ReadParts, <1>1, <1>6 DEF r, x
<1>7. CASE a = "comment"
  <2>1. v.comment \in Texts
    BY <1>4, <1>7 DEF Proper
  <2>2. /\ k \in {"tag", "topic"} => CommentFromServer(v.comment, x) = x
        /\ k \in PlainMaps => StringFromResponse(v.comment, x) = x
        /\ k = "job_template" => OptionalStringToTF(v.comment) = x
        /\ k \in {"catalog", "fileset", "policy"} => v.comment = x \/ x = Null
    <3>1. Sound(k, "comment", x) /\ Fits(k, "comment", x, v.comment) /\ x # Unknown
      BY <1>2, <1>4, <1>7
    <3>2. k = "job_template" => ~EmptyOf("comment", x)
      BY <1>5, <1>7
    <3> QED
      BY <2>1, <3>1, <3>2, CommentShown
  <2>3. k \in {"catalog", "fileset", "policy"} => x # Null
    BY <1>3, <1>7, ComputedAttributes
  <2>4. /\ k \in {"catalog", "fileset", "policy"} => r.comment = v.comment
        /\ k \in {"tag", "topic"} => r.comment = CommentFromServer(v.comment, x)
        /\ k \in PlainMaps => r.comment = StringFromResponse(v.comment, x)
        /\ k = "job_template" => r.comment = OptionalStringToTF(v.comment)
    BY <1>1, <1>7, ReadParts DEF r
  <2> QED
    BY <1>7, <2>2, <2>3, MergedSchemas, <2>4 DEF x, PartitionKinds, MergedKinds, PlainMaps
<1>8. CASE a = "props"
  <2> DEFINE w == v.props
  <2>1. Record(w) /\ Fits(k, "props", x, w) /\ x # Unknown /\ Sound(k, "props", x) /\ m.props = x
    BY <1>1, <1>2, <1>4, <1>8 DEF Proper
  <2>2. /\ k = "catalog" => r.props = MergeCatalogProperties(w, x, {ManagedKey})
        /\ k \in {"tag", "topic"} => r.props = PropertiesToState(w, x)
        /\ k = "policy" => r.props = ReconcileStringMap(w, x)
        /\ k \in PartitionKinds => r.props = MergePartitionProperties(w, x)
        /\ k \in PlainMaps => r.props = MapFromResponse(w, x)
        /\ k = "fileset" => r.props = FilesetProperties(w, x)
        /\ k = "job_template" => r.props = MapToTF(w)
        /\ k = "role" => r.props = w
    BY <2>1, ReadParts DEF r
  <2> HIDE DEF w
  <2>3. CASE k \in ProjectedKinds
    BY <1>3, <1>8, <2>3, ComputedAttributes, <2>1, MapMerges, <2>2 DEF ProjectedKinds, NotSet, x
  <2>4. CASE k \in PlainMaps
    BY <2>1, <2>4, <1>8, <2>2 DEF Fits, ExactKinds, MapFromResponse, AsMap, NotSet, x
  <2>5. CASE k = "job_template"
    BY <2>1, <2>5, <1>5, <1>8, <2>2 DEF Fits, ExactKinds, EmptyOf, MapToTF, AsMap, NotSet, x
  <2>6. CASE k = "role"
    BY <2>1, <2>6, <1>8, <2>2 DEF Fits, x
  <2>7. k \in ProjectedKinds \cup PlainMaps \cup {"job_template", "role"}
    BY <1>8, MergedSchemas DEF MergedKinds, ProjectedKinds, PlainMaps, PartitionKinds
  <2> QED
    BY <2>3, <2>4, <2>5, <2>6, <2>7
<1>9. CASE a = "members"
  <2>1. r.members = v.members
    BY <1>9, MergedSchemas, ReadParts DEF r, MergedKinds, PartitionKinds
  <2> QED
    BY <1>9, <2>1, <1>2, <1>4 DEF x, Fits
<1>10. CASE a = "content"
  <2>1. r.content = v.content
    BY <1>10, MergedSchemas, ReadParts DEF r, MergedKinds, PartitionKinds
  <2> QED
    BY <1>10, <2>1, <1>2, <1>4 DEF x, Fits
<1>11. CASE a = "flag"
  BY <1>11, MergedSchemas, <1>1, ReadParts DEF MergedKinds, PartitionKinds, ConfigSound, x, r
<1>12. CASE a = "force"
  BY <1>12, MergedSchemas, <1>1, ReadParts DEF MergedKinds, PartitionKinds, ConfigSound, x, r
<1>13. CASE a = "secret"
  BY <1>13, MergedSchemas, ReadParts, <1>1 DEF MergedKinds, PartitionKinds, r, x
<1>14. a \in {"name", "comment", "props", "members", "content", "flag", "force", "secret"}
  BY MergedSchemas DEF MergedKinds, PartitionKinds
<1> QED
  BY <1>6, <1>7, <1>8, <1>9, <1>10, <1>11, <1>12, <1>13, <1>14

\* So it is of what has been applied, and of what is attached to an object.
LEMMA QuietRead ==
  ASSUME NotSetIsNoValue, TypeInv, RunInv, AttachedInv, CleanInv, clean, config # Null,
         kind \notin {"function", "table", "identity"}, ~ShownAsNull(config)
  PROVE  ReadState # Null /\ AsConfigured(kind, config, ReadState)
<1> DEFINE n == state.name
           v == View(server, n)
<1>1. kind \in AllKinds \ {"function", "table"} /\ NullIsNoRecord
  BY KindKnown, NullIsNone DEF TypeInv, DataInv
<1>2. /\ state # Null /\ n \in DOMAIN server /\ StateShows(kind, config, state)
      /\ ObjectShows(kind, config, server[n])
  BY <1>1 DEF CleanInv, Exists
<1>3. /\ DOMAIN state = AttrsOf(kind) /\ DOMAIN config = AttrsOf(kind)
      /\ "name" \in AttrsOf(kind) /\ config["name"] # Null
  BY <1>1, <1>2, NameAssumption, NamesAreAttributes
     DEF TypeInv, DataInv, StateOK, ConfigInv, Attrs, AttrsOf
<1>4. ReadState # Null /\ ReadState.name = n
  BY <1>1, <1>2, ReadStates DEF TypeInv, Exists
<1>5. ReadState = Refreshed(kind, v, state, {ManagedKey})
  BY <1>2 DEF ReadState, Exists
<1>6. v # Null /\ v.name = n
  BY <1>1, Views
<1>7. \A a \in AttrsOf(kind) : NotConfigured(kind, config, a) \/ state[a] = config[a]
  BY <1>2, <1>3 DEF StateShows, ShownAsNull
<1>8. CASE kind \in MergedKinds
  <2>1. ConfigSound(kind, config) /\ ObjectOK(kind, server[n])
    BY <1>2, <1>8 DEF RunInv, ValueInv, ConfigValues, ServerValues
  <2>2. ProperAll(kind, v)
    BY <1>8, <2>1, ViewParts
  <2>3. \A a \in ObjectAttrs(kind) : v[a] = server[n][a]
    BY <2>1 DEF ObjectAttrs, ObjectOK, View, Overlay
  <2>4. \A a \in ObjectAttrs(kind) :
          NotConfigured(kind, config, a) \/ Fits(kind, a, config[a], v[a])
    BY <1>2, <2>3 DEF ObjectShows
  <2>5. kind = "policy" => v["flag"] = config["flag"]
    BY MergedSchemas, <1>2, <2>3 DEF ObjectAttrs, AttrsOf, ObjectShows
  <2>6. kind = "job_template" => \A a \in AttrsOf(kind) : ~EmptyOf(a, config[a])
    BY <1>3 DEF ShownAsNull
  <2> HIDE DEF v, n
  <2>7. v.name = state["name"]
    BY <1>6 DEF n
  <2>8. AsConfigured(kind, config, Refreshed(kind, v, state, {ManagedKey}))
    BY <1>3, <1>6, <1>7, <1>8, <2>1, <2>2, <2>4, <2>5, <2>6, <2>7, ReadAsConfigured
  <2> QED
    BY <1>4, <1>5, <2>8
<1>9. CASE kind \in Attached
  <2> DEFINE o == server[n]
             s == ReadState
  <2>1. Matches(kind, s, o)
    BY <1>1, <1>4, ReadMatches
  <2>2. ObjectShows(kind, config, o)
    BY <1>2
  <2>3. s["name"] = config["name"]
    BY <1>3, <1>4, <1>7 DEF NotConfigured
  <2> HIDE DEF o, s
  <2>4. CASE kind = "owner"
    BY <2>1, <2>2, <2>4, <1>4, <2>3, AttachedSchemas DEF Matches, ObjectShows, AsConfigured, s
  <2>5. CASE kind \in StatisticsKinds
    BY <2>1, <2>2, <2>5, <1>4, <2>3, AttachedSchemas DEF Matches, ObjectShows, AsConfigured, s
  <2> QED
    BY <1>9, <2>4, <2>5 DEF Attached
<1> QED
  BY <1>1, <1>8, <1>9, KindsWithoutLists

\* An apply that succeeded leaves nothing to do, for whatever names, keys, members and bounds
\* and whatever others and lost answers have done before it: as long as neither the
\* configuration nor the object is touched, the next refresh finds the object and the next plan
\* is what it has read; of every kind but tables and functions, whose lists are converted one by
\* one, and the partitions the catalog names, whose plan never knows the name.
THEOREM QuietAfterApplies ==
  ASSUME NotSetIsNoValue, Kinds \cap {"table", "function", "identity"} = {}
  PROVE  Spec => []QuietAfterApply
<1>1. TypeInv /\ RunInv /\ AttachedInv /\ CleanInv => QuietAfterApply
  BY KindKnown, NullIsNone, ReadStates, QuietRead, ReadMatches, NameAssumption, QuietPlan
     DEF QuietAfterApply, TypeInv, DataInv, KindInv, CleanInv, NeverQuiet, ConfigInv
<1>2. /\ Spec => []TypeInv
      /\ Spec => []RunInv
      /\ Spec => []AttachedInv
      /\ Spec => []CleanInv
  BY NullIsNone, AlwaysTypeInv, AlwaysRunInv, AlwaysAttachedInv, AlwaysCleanInv
<1> QED
  BY <1>1, <1>2, PTL

-----------------------------------------------------------------------------
(* What a handler can be refused for.                                        *)

\* The elements of two lists, one after the other.
LEMMA JoinedLists ==
  ASSUME NEW l, Listing(l), NEW m, Listing(m)
  PROVE  /\ Listing(l \o m)
         /\ \A i \in DOMAIN (l \o m) : \/ i \in DOMAIN l /\ (l \o m)[i] = l[i]
                                       \/ i - Len(l) \in DOMAIN m /\ (l \o m)[i] = m[i - Len(l)]
<1>1. PICK S : l \in Seq(S)
  BY DEF Listing
<1>2. PICK T : m \in Seq(T)
  BY DEF Listing
<1>3. l \in Seq(S \cup T) /\ m \in Seq(S \cup T)
  BY <1>1, <1>2
<1>4. \A i \in DOMAIN (l \o m) : \/ i \in DOMAIN l /\ (l \o m)[i] = l[i]
                                 \/ i - Len(l) \in DOMAIN m /\ (l \o m)[i] = m[i - Len(l)]
  BY <1>3
<1> QED
  BY <1>3, <1>4 DEF Listing

\* What a request gives to its object, which object that is when it renames it, and that a
\* server knows what is asked.
Modest(q, W, n) == /\ q.changes.add \subseteq W /\ q.verb # "unsupported"
                   /\ NoRename(q) \/ q.target = n
ModestAll(l, W, n) == Listing(l) /\ \A i \in DOMAIN l : Modest(l[i], W, n)

\* Lists of them, and lists of lists.
LEMMA ModestLists ==
  ASSUME NEW W, NEW n
  PROVE  /\ ModestAll(<<>>, W, n)
         /\ \A q : Modest(q, W, n) => ModestAll(<<q>>, W, n)
         /\ \A l, m : ModestAll(l, W, n) /\ ModestAll(m, W, n) => ModestAll(l \o m, W, n)
<1>1. ModestAll(<<>>, W, n)
  BY NothingUndoes DEF ModestAll
<1>2. ASSUME NEW q, Modest(q, W, n)
      PROVE  ModestAll(<<q>>, W, n)
  <2>1. \A i \in DOMAIN <<q>> : <<q>>[i] = q
    OBVIOUS
  <2> QED
    BY <1>2, ShortLists, <2>1 DEF ModestAll
<1>3. ASSUME NEW l, NEW m, ModestAll(l, W, n), ModestAll(m, W, n)
      PROVE  ModestAll(l \o m, W, n)
  BY <1>3, JoinedLists DEF ModestAll
<1> QED
  BY <1>1, <1>2, <1>3

\* What a request carries.
LEMMA Carrying ==
  ASSUME NEW v, NEW n, NEW c, NEW u
  PROVE  /\ AsksOrElse(v, n, c, u).verb = v /\ AsksOrElse(v, n, c, u).target = n
         /\ AsksOrElse(v, n, c, u).undo = u
         /\ AsksOrElse(v, n, c, u).changes.add = PartOf(c, "add")
         /\ NameKept(c) => NoRename(AsksOrElse(v, n, c, u))
  BY PartsOfRequest, PartsOfNothing, Asked DEF NameKept, NoRename

\* What gives nothing to its object.
LEMMA GivesNothing ==
  /\ \A x : PartOf([plain |-> x], "add") = {} /\ PartOf([set |-> x], "add") = {}
            /\ PartOf([drop |-> x], "add") = {} /\ PartOf([remove |-> x], "add") = {}
            /\ PartOf([add |-> x], "add") = x
            /\ PartOf(Overlay([plain |-> x], Nothing), "add") = {}
  /\ PartOf(Nothing, "add") = {}
  /\ \A p, s, attrs : PartOf(Changes(p, s, attrs), "add") = {}
<1>1. \A p, s, attrs : PartOf(Changes(p, s, attrs), "add") = {}
  <2> TAKE p, s, attrs
  <2> DEFINE u == PropertyUpdates(p, s)
             w == Overlay(u, Nothing)
  <2>1. DOMAIN u = {"set", "drop"}
    BY DEF PropertyUpdates
  <2>2. Changes(p, s, attrs) = Overlay([plain |-> PlainUpdates(p, s, attrs)], w)
    BY DEF Changes
  <2> HIDE DEF u
  <2>3. "add" \in DOMAIN w /\ w["add"] = {}
    BY <2>1 DEF Overlay, Nothing
  <2> HIDE DEF w
  <2> QED
    BY <2>2, <2>3 DEF Overlay, PartOf
<1>2. \A x : PartOf(Overlay([plain |-> x], Nothing), "add") = {}
  BY DEF Overlay, PartOf, Nothing
<1> QED
  BY <1>1, <1>2 DEF PartOf, Nothing

\* Requests that give nothing, to the object in state or without a change of its name.
LEMMA GivingNothing ==
  ASSUME NEW W, NEW s
  PROVE  /\ \A c, u : PartOf(c, "add") = {} => Modest(AsksOrElse("put", s.name, c, u), W, s.name)
         /\ \A c : PartOf(c, "add") = {} =>
              ModestAll(Send(s, c), W, s.name) /\ ModestAll(SendOrGet(s, c), W, s.name)
         /\ \A m, f : ModestAll(Enable(m, f), W, s.name)
         /\ \A m : Modest(Get(m), W, s.name)
         /\ \A m, v, c : v # "unsupported" /\ PartOf(c, "add") = {} /\ NameKept(c) =>
                           Modest(Asks(v, m, c), W, s.name)
<1>1. ASSUME NEW c, NEW u, PartOf(c, "add") = {}
      PROVE  Modest(AsksOrElse("put", s.name, c, u), W, s.name)
  BY <1>1, Carrying DEF Modest
<1>2. ASSUME NEW m, NEW v, NEW c, v # "unsupported", PartOf(c, "add") = {}, NameKept(c)
      PROVE  Modest(Asks(v, m, c), W, s.name)
  BY <1>2, Carrying DEF Modest, Asks
<1>3. \A m : Modest(Get(m), W, s.name)
  BY <1>2, GivesNothing, NothingPlain DEF Get
<1>4. ASSUME NEW c, PartOf(c, "add") = {}
      PROVE  ModestAll(Send(s, c), W, s.name) /\ ModestAll(SendOrGet(s, c), W, s.name)
  <2> DEFINE q == Asks("put", s.name, c)
  <2> HIDE DEF q
  <2> QED
    BY <1>3, <1>1, <1>4, ModestLists DEF Send, SendOrGet, Asks
<1>5. ASSUME NEW m, NEW f
      PROVE  ModestAll(Enable(m, f), W, s.name)
  <2> DEFINE c == [plain |-> [flag |-> f]]
  <2> HIDE DEF c
  <2> QED
    BY <1>2, GivesNothing, ModestLists DEF Enable, NameKept, PlainOf
<1> QED
  BY <1>1, <1>2, <1>3, <1>4, <1>5

\* The kinds whose plans are followed to the end here: those that plan what is configured.
SettledKinds == AllKinds \ {"table", "function", "identity"}

\* What an update gives: who is planned and is not there yet.
Gained(k, p, s) == IF k \in TwoStepCreates THEN AsSet(p.members) \ AsSet(s.members) ELSE {}

\* An update gives no more than that, and renames nothing but what is in state.
LEMMA UpdatesModest ==
  ASSUME NEW k \in SettledKinds \ {"partition"}, NEW p, NEW s
  PROVE  ModestAll(Updates(k, p, s), Gained(k, p, s), s.name)
<1> DEFINE W == Gained(k, p, s)
           l == Updates(k, p, s)
<1>1. /\ \A c, u : PartOf(c, "add") = {} => Modest(AsksOrElse("put", s.name, c, u), W, s.name)
      /\ \A c : PartOf(c, "add") = {} =>
           ModestAll(Send(s, c), W, s.name) /\ ModestAll(SendOrGet(s, c), W, s.name)
      /\ \A m, f : ModestAll(Enable(m, f), W, s.name)
      /\ \A m : Modest(Get(m), W, s.name)
      /\ \A m, v, c : v # "unsupported" /\ PartOf(c, "add") = {} /\ NameKept(c) =>
                        Modest(Asks(v, m, c), W, s.name)
  BY GivingNothing
<1>2. /\ ModestAll(<<>>, W, s.name)
      /\ \A q : Modest(q, W, s.name) => ModestAll(<<q>>, W, s.name)
      /\ \A a, b : ModestAll(a, W, s.name) /\ ModestAll(b, W, s.name) => ModestAll(a \o b, W, s.name)
  BY ModestLists
<1>3. CASE k \in {"schema", "topic", "model", "fileset", "tag", "view", "derived_view", "job_template", "idp_user"}
  BY <1>3, GivesNothing, <1>1 DEF Updates, SchemaUpdate, TopicUpdate, ModelUpdate, FilesetUpdate,
                                  TagUpdate, ViewUpdate, JobTemplateUpdate, IdpUserUpdate
<1>4. CASE k = "catalog"
  <2> DEFINE c == Changes(p, s, {"name", "comment"})
             briefly == Temporarily(p, s, c)
             undo == IF briefly THEN Enable(s.name, FALSE) ELSE <<>>
             first == IF (p.flag # s.flag /\ p.flag) \/ briefly THEN Enable(s.name, TRUE) ELSE <<>>
             second == IF c = Nothing THEN <<>> ELSE <<AsksOrElse("put", s.name, c, undo)>>
             third == IF (p.flag # s.flag /\ ~p.flag) \/ briefly THEN Enable(p.name, FALSE) ELSE <<>>
  <2>1. l = (first \o second) \o third
    BY <1>4 DEF Updates, CatalogUpdate
  <2>2. PartOf(c, "add") = {}
    BY GivesNothing
  <2> HIDE DEF l, c, briefly, W
  <2>3. ModestAll(first, W, s.name) /\ ModestAll(third, W, s.name)
    BY <1>1, <1>2
  <2> HIDE DEF first, third, undo
  <2>4. ModestAll(second, W, s.name)
    BY <1>1, <1>2, <2>2
  <2> HIDE DEF second
  <2> QED
    BY <1>2, <2>1, <2>3, <2>4 DEF l, W
<1>5. CASE k = "policy"
  <2> DEFINE c == Overlay([plain |-> PlainUpdates(p, s, PolicyAttrs(p, s))], Nothing)
             d == [plain |-> [flag |-> p.flag]]
  <2>1. l = Send(s, c) \o PolicyPatch(p, s)
    BY <1>5 DEF Updates, PolicyUpdate
  <2>2. PartOf(c, "add") = {} /\ PartOf(d, "add") = {} /\ NameKept(d)
    BY GivesNothing DEF NameKept, PlainOf
  <2>3. PolicyPatch(p, s) \in {<<>>, <<Asks("patch", p.name, d)>>}
    BY DEF PolicyPatch
  <2> HIDE DEF l, c, d, W
  <2>4. ModestAll(Send(s, c), W, s.name) /\ ModestAll(PolicyPatch(p, s), W, s.name)
    BY <1>1, <1>2, <2>2, <2>3
  <2> QED
    BY <1>2, <2>1, <2>4 DEF l, W
<1>6. CASE k \in {"user", "group"}
  <2> DEFINE grant == AsSet(p.members) \ AsSet(s.members)
             revoke == AsSet(s.members) \ AsSet(p.members)
             first == IF grant = {} THEN <<>> ELSE <<Asks("put", s.name, [add |-> grant])>>
             second == IF revoke = {} THEN <<>> ELSE <<Asks("put", s.name, [remove |-> revoke])>>
  <2>1. l = first \o second /\ W = grant
    BY <1>6 DEF Updates, UserUpdate, GroupUpdate, RolesUpdate, Gained, TwoStepCreates
  <2> HIDE DEF l, W, grant, revoke
  <2>2. ModestAll(first, W, s.name) /\ ModestAll(second, W, s.name)
    BY <1>2, <2>1, Carrying, GivesNothing, <1>1 DEF Modest, Asks
  <2> HIDE DEF first, second
  <2> QED
    BY <1>2, <2>1, <2>2 DEF l, W
<1>7. CASE k = "role"
  <2> DEFINE c == Overlay([plain |-> PlainUpdates(p, s, {"members"})], Nothing)
  <2>1. l = Send(s, c) \o <<Get(p.name)>>
    BY <1>7 DEF Updates, RoleUpdate
  <2>2. PartOf(c, "add") = {}
    BY GivesNothing
  <2> HIDE DEF l, c, W
  <2>3. ModestAll(Send(s, c), W, s.name) /\ ModestAll(<<Get(p.name)>>, W, s.name)
    BY <1>1, <1>2, <2>2
  <2> QED
    BY <1>2, <2>1, <2>3 DEF l, W
<1>8. CASE k = "idp_group"
  <2> DEFINE had == AsSet(s.members)
             wanted == IF p.members = Unknown THEN had ELSE AsSet(p.members)
             c == Overlay([add |-> wanted \ had, remove |-> had \ wanted], Nothing)
             q == Asks("put", s.name, c)
  <2>1. l = Send(s, c)
    BY <1>8 DEF Updates, IdpGroupUpdate
  <2>2. PartOf(c, "add") = wanted \ had
    BY DEF PartOf, Overlay, Nothing
  <2>3. wanted \ had \subseteq W
    BY <1>8 DEF Gained, TwoStepCreates
  <2> HIDE DEF l, c, W, wanted, had
  <2>4. Modest(q, W, s.name)
    BY <2>2, <2>3, Carrying DEF Modest, Asks
  <2>5. Send(s, c) \in {<<>>, <<q>>}
    BY DEF Send
  <2> HIDE DEF q
  <2> QED
    BY <1>2, <2>1, <2>4, <2>5 DEF l, W
<1>9. CASE k \in Attached
  <2>1. PICK v, c : l = <<Asks(v, p.name, c)>> /\ v # "unsupported" /\ PartOf(c, "add") = {} /\ NameKept(c)
    <3>1. CASE k = "owner"
      <4> DEFINE c == [plain |-> [content |-> p.content]]
      <4> QED
        BY <3>1, GivesNothing DEF Updates, OwnerUpdate, NameKept, PlainOf
    <3>2. CASE k # "owner"
      <4>1. l = <<Asks("list", p.name, Nothing)>>
        BY <1>9, <3>2 DEF Updates, StatisticsUpdate, PartitionStatisticsUpdate, List, Attached, StatisticsKinds
      <4> QED
        BY <4>1, GivesNothing, NothingPlain
    <3> QED
      BY <3>1, <3>2
  <2> QED
    BY <1>1, <1>2, <2>1
<1> QED
  BY <1>3, <1>4, <1>5, <1>6, <1>7, <1>8, <1>9 DEF SettledKinds, AllKinds, Attached, StatisticsKinds

\* What a create asks for, and a delete.
Makings(k, q, W) == /\ q.changes.add \subseteq W /\ q.verb # "unsupported" /\ NoRename(q)
                    /\ k = "catalog" => q.verb # "put"
Leavings(k, q, n) == /\ NoRename(q) /\ q.changes.add = {} /\ q.target = n
                     /\ q.verb \in {"put", "patch", "delete", "force"}
                     /\ k = "catalog" => q.verb # "put"

\* A request that keeps the name.
LEMMA KeepingName ==
  ASSUME NEW k, NEW W, NEW v, v # "unsupported", k = "catalog" => v # "put",
         NEW n, NEW c, PartOf(c, "add") \subseteq W, NameKept(c)
  PROVE  Makings(k, Asks(v, n, c), W)
  BY Carrying DEF Makings, Asks

\* A create gives no more than is planned, and renames nothing.
LEMMA CreatesModest ==
  ASSUME NEW k \in SettledKinds, NEW p
  PROVE  LET W == IF k \in TwoStepCreates THEN AsSet(p.members) ELSE {}
         IN \A i \in DOMAIN Creates(k, p) : Makings(k, Creates(k, p)[i], W)
<1> DEFINE W == IF k \in TwoStepCreates THEN AsSet(p.members) ELSE {}
           l == Creates(k, p)
<1>1. \E a, b : l \in {<<a>>, <<a, b>>} /\ Makings(k, a, W) /\ Makings(k, b, W)
  <2>1. CASE k \in {"schema", "topic", "model", "fileset", "tag", "policy", "view", "derived_view", "partition", "role",
                    "job_template"}
    <3>1. PICK attrs : l \in {<<Post(p, attrs)>>, <<Post(p, attrs), Get(p.name)>>}
      BY <2>1 DEF Creates, SchemaCreate, TopicCreate, ModelCreate, FilesetCreate, TagCreate,
           PolicyCreate, ViewCreate, PartitionCreate, RoleCreate, JobTemplateCreate
    <3> DEFINE c == [plain |-> [a \in attrs \ {"name"} |-> OnServer(a, p[a])]]
    <3>2. Get(p.name) = Asks("get", p.name, Nothing) /\ PartOf(Nothing, "add") = {} /\ NameKept(Nothing)
      BY GivesNothing, NothingPlain DEF Get
    <3> HIDE DEF c, l, W
    <3>3. Makings(k, Post(p, attrs), W) /\ Makings(k, Get(p.name), W)
      BY GivesNothing, <3>2, KeepingName DEF Post, NameKept, PlainOf
    <3> QED
      BY <3>1, <3>3
  <2>2. CASE k = "catalog"
    <3> DEFINE c == [plain |-> [comment |-> OnServer("comment", p.comment),
                                props |-> AsMap(p.props), flag |-> TRUE]]
               d == [plain |-> [flag |-> FALSE]]
               a == Asks("post", p.name, c)
               b == Asks("patch", p.name, d)
               second == IF p.flag THEN <<>> ELSE <<b>>
    <3>1. l = <<a>> \o second
      BY <2>2 DEF Creates, CatalogCreate, Enable
    <3>2. PartOf(c, "add") = {} /\ NameKept(c) /\ PartOf(d, "add") = {} /\ NameKept(d)
      BY GivesNothing DEF NameKept, PlainOf
    <3> HIDE DEF c, d, l, W
    <3>3. Makings(k, a, W) /\ Makings(k, b, W)
      BY <3>2, KeepingName
    <3>4. second \in {<<>>, <<b>>}
      OBVIOUS
    <3> HIDE DEF a, b, second
    <3>5. l \in {<<a>>, <<a, b>>}
      BY <3>1, <3>4, Appended
    <3> QED
      BY <3>3, <3>5
  <2>3. CASE k \in {"user", "group", "idp_group"}
    <3> DEFINE c == [plain |-> [members |-> {}]]
               d == [add |-> p.members]
               a == Asks("post", p.name, c)
               b == Asks("put", p.name, d)
               second == Join(p)
    <3>1. l = <<a>> \o second
      BY <2>3 DEF Creates, UserCreate, GroupCreate, IdpGroupCreate, Bare
    <3>2. PartOf(c, "add") = {} /\ NameKept(c) /\ PartOf(d, "add") = p.members /\ NameKept(d)
      BY GivesNothing DEF NameKept, PlainOf, NoMap
    <3>3. W = AsSet(p.members)
      BY <2>3 DEF TwoStepCreates
    <3> HIDE DEF c, d, l, W
    <3>4. Makings(k, a, W)
      BY <2>3, <3>2, KeepingName
    <3>5. CASE AsSet(p.members) = {}
      BY <3>5, <3>1, <3>4, Appended DEF Join
    <3>6. CASE AsSet(p.members) # {}
      <4>1. second = <<b>>
        BY <3>6 DEF Join, d
      <4>2. Makings(k, b, W)
        BY <2>3, <3>2, <3>3, <3>6, KeepingName DEF AsSet
      <4> HIDE DEF a, b, second
      <4> QED
        BY <3>4, <4>2, <3>1, <4>1, Appended
    <3> QED
      BY <3>5, <3>6
  <2>4. CASE k \in {"idp_user", "owner", "statistics", "partition_statistics"}
    <3>1. PICK v, c : l = <<Asks(v, p.name, c)>> /\ v # "unsupported" /\ PartOf(c, "add") = {} /\ NameKept(c)
      <4>1. CASE k = "idp_user"
        <5> DEFINE c == [plain |-> [members |-> {}, secret |-> p.secret]]
        <5> QED
          BY <4>1, GivesNothing DEF Creates, IdpUserCreate, NameKept, PlainOf
      <4>2. CASE k = "owner"
        <5> DEFINE c == [plain |-> [content |-> p.content]]
        <5> QED
          BY <4>2, GivesNothing DEF Creates, OwnerCreate, NameKept, PlainOf
      <4>3. CASE k \in {"statistics", "partition_statistics"}
        BY <4>3, GivesNothing, NothingPlain DEF Creates, StatisticsCreate,
                                                PartitionStatisticsCreate, List
      <4> QED
        BY <2>4, <4>1, <4>2, <4>3
    <3> QED
      BY <3>1, <2>4, KeepingName
  <2> QED
    BY <2>1, <2>2, <2>3, <2>4 DEF SettledKinds, AllKinds
<1> HIDE DEF W, l
<1>2. \A i \in DOMAIN l : Makings(k, l[i], W)
  BY <1>1
<1> QED
  BY <1>2 DEF W, l

\* A request that leaves its object alone, or takes it away.
LEMMA LeavingName ==
  ASSUME NEW k, NEW v \in {"put", "patch", "delete", "force"}, k = "catalog" => v # "put",
         NEW n, NEW c, PartOf(c, "add") = {}, NameKept(c), NEW u
  PROVE  Leavings(k, AsksOrElse(v, n, c, u), n)
  BY Carrying DEF Leavings

\* A delete gives nothing, and renames nothing.
LEMMA DeletesModest ==
  ASSUME NEW k \in SettledKinds, NEW s
  PROVE  \A i \in DOMAIN Deletes(k, s) : Leavings(k, Deletes(k, s)[i], s.name)
<1> DEFINE l == Deletes(k, s)
<1>1. PartOf(Nothing, "add") = {} /\ NameKept(Nothing)
  BY GivesNothing, NothingPlain
<1>2. CASE k = "catalog"
  <2> DEFINE c == [plain |-> [flag |-> FALSE]]
             u == IF s.flag THEN Enable(s.name, TRUE) ELSE <<>>
             a == AsksOrElse("patch", s.name, c, <<>>)
             b == AsksOrElse("delete", s.name, Nothing, u)
             f == AsksOrElse("force", s.name, Nothing, <<>>)
  <2>1. l \in {<<f>>, <<a>> \o <<b>>}
    BY <1>2 DEF Deletes, CatalogDelete, Enable, Asks
  <2>2. PartOf(c, "add") = {} /\ NameKept(c)
    BY GivesNothing DEF NameKept, PlainOf
  <2> HIDE DEF c, u, l
  <2>3. Leavings(k, a, s.name) /\ Leavings(k, b, s.name) /\ Leavings(k, f, s.name)
    BY <1>1, <2>2, LeavingName
  <2> HIDE DEF a, b, f
  <2>4. l \in {<<f>>, <<a, b>>}
    BY <2>1, Appended
  <2> QED
    BY <2>3, <2>4 DEF l
<1>3. CASE k \notin Attached /\ k # "catalog"
  <2> DEFINE b == AsksOrElse("delete", s.name, Nothing, <<>>)
  <2>1. l = <<b>>
    BY <1>3 DEF Deletes, SettledKinds, AllKinds, Attached, StatisticsKinds, SchemaDelete, FilesetDelete,
         TopicDelete, ModelDelete, TagDelete, PolicyDelete, ViewDelete, JobTemplateDelete,
         PartitionDelete, UserDelete, GroupDelete, RoleDelete, IdpUserDelete, IdpGroupDelete, Drop, Asks
  <2>2. Leavings(k, b, s.name)
    BY <1>1, <1>3, LeavingName
  <2> HIDE DEF b, l
  <2> QED
    BY <2>1, <2>2 DEF l
<1>4. CASE k = "owner"
  BY <1>4 DEF Deletes, OwnerDelete
<1>5. CASE k \in StatisticsKinds
  <2> DEFINE c == [drop |-> DOMAIN s.props]
             b == AsksOrElse("put", s.name, c, <<>>)
  <2>1. l \in {<<>>, <<b>>}
    BY <1>5 DEF Deletes, StatisticsKinds, StatisticsDelete, PartitionStatisticsDelete, DropNames, Asks
  <2>2. PartOf(c, "add") = {} /\ NameKept(c)
    BY GivesNothing DEF NameKept, PlainOf, NoMap
  <2> HIDE DEF c
  <2>3. Leavings(k, b, s.name)
    BY <1>5, <2>2, LeavingName DEF StatisticsKinds
  <2> HIDE DEF b, l
  <2> QED
    BY <2>1, <2>3 DEF l
<1> QED
  BY <1>2, <1>3, <1>4, <1>5 DEF Attached

\* What follows a list of statistics gives nothing and renames nothing.
LEMMA WritesModest ==
  ASSUME NEW k, k # "catalog", NEW v, NEW p, NEW reserved
  PROVE  \A i \in DOMAIN Listed(k, v, p, reserved) : Makings(k, Listed(k, v, p, reserved)[i], {})
<1>1. PICK x, y : Listed(k, v, p, reserved) = Write(p.name, x) \o DropNames(p.name, y)
  BY DEF Listed, StatisticsWrites, PartitionStatisticsWrites
<1> DEFINE c == [set |-> x]
           d == [drop |-> y]
           a == Asks("put", p.name, c)
           b == Asks("put", p.name, d)
<1>2. Write(p.name, x) \in {<<>>, <<a>>} /\ DropNames(p.name, y) \in {<<>>, <<b>>}
  BY DEF Write, DropNames
<1>3. PartOf(c, "add") = {} /\ NameKept(c) /\ PartOf(d, "add") = {} /\ NameKept(d)
  BY GivesNothing DEF NameKept, PlainOf, NoMap
<1> HIDE DEF c, d
<1>4. Makings(k, a, {}) /\ Makings(k, b, {})
  BY <1>3, KeepingName
<1> HIDE DEF a, b
<1>5. \A l \in {<<>>, <<a>>, <<b>>, <<a, b>>} : \A i \in DOMAIN l : Makings(k, l[i], {})
  BY <1>4
<1> QED
  BY <1>1, <1>2, Appended, <1>5

\* Who is configured.  A create and an update ask for no one else, nothing is renamed but by
\* an update of what is in state, and a delete keeps to it.
Wanted == IF config # Null /\ "members" \in Attrs THEN AsSet(config.members) ELSE {}
PathInv ==
  kind \in SettledKinds =>
    /\ pc = "create" => \A i \in DOMAIN todo : Makings(kind, todo[i], Wanted)
    /\ pc = "update" => ModestAll(todo, Wanted, state.name)
    /\ pc = "delete" => \A i \in DOMAIN todo : Leavings(kind, todo[i], state.name)

\* More may always be asked for.
LEMMA MoreWanted ==
  ASSUME NEW W, NEW V, W \subseteq V, NEW k, NEW l, NEW n
  PROVE  /\ \A q : Makings(k, q, W) => Makings(k, q, V)
         /\ ModestAll(l, W, n) => ModestAll(l, V, n)
  BY DEF Makings, ModestAll, Modest

\* A plan gives nobody that is not configured.
LEMMA PlansWanted ==
  ASSUME kind \in SettledKinds, config # Null, NEW s
  PROVE  /\ kind \in TwoStepCreates => AsSet(PlanCreate(kind, config).members) \subseteq Wanted
         /\ Gained(kind, PlanUpdate(kind, config, s), s) \subseteq Wanted
<1>1. CASE kind \notin TwoStepCreates
  BY <1>1 DEF Gained
<1>2. CASE kind \in TwoStepCreates
  <2> DEFINE p == PlanCreate(kind, config)
             u == PlanUpdate(kind, config, s)
  <2>1. kind \in MergedKinds /\ "members" \in AttrsOf(kind) \ {"name"}
    BY <1>2 DEF TwoStepCreates, MergedKinds, AttrsOf, SchemaOf, UserSchema, GroupSchema, IdpGroupSchema
  <2>2. /\ p["members"] \in {Unknown, config["members"]}
        /\ u["members"] \in {Unknown, config["members"], s["members"]}
    BY <2>1, PlainPlans
  <2> HIDE DEF p, u
  <2>3. Wanted = AsSet(config.members)
    BY <2>1 DEF Wanted, Attrs, AttrsOf
  <2>4. AsSet(Unknown) = {}
    BY DEF AsSet, NotSet
  <2> QED
    BY <1>2, <2>2, <2>3, <2>4 DEF Gained, p, u
<1> QED
  BY <1>1, <1>2

\* A Create that begins asks for what is configured.
LEMMA CreateStartedPath ==
  ASSUME kind \in SettledKinds, config # Null, UNCHANGED <<kind, config>>,
         StartCreate(PlanCreate(kind, config))
  PROVE  PathInv'
<1> DEFINE p == PlanCreate(kind, config)
           W == IF kind \in TwoStepCreates THEN AsSet(p.members) ELSE {}
<1>1. pc' = "idle" \/ (pc' = "create" /\ todo' = Creates(kind, p))
  BY DEF StartCreate, Start, Stop
<1>2. \A i \in DOMAIN Creates(kind, p) : Makings(kind, Creates(kind, p)[i], W)
  BY CreatesModest
<1>3. W \subseteq Wanted /\ Wanted' = Wanted
  BY PlansWanted DEF Wanted, Attrs
<1> HIDE DEF p, W
<1>4. \A i \in DOMAIN Creates(kind, p) : Makings(kind, Creates(kind, p)[i], Wanted')
  BY <1>2, <1>3, MoreWanted
<1> QED
  BY <1>1, <1>4 DEF PathInv

\* Nothing of a partition can be updated.
LEMMA PartitionsReplaced ==
  ASSUME kind = "partition", ConfigInv, config # Null, NEW s, Record(s), DOMAIN s = AttrsOf(kind),
         ~Replaces(kind, config, PlanUpdate(kind, config, s), s)
  PROVE  PlanUpdate(kind, config, s) = s /\ SameAsState(kind, config, s)
<1> DEFINE p == PlanUpdate(kind, config, s)
<1>1. AttrsOf(kind) = {"name", "props"} /\ kind \in AllKinds \ {"function", "table", "identity"}
  BY DEF AttrsOf, SchemaOf, PartitionSchema, AllKinds
<1>2. config.name # Null
  BY <1>1, NameAssumption DEF ConfigInv
<1>3. AsConfigured(kind, config, p)
  BY <1>1, PlansAsConfigured
<1> HIDE DEF p
<1>4. p = s
  BY <1>1, <1>2, Plans DEF Record, Replaces, SchemaOf, PartitionSchema, p, AttrsOf
<1> QED
  BY <1>1, <1>2, <1>3, <1>4, QuietPlan

\* The refresh and the plan keep to it.
LEMMA ReadAndPlanPath ==
  ASSUME NotSetIsNoValue, TypeInv, RunInv, AttachedInv, kind \in SettledKinds, ReadAndPlan
  PROVE  PathInv'
<1>1. UNCHANGED <<kind, config>> /\ state' = ReadState /\ Decide(ReadState)
  BY DEF ReadAndPlan
<1> DEFINE s == ReadState
<1>2. s # Null => Record(s) /\ DOMAIN s = AttrsOf(kind)
  BY ReadMatches DEF SettledKinds
<1> HIDE DEF s
<1>3. /\ \/ Stop
         \/ s = Null /\ config # Null /\ StartCreate(PlanCreate(kind, config))
         \/ s # Null /\ \E again \in BOOLEAN : Start("delete", s, Deletes(kind, s), again)
         \/ /\ s # Null /\ config # Null
            /\ \E p : /\ p = PlanUpdate(kind, config, s) /\ ~Replaces(kind, config, p, s)
                      /\ Start("update", p, Updates(kind, p, s), FALSE)
      /\ s # Null /\ config # Null /\ pc' = "update" =>
           ~(PlanUpdate(kind, config, s) = s /\ SameAsState(kind, config, s))
  BY <1>1, Decisions, UpdatesDiffer DEF s
<1>4. CASE Stop
  BY <1>4 DEF Stop, PathInv
<1>5. CASE s = Null /\ config # Null /\ StartCreate(PlanCreate(kind, config))
  BY <1>1, <1>5, CreateStartedPath
<1>6. CASE s # Null /\ \E again \in BOOLEAN : Start("delete", s, Deletes(kind, s), again)
  BY <1>1, <1>6, DeletesModest DEF Start, s, PathInv
<1>7. CASE /\ s # Null /\ config # Null
           /\ \E p : /\ p = PlanUpdate(kind, config, s) /\ ~Replaces(kind, config, p, s)
                     /\ Start("update", p, Updates(kind, p, s), FALSE)
  <2> DEFINE p == PlanUpdate(kind, config, s)
  <2>1. /\ ~Replaces(kind, config, p, s) /\ pc' = "update" /\ todo' = Updates(kind, p, s)
        /\ state' = s
    BY <1>1, <1>7 DEF Start, s
  <2>2. Gained(kind, p, s) \subseteq Wanted /\ Wanted' = Wanted
    BY <1>1, <1>7, PlansWanted DEF Wanted, Attrs
  <2>3. kind # "partition"
    BY <1>2, <1>3, <1>7, <2>1, PartitionsReplaced DEF TypeInv, DataInv
  <2> HIDE DEF p
  <2> QED
    BY <2>1, <2>2, <2>3, UpdatesModest, MoreWanted DEF PathInv
<1> QED
  BY <1>3, <1>4, <1>5, <1>6, <1>7

\* So does a request.
LEMMA CallPath ==
  ASSUME TypeInv, RunInv, PathInv, kind \in SettledKinds, Call
  PROVE  PathInv'
<1> DEFINE q == Head(todo)
<1>1. /\ pc # "idle" /\ todo # <<>> /\ UNCHANGED <<kind, config>> /\ Wanted' = Wanted
      /\ Listing(todo) /\ planned.name \in Names \cup {Unknown}
  BY DEF Call, TypeInv, HandlerInv, TodoInv, ListOK, PlannedInv, Wanted, Attrs
<1>2. \/ /\ UNCHANGED <<state, pc>>
         /\ todo' = IF q.verb # "list" THEN Tail(todo)
                    ELSE Listed(kind, server[q.target].props, planned, {ManagedKey})
      \/ pc' \in {"idle", "undo"}
      \/ pc' = pc /\ pc = "delete" /\ todo' = <<>>
  BY DEF Call, Refused, FailAfter, Fail, Stop, CountsAsGone
<1> HIDE DEF q
<1>3. CASE pc' \in {"idle", "undo"}
  BY <1>3 DEF PathInv
<1>4. CASE pc' = pc /\ pc = "delete" /\ todo' = <<>>
  BY <1>4 DEF PathInv
<1>5. CASE /\ UNCHANGED <<state, pc>> /\ q.verb # "list" /\ todo' = Tail(todo)
  BY <1>1, <1>5, RestOfList DEF PathInv, ModestAll
<1>6. CASE /\ UNCHANGED <<state, pc>> /\ q.verb = "list"
           /\ todo' = Listed(kind, server[q.target].props, planned, {ManagedKey})
  <2>1. q = todo[1] /\ 1 \in DOMAIN todo
    BY <1>1, RestOfList DEF q
  <2>2. kind # "catalog"
    BY <1>6, <2>1 DEF RunInv, ValueInv, HandlerValues, RequestValues, ListProper, Undoable,
                      RequestProper, MergedKinds
  <2>3. Listing(todo') /\ \A i \in DOMAIN todo' : Makings(kind, todo'[i], {})
    BY <1>1, <1>6, <2>2, WritesModest, ListedRequests DEF ListOK
  <2>4. \A i \in DOMAIN todo' : Makings(kind', todo'[i], Wanted')
    BY <1>1, <2>3, MoreWanted
  <2> QED
    BY <1>6, <2>1, <2>4, <2>3 DEF PathInv, Leavings, ModestAll, Modest, Makings
<1> QED
  BY <1>2, <1>3, <1>4, <1>5, <1>6

\* So does every step.
LEMMA NextPathInv ==
  ASSUME NotSetIsNoValue, TypeInv, RunInv, AttachedInv, PathInv, [Next]_vars
  PROVE  PathInv'
<1>1. kind' = kind
  BY DEF Next, ReadAndPlan, Call, Finish, ImportState, Edit, Others, vars
<1> SUFFICES ASSUME kind \in SettledKinds
             PROVE  PathInv'
  BY <1>1 DEF PathInv
<1>2. CASE ReadAndPlan
  BY <1>2, ReadAndPlanPath
<1>3. CASE Call
  BY <1>3, CallPath
<1>4. CASE Finish
  BY <1>4, <1>1, CreateStartedPath DEF Finish, TypeInv, HandlerInv, PcInv, Fail, Stop, PathInv
<1>5. CASE ImportState \/ Edit
  BY <1>5 DEF ImportState, Edit, handler, PathInv
<1>6. CASE Others \/ UNCHANGED vars
  BY <1>6 DEF Others, vars, handler, PathInv, Wanted, Attrs
<1> QED
  BY <1>2, <1>3, <1>4, <1>5, <1>6 DEF Next

\* They always keep to it.
LEMMA AlwaysPathInv == ASSUME NotSetIsNoValue PROVE Spec => []PathInv
<1>1. Init => PathInv
  BY DEF Init, PathInv
<1>2. TypeInv /\ RunInv /\ AttachedInv /\ PathInv /\ [Next]_vars => PathInv'
  BY NextPathInv
<1>3. /\ Spec => []TypeInv
      /\ Spec => []RunInv
      /\ Spec => []AttachedInv
  BY NullIsNone, AlwaysTypeInv, AlwaysRunInv, AlwaysAttachedInv
<1> QED
  BY <1>1, <1>2, <1>3, PTL DEF Spec


-----------------------------------------------------------------------------
(* A catalog, which is altered while it is in use and dropped while it is not. *)

\* Whether a catalog is to be in use is configured, planned and in state.
FlagInv ==
  kind = "catalog" => /\ config # Null => config.flag \in BOOLEAN
                      /\ state # Null => state.flag \in BOOLEAN /\ state.props # Unknown

\* What is merged into the properties of a catalog is never left unknown.
LEMMA MergedAreKnown ==
  ASSUME NotSetIsNoValue, NEW v, NEW m, NEW managed
  PROVE  MergeCatalogProperties(v, m, managed) # Unknown
<1>1. Record(Only(v, DOMAIN v \ managed)) /\ Record(ProjectProperties(v, m)) /\ ~Record(Unknown)
  BY RecordsMade DEF NotSetIsNoValue, NotSet
<1> QED
  BY <1>1, ValueAssumption DEF MergeCatalogProperties, MapToTF

\* A refresh of a catalog keeps its flag, and an import takes it to be in use.
LEMMA CatalogFlags ==
  ASSUME NotSetIsNoValue, NEW v, v # Null, NEW m, {"props", "flag"} \subseteq DOMAIN m, NEW managed
  PROVE  LET r == Refreshed("catalog", v, m, managed)
         IN /\ m.flag = Null => r.flag = TRUE
            /\ m.flag # Null => r.flag = m.flag
            /\ r.props # Unknown
<1> DEFINE r == CatalogState(v, m, managed)
<1> QED
  BY MergedAreKnown DEF Refreshed, CatalogRead, IfThere, CatalogState

\* What has just been read is what the next refresh reads.
LEMMA CatalogRefreshIsIdempotent ==
  ASSUME NotSetIsNoValue, NEW v, v # Null, NEW m, m.props # Unknown, NEW managed
  PROVE  LET r == Refreshed("catalog", v, m, managed)
         IN Refreshed("catalog", v, r, managed) = r
<1> DEFINE r == CatalogState(v, m, managed)
           t == CatalogState(v, r, managed)
<1>1. /\ Refreshed("catalog", v, m, managed) = r
      /\ Refreshed("catalog", v, r, managed) = t
  BY DEF Refreshed, CatalogRead, IfThere
<1>2. /\ DOMAIN r = DOMAIN m /\ DOMAIN t = DOMAIN m
      /\ r = [a \in DOMAIN m |-> r[a]] /\ t = [a \in DOMAIN m |-> t[a]]
  BY DEF CatalogState
<1>3. \A a \in DOMAIN m \ {"name", "comment", "props", "flag", "force"} : t[a] = r[a]
  BY DEF CatalogState
<1>4. \A a \in DOMAIN m \cap {"name", "comment"} : t[a] = r[a]
  BY DEF CatalogState
<1>5. \A a \in DOMAIN m \cap {"flag", "force"} : t[a] = r[a]
  BY DEF CatalogState, NotSetIsNoValue, NotSet
<1>6. ASSUME "props" \in DOMAIN m
      PROVE  t["props"] = r["props"]
  <2> DEFINE w == MergeCatalogProperties(v.props, m.props, managed)
  <2>1. r["props"] = w /\ t["props"] = MergeCatalogProperties(v.props, w, managed)
    BY <1>6 DEF CatalogState
  <2>2. w # Unknown
    BY MergedAreKnown
  <2>3. CASE m.props = Null
    BY <2>3, ValueAssumption, <2>1, <2>2 DEF MergeCatalogProperties, MapToTF, ProjectProperties,
                                             Only
  <2>4. CASE m.props # Null
    <3>1. Record(ProjectProperties(v.props, m.props)) /\ ~Record(Null)
      BY RecordsMade, NullIsNone DEF NullIsNoRecord
    <3> QED
      BY <2>1, <2>2, <3>1, <2>4, ProjectKeepsKeys DEF MergeCatalogProperties
  <2> QED
    BY <2>3, <2>4
<1> HIDE DEF r, t
<1>7. \A a \in DOMAIN m : t[a] = r[a]
  BY <1>3, <1>4, <1>5, <1>6
<1>8. t = r
  BY <1>2, <1>7
<1> QED
  BY <1>1, <1>8

\* What a handler of a catalog writes has the flag that is configured.
LEMMA WrittenFlags ==
  ASSUME NotSetIsNoValue, TypeInv, PlanInv, FlagInv, kind = "catalog", pc \in {"create", "update"}
  PROVE  Written.flag \in BOOLEAN /\ Written.props # Unknown
<1>1. /\ config # Null /\ AsConfigured(kind, config, planned) /\ DOMAIN planned = AttrsOf(kind)
      /\ config.flag \in BOOLEAN
  BY DEF PlanInv, FlagInv, TypeInv, HandlerInv, PlannedInv, Attrs, AttrsOf
<1>2. {"flag", "props"} \subseteq AttrsOf(kind) /\ ~NotConfigured(kind, config, "flag")
  BY DEF AttrsOf, SchemaOf, CatalogSchema, NotConfigured
<1>3. planned.flag \in BOOLEAN /\ planned.flag # Null
  BY <1>1, <1>2 DEF NotSetIsNoValue, NotSet, AsConfigured
<1>4. CASE answer = Null
  BY <1>4, <1>1, <1>2, <1>3, ValueAssumption DEF Written, Kept, CatalogKept
<1>5. CASE answer # Null
  <2>1. Written.flag = planned.flag /\ Written.props # Unknown
    <3>1. Written = Refreshed("catalog", answer, planned, {ManagedKey})
      BY <1>5 DEF Written, Applied
    <3>2. {"props", "flag"} \subseteq DOMAIN planned /\ planned.flag # Null
      BY <1>1, <1>2, <1>3
    <3> QED
      BY <1>5, <3>1, <3>2, CatalogFlags
  <2> QED
    BY <1>3, <2>1
<1> QED
  BY <1>4, <1>5

\* Every step keeps the flags what they are.
LEMMA NextFlagInv ==
  ASSUME NotSetIsNoValue, TypeInv, PlanInv, FlagInv, [Next]_vars
  PROVE  FlagInv'
<1>1. kind' = kind
  BY DEF Next, ReadAndPlan, Call, Finish, ImportState, Edit, Others, vars
<1> SUFFICES ASSUME kind = "catalog"
             PROVE  FlagInv'
  BY <1>1 DEF FlagInv
<1>2. {"flag", "props"} \subseteq Attrs /\ NullIsNoRecord
  BY NullIsNone DEF Attrs, SchemaOf, CatalogSchema
<1>3. CASE ReadAndPlan
  <2>1. state' = ReadState /\ UNCHANGED config
    BY <1>3 DEF ReadAndPlan
  <2>2. CASE state = Null \/ ~Exists(state.name)
    BY <2>2, GoneFromState, <1>1, <2>1 DEF ReadState, AllKinds, FlagInv
  <2>3. CASE state # Null /\ Exists(state.name)
    <3> DEFINE v == View(server, state.name)
    <3>1. ReadState = Refreshed("catalog", v, state, {ManagedKey})
      BY <2>3 DEF ReadState
    <3>2. v # Null
      BY <1>2, Views
    <3>3. DOMAIN state = Attrs /\ state.flag \in BOOLEAN /\ state.flag # Null
      BY <2>3 DEF TypeInv, DataInv, StateOK, FlagInv, NotSetIsNoValue, NotSet
    <3> HIDE DEF v
    <3>4. ReadState.flag \in BOOLEAN /\ ReadState.props # Unknown
      BY <1>2, <3>1, <3>2, <3>3, CatalogFlags
    <3> QED
      BY <1>1, <2>1, <3>4 DEF FlagInv
  <2> QED
    BY <2>2, <2>3
<1>4. CASE Call
  BY <1>4, <1>1 DEF Call, Refused, FailAfter, Fail, FlagInv
<1>5. CASE Finish
  BY <1>5, <1>1, WrittenFlags DEF Finish, Fail, Written, TypeInv, HandlerInv, PcInv, FlagInv
<1>6. CASE ImportState
  <2>1. PICK n \in DOMAIN server : state' = Refreshed("catalog", View(server, n), Imported(n), {ManagedKey})
    BY <1>6 DEF ImportState
  <2> DEFINE v == View(server, n)
             m == Imported(n)
  <2> HIDE DEF v, m
  <2>2. state'.flag \in BOOLEAN /\ state'.props # Unknown
    BY <2>1, <1>2, Views, CatalogFlags DEF v, m, Imported
  <2> QED
    BY <1>1, <2>2, <1>6 DEF FlagInv, ImportState
<1>7. CASE Edit
  BY <1>7, <1>2, <1>1 DEF Edit, FirstConfig, FirstValue, TypeInv, DataInv, ConfigInv, FlagInv,
                          ConfigurableAs
<1>8. CASE Others \/ UNCHANGED vars
  BY <1>1, <1>8 DEF Others, vars, FlagInv
<1> QED
  BY <1>3, <1>4, <1>5, <1>6, <1>7, <1>8 DEF Next

\* They are always.
LEMMA AlwaysFlagInv == ASSUME NotSetIsNoValue PROVE Spec => []FlagInv
<1>1. ASSUME Init
      PROVE  FlagInv
  BY <1>1 DEF Attrs, SchemaOf, CatalogSchema, FirstConfig, FirstValue, Init, FlagInv
<1>2. TypeInv /\ PlanInv /\ FlagInv /\ [Next]_vars => FlagInv'
  BY NextFlagInv
<1>3. (Spec => []TypeInv) /\ (Spec => []PlanInv)
  BY NullIsNone, AlwaysTypeInv, AlwaysPlanInv
<1> QED
  BY <1>1, <1>2, <1>3, PTL DEF Spec

\* The request that enables or disables a catalog.
Switch(n, f) == Asks("patch", n, [plain |-> [flag |-> f]])

\* Where the elements of a short list are.
LEMMA ShortDomains ==
  ASSUME NEW a, NEW b, NEW c
  PROVE  /\ DOMAIN <<>> = {} /\ DOMAIN <<a>> = {1} /\ DOMAIN <<a, b>> = {1, 2}
         /\ DOMAIN <<a, b, c>> = {1, 2, 3}
         /\ <<a>>[1] = a /\ <<a, b>>[1] = a /\ <<a, b>>[2] = b
         /\ <<a, b, c>>[1] = a /\ <<a, b, c>>[2] = b /\ <<a, b, c>>[3] = c
  OBVIOUS

\* What the PUT of a catalog carries, when such a request may be sent, and that it is the
\* first one.
Altered(p, s) == Changes(p, s, {"name", "comment"})
PutsPrepared(l, s, c) ==
  \A i \in DOMAIN l : l[i].verb = "put" =>
    /\ l[i].target = s.name
    /\ \/ i = 2 /\ l[1] = Switch(s.name, TRUE)
       \/ i = 1 /\ s.flag = TRUE /\ c # Nothing /\ l[i].undo = <<>>
PutsFirst(l, s) == l # <<>> /\ l[1].verb = "put" /\ l[1].target = s.name /\ l[1].undo = <<>>

\* Whether a catalog is in use is known.
Flagged(o) == o.flag \in BOOLEAN

\* The PUT of an update comes behind the PATCH that enables the catalog; without one it is
\* not undone, and the catalog is taken to be in use.
LEMMA CatalogPuts ==
  ASSUME NEW p, NEW s, Flagged(p), Flagged(s)
  PROVE  /\ PutsPrepared(Updates("catalog", p, s), s, Altered(p, s))
         /\ s.flag = TRUE /\ Altered(p, s) # Nothing => PutsFirst(Updates("catalog", p, s), s)
<1> DEFINE c == Changes(p, s, {"name", "comment"})
           briefly == Temporarily(p, s, c)
           enabled == (p.flag # s.flag /\ p.flag) \/ briefly
           undo == IF briefly THEN Enable(s.name, FALSE) ELSE <<>>
           e == Asks("patch", s.name, [plain |-> [flag |-> TRUE]])
           q == AsksOrElse("put", s.name, c, undo)
           d == Asks("patch", p.name, [plain |-> [flag |-> FALSE]])
           first == IF enabled THEN <<e>> ELSE <<>>
           second == IF c = Nothing THEN <<>> ELSE <<q>>
           third == IF (p.flag # s.flag /\ ~p.flag) \/ briefly THEN <<d>> ELSE <<>>
           l == Updates("catalog", p, s)
<1>1. l = (first \o second) \o third
  BY DEF Updates, CatalogUpdate, Enable
<1>2. e = Switch(s.name, TRUE)
  BY DEF Switch
<1>3. e.verb = "patch" /\ d.verb = "patch"
  BY Asked DEF Asks
<1> HIDE DEF e, d, c, undo
<1>a. q.verb = "put" /\ q.target = s.name /\ q.undo = undo
  BY Asked
<1> USE DEF e, d, c, undo
<1>4. ~enabled /\ c # Nothing => s.flag = TRUE /\ undo = <<>>
  BY DEF Temporarily, Flagged
<1>5. enabled /\ c # Nothing => s.flag # TRUE
  BY DEF Temporarily, Flagged
<1> HIDE DEF e, q, d, l, c, undo, briefly, enabled
<1> DEFINE G == /\ \A i \in DOMAIN l : l[i].verb = "put" =>
                     /\ l[i].target = s.name
                     /\ \/ i = 2 /\ l[1] = e
                        \/ i = 1 /\ s.flag = TRUE /\ c # Nothing /\ l[i].undo = <<>>
                /\ s.flag = TRUE /\ c # Nothing =>
                     l # <<>> /\ l[1].verb = "put" /\ l[1].target = s.name /\ l[1].undo = <<>>
<1>b. SUFFICES G
  BY <1>2 DEF l, c, Altered, PutsPrepared, PutsFirst
<1>6. third \in {<<>>, <<d>>}
  OBVIOUS
<1> HIDE DEF third
<1>7. first \o second = IF enabled THEN IF c = Nothing THEN <<e>> ELSE <<e, q>>
                        ELSE IF c = Nothing THEN <<>> ELSE <<q>>
  BY Appended
<1> HIDE DEF first, second
<1>8. /\ <<>> \o <<d>> = <<d>> /\ <<e>> \o <<d>> = <<e, d>> /\ <<q>> \o <<d>> = <<q, d>>
      /\ <<e, q>> \o <<d>> = <<e, q, d>> /\ <<>> \o <<>> = <<>> /\ <<e>> \o <<>> = <<e>>
      /\ <<q>> \o <<>> = <<q>> /\ <<e, q>> \o <<>> = <<e, q>>
  BY Appended
<1>9. CASE enabled /\ c # Nothing
  <2>1. l \in {<<e, q>>, <<e, q, d>>}
    BY <1>1, <1>6, <1>7, <1>8, <1>9
  <2>2. \A i \in DOMAIN l : l[i].verb = "put" => l[i].target = s.name /\ i = 2 /\ l[1] = e
    BY <1>3, <1>a, ShortDomains, <2>1
  <2> QED
    BY <1>5, <1>9, <2>2
<1>10. CASE enabled /\ c = Nothing
  BY <1>1, <1>6, <1>7, <1>8, <1>10, <1>3, ShortDomains
<1>11. CASE ~enabled /\ c # Nothing
  <2>1. l \in {<<q>>, <<q, d>>}
    BY <1>1, <1>6, <1>7, <1>8, <1>11
  <2> QED
    BY <1>3, <1>a, <1>4, <1>11, <2>1, ShortDomains
<1>12. CASE ~enabled /\ c = Nothing
  BY <1>1, <1>6, <1>7, <1>8, <1>12, <1>3, ShortDomains
<1> QED
  BY <1>9, <1>10, <1>11, <1>12

\* The DELETE of a catalog comes behind the PATCH that disables it.
LEMMA CatalogDeletes ==
  ASSUME NEW s
  PROVE  LET l == Deletes("catalog", s)
         IN \A i \in DOMAIN l : l[i].verb = "delete" => i = 2 /\ l[1] = Switch(s.name, FALSE)
<1> DEFINE l == Deletes("catalog", s)
           u == IF s.flag THEN Enable(s.name, TRUE) ELSE <<>>
           a == Asks("patch", s.name, [plain |-> [flag |-> FALSE]])
           b == AsksOrElse("delete", s.name, Nothing, u)
           f == Asks("force", s.name, Nothing)
<1>1. l \in {<<f>>, <<a>> \o <<b>>}
  BY DEF Deletes, CatalogDelete, Enable
<1>2. a.verb = "patch" /\ f.verb = "force"
  BY Asked DEF Enable, Asks
<1>a. a = Switch(s.name, FALSE)
  BY DEF Switch
<1> HIDE DEF a, b, f, l
<1>3. l \in {<<f>>, <<a, b>>}
  BY <1>1, Appended
<1>4. \A i \in DOMAIN l : l[i].verb = "delete" => i = 2 /\ l[1] = a
  BY <1>2, ShortDomains, <1>3
<1> QED
  BY <1>a, <1>4 DEF l

\* The PATCH that enables or disables a catalog does so.
LEMMA CatalogEnabled ==
  ASSUME kind = "catalog", TypeInv, ServerValues, NEW n \in Names, NEW f, NEW q, q = Switch(n, f),
         Possible(q), server' = After(q)
  PROVE  n \in DOMAIN server' /\ server'[n].flag = f
<1> DEFINE c == [plain |-> [flag |-> f]]
<1>1. q = Asks("patch", n, c)
  BY DEF Switch
<1>2. /\ q.verb = "patch" /\ q.target = n /\ NoRename(q) /\ RequestOK(q)
  BY <1>1, Following DEF Stays
<1>3. /\ DOMAIN Nothing \subseteq DOMAIN q.changes
      /\ q.changes["plain"] = [flag |-> f]
  BY <1>1, PartsOfRequest, PartsOfNothing DEF Asks, PartOf
<1>4. /\ n \in DOMAIN server' /\ server'[n] = Result(kind, q, server[n]) /\ n \in DOMAIN server
  BY <1>2, NamesOfRequests, AnsweredObject DEF TypeInv, DataInv, MergedKinds
<1> DEFINE o == server[n]
           d == Changed(o, Renamed(q.changes))
<1>5. DOMAIN o = ObjectAttrs(kind) /\ "flag" \in DOMAIN o /\ kind \in MergedKinds
  BY <1>4 DEF ServerValues, ObjectOK, ObjectAttrs, SchemaOf, CatalogSchema, MergedKinds
<1> HIDE DEF o
<1>6. ChangedAs(o, q.changes, d)
  BY <1>3, <1>5, ChangedParts
<1> HIDE DEF d
<1>7. Added(kind, d)["flag"] = f
  BY <1>5, <1>3, <1>6, AddedParts DEF ChangedAs, Old
<1> QED
  BY <1>4, <1>2, <1>7 DEF Result, o, d

\* A catalog that its state has in use, with something to change and nothing new to be read.
Waiting == /\ state.flag = TRUE /\ ReadState = state
           /\ Altered(PlanUpdate(kind, config, state), state) # Nothing

\* A PUT finds the catalog enabled, comes behind the request that does so, or waits for the
\* catalog to be in use, as its state has it; a DELETE finds it disabled, or comes behind the
\* request that does so.
PutReady(i) ==
  /\ todo[i].target = state.name
  /\ \/ i = 1 /\ Exists(state.name) /\ server[state.name].flag = TRUE
     \/ i = 2 /\ todo[1] = Switch(state.name, TRUE)
     \/ i = 1 /\ Waiting /\ todo[i].undo = <<>>
DeleteReady(i) ==
  \/ i = 2 /\ todo[1] = Switch(state.name, FALSE)
  \/ i = 1 /\ (Exists(state.name) => server[state.name].flag = FALSE)
CatalogInv ==
  kind = "catalog" /\ ~disturbed =>
    /\ pc = "update" => \A i \in DOMAIN todo : todo[i].verb = "put" => PutReady(i)
    /\ pc = "delete" => \A i \in DOMAIN todo : todo[i].verb = "delete" => DeleteReady(i)

\* What has just been read of a catalog is read again.
LEMMA CatalogReadAgain ==
  ASSUME NotSetIsNoValue, TypeInv, RunInv, FlagInv, kind = "catalog", ReadAndPlan, ReadState # Null
  PROVE  /\ state' # Null /\ ReadState' = state' /\ state'.flag \in BOOLEAN
         /\ Exists(state.name)' /\ state'.name = state.name
<1>1. UNCHANGED <<kind, server>> /\ state' = ReadState
  BY DEF ReadAndPlan
<1>2. NullIsNoRecord
  BY NullIsNone
<1>3. state # Null /\ ReadState.name = state.name
  BY <1>2, ReadStates DEF TypeInv
<1>4. Exists(state.name)
  BY <1>3, GoneFromState DEF ReadState, AllKinds
<1> DEFINE v == View(server, state.name)
           r == Refreshed("catalog", v, state, {ManagedKey})
<1>5. ReadState = r /\ v # Null
  BY <1>2, <1>3, <1>4, Views DEF ReadState
<1>6. /\ state.props # Unknown /\ state.flag \in BOOLEAN /\ state.flag # Null
      /\ {"flag", "props"} \subseteq DOMAIN state
  BY <1>3 DEF FlagInv, NotSetIsNoValue, NotSet, TypeInv, DataInv, StateOK, Attrs, SchemaOf, CatalogSchema
<1> HIDE DEF v
<1>7. Refreshed("catalog", v, r, {ManagedKey}) = r
  BY <1>5, <1>6, CatalogRefreshIsIdempotent
<1>8. r.flag = state.flag
  BY <1>5, <1>6, CatalogFlags
<1> HIDE DEF r
<1>9. state' = r /\ state'.name = state.name /\ r # Null
  BY <1>1, <1>3, <1>5
<1>10. Exists(state.name)' /\ View(server', state'.name) = v
  BY <1>1, <1>4, <1>9 DEF Exists, v
<1>11. ReadState' = Refreshed("catalog", v, r, {ManagedKey})
  BY <1>1, <1>9, <1>10 DEF ReadState
<1> QED
  BY <1>6, <1>7, <1>8, <1>9, <1>10, <1>11

\* What a catalog plans has its flag as it is configured.
LEMMA PlannedFlags ==
  ASSUME kind = "catalog", config # Null, NEW s
  PROVE  PlanUpdate(kind, config, s).flag = config.flag
  BY PlainPlans DEF AttrsOf, SchemaOf, CatalogSchema, NotConfigured, MergedKinds

\* It begins so.
LEMMA ReadAndPlanCatalog ==
  ASSUME NotSetIsNoValue, TypeInv, RunInv, FlagInv, kind = "catalog", ReadAndPlan
  PROVE  CatalogInv'
<1>1. UNCHANGED <<kind, config, server>> /\ state' = ReadState /\ Decide(ReadState)
  BY DEF ReadAndPlan
<1> DEFINE s == ReadState
<1> HIDE DEF s
<1>2. CASE Stop \/ StartCreate(PlanCreate(kind, config))
  BY <1>2 DEF Stop, StartCreate, Start, CatalogInv
<1>3. CASE s # Null /\ \E again \in BOOLEAN : Start("delete", s, Deletes(kind, s), again)
  BY <1>1, <1>3, CatalogDeletes DEF Start, s, CatalogInv, DeleteReady
<1>4. CASE /\ s # Null /\ config # Null
           /\ \E p : p = PlanUpdate(kind, config, s) /\ Start("update", p, Updates(kind, p, s), FALSE)
  <2> DEFINE p == PlanUpdate(kind, config, s)
             c == Altered(p, s)
  <2>1. pc' = "update" /\ todo' = Updates("catalog", p, s) /\ state' = s
    BY <1>1, <1>4 DEF Start, s
  <2>2. state' # Null /\ ReadState' = state' /\ s.flag \in BOOLEAN
    BY <1>4, <2>1, CatalogReadAgain DEF s
  <2>3. p.flag \in BOOLEAN
    BY <1>4, PlannedFlags DEF FlagInv
  <2>4. Altered(PlanUpdate(kind, config, state), state)' = c
    BY <1>1, <2>1
  <2> HIDE DEF p, c
  <2>5. \A i \in DOMAIN todo' : todo'[i].verb = "put" =>
          /\ todo'[i].target = s.name
          /\ \/ i = 2 /\ todo'[1] = Switch(s.name, TRUE)
             \/ i = 1 /\ s.flag = TRUE /\ c # Nothing /\ todo'[i].undo = <<>>
    <3>1. Flagged(p) /\ Flagged(s)
      BY <2>2, <2>3 DEF Flagged
    <3>2. PutsPrepared(todo', s, c)
      BY <2>1, <3>1, CatalogPuts DEF c
    <3> QED
      BY <3>2 DEF PutsPrepared
  <2>6. \A i \in DOMAIN todo' : todo'[i].verb = "put" => PutReady(i)'
    BY <2>1, <2>5, <2>2, <2>4 DEF PutReady, Waiting
  <2> QED
    BY <2>1, <2>6 DEF CatalogInv
<1> QED
  BY <1>1, Decisions, <1>2, <1>3, <1>4 DEF s

\* It stays so while the requests are carried out.
LEMMA CallCatalog ==
  ASSUME TypeInv, RunInv, CatalogInv, kind = "catalog", Call
  PROVE  CatalogInv'
<1> DEFINE q == Head(todo)
<1>1. /\ pc # "idle" /\ todo # <<>> /\ UNCHANGED <<kind, config>> /\ Listing(todo)
  BY DEF Call, TypeInv, HandlerInv, TodoInv, ListOK
<1>2. \/ /\ Possible(q) /\ server' = After(q) /\ UNCHANGED <<state, pc, disturbed>>
         /\ todo' = IF q.verb # "list" THEN Tail(todo)
                    ELSE Listed(kind, server[q.target].props, planned, {ManagedKey})
      \/ pc' \in {"idle", "undo"}
      \/ todo' = <<>>
  BY DEF Call, Refused, FailAfter, Fail, Stop
<1>3. q = todo[1] /\ 1 \in DOMAIN todo
  BY <1>1, RestOfList
<1> HIDE DEF q
<1>4. CASE pc' \in {"idle", "undo"}
  BY <1>4 DEF CatalogInv
<1>5. CASE todo' = <<>>
  BY <1>5 DEF CatalogInv
<1>6. CASE /\ Possible(q) /\ server' = After(q) /\ UNCHANGED <<state, pc, disturbed>>
           /\ todo' = IF q.verb # "list" THEN Tail(todo)
                      ELSE Listed(kind, server[q.target].props, planned, {ManagedKey})
  <2>1. ServerValues /\ q.verb # "list"
    BY <1>3 DEF RunInv, ValueInv, HandlerValues, RequestValues, ListProper, Undoable, RequestProper,
                MergedKinds
  <2>2. \A i \in DOMAIN todo' : i + 1 \in DOMAIN todo /\ todo'[i] = todo[i + 1] /\ i \in Nat \ {0}
    BY <1>1, <1>6, <2>1, RestOfList DEF Listing
  <2>3. \A i \in DOMAIN todo' : i + 1 # 1 /\ (i + 1 = 2 => i = 1)
    BY <2>2
  <2>4. pc \in {"update", "delete"} => state.name \in Names
    BY DEF TypeInv, DataInv, StateOK, HandlerInv, PcInv
  <2>5. ASSUME ~disturbed, pc = "update", NEW i \in DOMAIN todo', todo'[i].verb = "put"
        PROVE  PutReady(i)'
    <3>1. PutReady(i + 1)
      BY <2>2, <2>5 DEF CatalogInv
    <3>2. todo'[i].target = state'.name /\ q = Switch(state.name, TRUE) /\ i = 1
      BY <1>3, <1>6, <2>2, <2>3, <2>5, <3>1 DEF PutReady
    <3>3. state.name \in DOMAIN server' /\ server'[state.name].flag = TRUE
      BY <1>6, <2>1, <2>4, <2>5, <3>2, CatalogEnabled
    <3> QED
      BY <1>6, <3>2, <3>3 DEF PutReady, Exists
  <2>6. ASSUME ~disturbed, pc = "delete", NEW i \in DOMAIN todo', todo'[i].verb = "delete"
        PROVE  DeleteReady(i)'
    <3>1. q = Switch(state.name, FALSE) /\ i = 1
      BY <1>3, <2>3, <2>6, <2>2 DEF DeleteReady, CatalogInv
    <3>2. server'[state.name].flag = FALSE
      BY <1>6, <2>1, <2>4, <2>6, <3>1, CatalogEnabled
    <3> QED
      BY <1>6, <3>1, <3>2 DEF DeleteReady, Exists
  <2> QED
    BY <1>6, <2>5, <2>6 DEF CatalogInv
<1> QED
  BY <1>2, <1>4, <1>5, <1>6

\* So does every step.
LEMMA NextCatalogInv ==
  ASSUME NotSetIsNoValue, TypeInv, RunInv, FlagInv, CatalogInv, [Next]_vars
  PROVE  CatalogInv'
<1>1. kind' = kind
  BY DEF Next, ReadAndPlan, Call, Finish, ImportState, Edit, Others, vars
<1> SUFFICES ASSUME kind = "catalog"
             PROVE  CatalogInv'
  BY <1>1 DEF CatalogInv
<1>2. CASE ReadAndPlan
  BY <1>2, ReadAndPlanCatalog
<1>3. CASE Call
  BY <1>3, CallCatalog
<1>4. CASE Finish \/ ImportState \/ Edit
  BY <1>4 DEF Finish, Fail, Stop, StartCreate, Start, ImportState, Edit, handler, CatalogInv
<1>5. CASE Others
  BY <1>5 DEF Others, handler, CatalogInv
<1>6. CASE UNCHANGED vars
  BY <1>6 DEF vars, handler, ReadState, Exists, Waiting, CatalogInv, PutReady, DeleteReady
<1> QED
  BY <1>2, <1>3, <1>4, <1>5, <1>6 DEF Next

\* It is always so.
LEMMA AlwaysCatalogInv == ASSUME NotSetIsNoValue PROVE Spec => []CatalogInv
<1>1. Init => CatalogInv
  BY DEF Init, CatalogInv
<1>2. TypeInv /\ RunInv /\ FlagInv /\ CatalogInv /\ [Next]_vars => CatalogInv'
  BY NextCatalogInv
<1>3. (Spec => []TypeInv) /\ (Spec => []RunInv) /\ (Spec => []FlagInv)
  BY NullIsNone, AlwaysTypeInv, AlwaysRunInv, AlwaysFlagInv
<1> QED
  BY <1>1, <1>2, <1>3, PTL DEF Spec

-----------------------------------------------------------------------------
(* Whoever applies again gets there, or is stopped by something that stays.    *)

\* What stays: somebody is configured who does not exist, another object has the name, there
\* is nothing to attach to, or others have disabled a catalog that its state has in use.
LacksMembers == config # Null /\ ~(Wanted \subseteq known)
NameTaken == /\ config # Null /\ kind \notin Attached /\ Exists(config.name)
             /\ state = Null \/ state.name # config.name
LacksObject == config # Null /\ kind \in Attached /\ ~Exists(config.name)
Disabled == /\ kind = "catalog" /\ config # Null /\ state # Null /\ Exists(state.name)
            /\ server[state.name].flag # TRUE /\ Waiting

\* A handler that runs into it, or has been stopped by it.
RunsIntoName ==
  /\ NameTaken
  /\ pc = "create" => todo # <<>> /\ Makes(todo[1], config.name)
  /\ pc = "update" => MoveOnce(todo, state.name, config.name)
RunsIntoFlag ==
  /\ Disabled /\ pc \in {"idle", "update"}
  /\ pc = "update" => PutsFirst(todo, state)
Blocked == LacksMembers \/ RunsIntoName \/ LacksObject \/ RunsIntoFlag

\* Since anything else has happened: an apply that has ended is clean or has been stopped, and
\* there is no second one unless the first was stopped or its plan is never empty.
Settling ==
  /\ pc = "idle" => clean \/ Blocked
  /\ pc = "undo" => Blocked
  /\ pc # "idle" => ~disturbed
  /\ applies > 1 => Blocked \/ (config # Null /\ NeverQuiet(config))
SettleInv == applies \in Nat /\ (kind \in SettledKinds /\ applies > 0 => Settling)

\* What such a kind plans is accepted.
LEMMA PlansAccepted ==
  ASSUME NEW k \in SettledKinds, NEW c, NEW s, NEW p, p \in {PlanCreate(k, c), PlanUpdate(k, c, s)}, NEW b
  PROVE  Accepted(k, p, c, b)
<1>1. "columns" \notin SchemaOf(k).attrs
  BY DEF SettledKinds, AllKinds, SchemaOf, CatalogSchema, SchemaSchema, TopicSchema, ModelSchema,
     FilesetSchema, TagSchema, PolicySchema, ViewSchema, DerivedViewSchema, JobTemplateSchema, PartitionSchema,
     UserSchema, GroupSchema, RoleSchema, OwnerSchema, IdpUserSchema, IdpGroupSchema,
     StatisticsSchema, PartitionStatisticsSchema
<1>2. \A a \in SchemaOf(k).attrs \ SchemaOf(k).computed : p[a] = c[a] /\ a # "columns"
  BY PlansAsConfigured, <1>1 DEF AsConfigured, AttrsOf, NotConfigured, SettledKinds
<1> QED
  BY <1>2 DEF Accepted, AcceptedValue

\* Terraform finds nothing to do, or starts a handler.
LEMMA SettledDecisions ==
  ASSUME kind \in SettledKinds, NEW s, Decide(s)
  PROVE  \/ Stop /\ clean' = TRUE
         \/ s = Null /\ config # Null /\ StartCreate(PlanCreate(kind, config))
         \/ /\ s # Null /\ (config = Null \/ Replaces(kind, config, PlanUpdate(kind, config, s), s))
            /\ \E again \in BOOLEAN : Start("delete", s, Deletes(kind, s), again)
         \/ /\ s # Null /\ config # Null
            /\ ~Replaces(kind, config, PlanUpdate(kind, config, s), s)
            /\ Start("update", PlanUpdate(kind, config, s),
                     Updates(kind, PlanUpdate(kind, config, s), s), FALSE)
<1> DEFINE p == PlanUpdate(kind, config, s)
           c == PlanCreate(kind, config)
<1> HIDE DEF p, c
<1>1. CASE s = Null /\ config = Null
  BY <1>1 DEF Decide
<1>2. CASE s = Null /\ config # Null
  BY <1>2 DEF Decide
<1>3. CASE s # Null /\ config = Null
  BY <1>3 DEF Decide
<1>4. CASE s # Null /\ config # Null
  BY PlansAccepted, <1>4 DEF Decide, p, c
<1> QED
  BY <1>1, <1>2, <1>3, <1>4 DEF c

\* What has been applied and is not touched gives nothing to do.
LEMMA CleanStops ==
  ASSUME NotSetIsNoValue, TypeInv, RunInv, AttachedInv, CleanInv, kind \in SettledKinds, ReadAndPlan,
         clean, ~(config # Null /\ NeverQuiet(config))
  PROVE  Stop
<1>1. Decide(ReadState)
  BY DEF ReadAndPlan
<1>2. kind \notin {"function", "table", "identity"} /\ kind \in AllKinds
  BY DEF SettledKinds
<1>3. CASE config = Null
  BY <1>2, <1>3, <1>1 DEF CleanInv, ReadState, Decide
<1>4. CASE config # Null
  <2> DEFINE s == ReadState
  <2>1. ReadState # Null /\ AsConfigured(kind, config, ReadState)
    BY <1>2, <1>4, QuietRead DEF NeverQuiet
  <2>2. config.name # Null
    BY <1>2, <1>4, NameAssumption DEF TypeInv, DataInv, ConfigInv
  <2> HIDE DEF s
  <2>3. PlanUpdate(kind, config, s) = s /\ SameAsState(kind, config, s)
    BY <1>2, <2>1, ReadMatches, <2>2, QuietPlan DEF s
  <2> QED
    BY <1>4, <2>3, <1>1, <2>1 DEF Decide, s
<1> QED
  BY <1>3, <1>4

\* A Create that begins under a name that is taken runs into it.
LEMMA CreateRunsInto ==
  ASSUME TypeInv, kind \in SettledKinds \ Attached, config # Null, UNCHANGED <<kind, config>>,
         StartCreate(PlanCreate(kind, config)), WorkInv'
  PROVE  pc' = "create" /\ todo' # <<>> /\ Makes(todo'[1], config.name)
<1> DEFINE p == PlanCreate(kind, config)
<1>1. p.name = config.name
  BY Plans, NameAssumption DEF SettledKinds, TypeInv, DataInv, ConfigInv
<1> HIDE DEF p
<1>2. pc' = "create" /\ planned' = p /\ answer' = Null /\ disturbed' = FALSE
  BY PlansAccepted DEF StartCreate, Start, p
<1>3. \A n : ~Working(n)'
  BY <1>2 DEF Working
<1> QED
  BY <1>1, <1>2, <1>3 DEF CreateDelivers, Making, WorkInv

\* So does an Update that is to give it.
LEMMA UpdateRunsInto ==
  ASSUME KindInv, ConfigInv, config # Null, kind \in SettledKinds \ Attached, NEW s, s # Null, StateOK(s),
         ~Replaces(kind, config, PlanUpdate(kind, config, s), s), config.name # s.name
  PROVE  MoveOnce(Updates(kind, PlanUpdate(kind, config, s), s), s.name, config.name)
<1> DEFINE p == PlanUpdate(kind, config, s)
<1>1. p.name = config.name
  BY Plans, NameAssumption DEF SettledKinds, ConfigInv
<1>2. /\ kind \in RenamedKinds \cup {"identity"} \/ p.name = s.name
      /\ UpdateOK(kind, Updates(kind, p, s), s, p)
  BY UpdatePlans
<1> HIDE DEF p
<1>3. kind \notin TwoStepCreates \cup Attached \cup {"identity"}
  BY <1>1, <1>2 DEF RenamedKinds, TwoStepCreates, Attached, StatisticsKinds, SettledKinds
<1> QED
  BY <1>1, <1>2, <1>3 DEF Renames, p, UpdateOK

\* A refresh and a plan do not help.
LEMMA ReadAndPlanBlocked ==
  ASSUME NotSetIsNoValue, TypeInv, RunInv, FlagInv, kind \in SettledKinds, ReadAndPlan, Blocked
  PROVE  Blocked'
<1>1. /\ pc = "idle" /\ UNCHANGED <<kind, config, server, known>> /\ state' = ReadState
      /\ Decide(ReadState)
  BY DEF ReadAndPlan
<1> DEFINE s == ReadState
<1>2. StateOK(s) /\ (s # Null => state # Null /\ s.name = state.name)
  BY NullIsNone, ReadStates DEF TypeInv
<1>a. state = Null => s = Null
  BY <1>2
<1> HIDE DEF s
<1>3. CASE LacksMembers \/ LacksObject
  BY <1>1, <1>3 DEF Wanted, Attrs, Exists, LacksMembers, LacksObject, Blocked
<1>4. \/ Stop /\ clean' = TRUE
      \/ s = Null /\ config # Null /\ StartCreate(PlanCreate(kind, config))
      \/ /\ s # Null /\ (config = Null \/ Replaces(kind, config, PlanUpdate(kind, config, s), s))
         /\ \E again \in BOOLEAN : Start("delete", s, Deletes(kind, s), again)
      \/ /\ s # Null /\ config # Null
         /\ ~Replaces(kind, config, PlanUpdate(kind, config, s), s)
         /\ Start("update", PlanUpdate(kind, config, s),
                  Updates(kind, PlanUpdate(kind, config, s), s), FALSE)
  BY <1>1, SettledDecisions DEF s
<1>5. CASE RunsIntoName
  <2>1. /\ config # Null /\ kind \notin Attached /\ Exists(config.name)
        /\ state = Null \/ state.name # config.name
    BY <1>5 DEF RunsIntoName, NameTaken
  <2>2. NameTaken'
    BY <1>1, <1>2, <2>1 DEF NameTaken, Exists, s
  <2>3. kind \in SettledKinds \ Attached /\ kind \in MergedKinds
    BY <2>1, KindsWithoutLists DEF SettledKinds
  <2>4. CASE Stop
    BY <2>2, <2>4 DEF Stop, RunsIntoName, Blocked
  <2>5. CASE StartCreate(PlanCreate(kind, config))
    BY <2>3, ReadAndPlanValues, <1>1, <2>1, <2>5, CreateRunsInto, <2>2 DEF RunInv, RunsIntoName,
                                                                           Blocked
  <2>6. CASE \E again \in BOOLEAN : Start("delete", s, Deletes(kind, s), again)
    BY <2>2, <2>6 DEF Start, RunsIntoName, Blocked
  <2>7. CASE /\ s # Null /\ config # Null
             /\ ~Replaces(kind, config, PlanUpdate(kind, config, s), s)
             /\ Start("update", PlanUpdate(kind, config, s),
                      Updates(kind, PlanUpdate(kind, config, s), s), FALSE)
    BY <1>2, <2>1, <2>7, <2>3, UpdateRunsInto, <1>1, <2>2 DEF TypeInv, DataInv, Start, s,
                                                              RunsIntoName, Blocked
  <2> QED
    BY <1>4, <2>4, <2>5, <2>6, <2>7
<1>6. CASE RunsIntoFlag
  <2>1. /\ kind = "catalog" /\ config # Null /\ state # Null /\ Exists(state.name)
        /\ server[state.name].flag # TRUE /\ Waiting
    BY <1>6 DEF RunsIntoFlag, Disabled
  <2>2. s = state /\ UNCHANGED state
    BY <1>1, <2>1 DEF Waiting, s
  <2>3. Disabled'
    BY <1>1, <2>1, <2>2 DEF Disabled, Waiting, ReadState, Exists
  <2>4. CASE Stop
    BY <2>3, <2>4 DEF Stop, RunsIntoFlag, Blocked
  <2>5. CASE Start("update", PlanUpdate(kind, config, s),
                   Updates(kind, PlanUpdate(kind, config, s), s), FALSE)
    <3> DEFINE p == PlanUpdate(kind, config, s)
    <3>1. Flagged(p)
      BY <2>1, PlannedFlags DEF Flagged, FlagInv
    <3>2. Flagged(s) /\ s.flag = TRUE /\ Altered(p, s) # Nothing
      BY <2>1, <2>2 DEF Flagged, FlagInv, Waiting
    <3> HIDE DEF p
    <3>3. PutsFirst(Updates("catalog", p, s), s)
      BY <3>1, <3>2, CatalogPuts
    <3> QED
      BY <2>3, <2>1, <2>2, <2>5, <3>3 DEF RunsIntoFlag, Blocked, Start, p
  <2>6. \A p : ~Replaces("catalog", config, p, s)
    BY DEF Replaces, SchemaOf, CatalogSchema
  <2> QED
    BY <1>4, <2>1, <2>2, <2>4, <2>5, <2>6
<1> QED
  BY <1>3, <1>5, <1>6 DEF Blocked

\* A handler is begun with nothing disturbed, and one that finds nothing to do is clean.
LEMMA ReadAndPlanSettles ==
  ASSUME NotSetIsNoValue, TypeInv, RunInv, AttachedInv, CleanInv, FlagInv, SettleInv, ReadAndPlan
  PROVE  SettleInv'
<1>1. /\ pc = "idle" /\ UNCHANGED <<kind, config, server, known>> /\ Decide(ReadState)
      /\ applies' = IF pc' = "idle" \/ applies > MaxApplies THEN applies ELSE applies + 1
  BY DEF ReadAndPlan
<1>2. applies \in Nat /\ applies' \in Nat
  BY <1>1 DEF SettleInv
<1> SUFFICES ASSUME kind \in SettledKinds, applies' > 0
             PROVE  Settling'
  BY <1>1, <1>2 DEF SettleInv
<1>3. applies > 0 => Settling
  BY DEF SettleInv
<1>4. Blocked => Blocked'
  BY ReadAndPlanBlocked
<1>5. clean => Stop \/ (config # Null /\ NeverQuiet(config))
  BY CleanStops
<1>6. Stop => pc' = "idle"
  BY DEF Stop
<1>7. NeverQuiet(config)' <=> NeverQuiet(config)
  BY <1>1 DEF NeverQuiet, ShownAsNull, Respelled
<1>8. ASSUME applies' > 1
      PROVE  Blocked' \/ (config' # Null /\ NeverQuiet(config)')
  <2>1. CASE applies > 1
    BY <1>1, <1>2, <1>3, <1>4, <1>7, <2>1 DEF Settling
  <2>2. CASE ~(applies > 1)
    <3>1. applies > 0 /\ pc' # "idle"
      BY <1>1, <1>2, <1>8, <2>2
    <3>2. clean \/ Blocked
      BY <1>1, <1>3, <3>1 DEF Settling
    <3> QED
      BY <1>1, <1>4, <1>5, <1>6, <1>7, <3>1, <3>2
  <2> QED
    BY <2>1, <2>2
<1> QED
  BY <1>1, SettledDecisions, PlansAccepted, <1>6, <1>8 DEF Settling, StartCreate, Start

\* What a server that has the object cannot refuse.
LEMMA PossibleUnless ==
  ASSUME kind \notin {"function", "table"}, NEW q, RequestOK(q), q.verb \notin {"post", "unsupported"},
         q.target \in Names, Exists(q.target), InUseAllows(q), q.changes.add \subseteq known,
         \/ NoRename(q) \/ q.changes.plain.name = q.target \/ ~Exists(q.changes.plain.name)
  PROVE  Possible(q)
  BY NamesOfRequests DEF Possible

\* Whom an apply gives its object, and what it calls it, is configured.
LEMMA PlannedName ==
  ASSUME TypeInv, PlanInv, kind \in SettledKinds, pc \in {"create", "update"}
  PROVE  config # Null /\ planned.name = config.name /\ config.name \in Names
  BY NamesAreAttributes, NameAssumption DEF PlanInv, SettledKinds, AttrsOf, TypeInv, DataInv,
                                            ConfigInv, AsConfigured, NotConfigured

\* An owner and statistics have no members to give.
LEMMA NoneWanted ==
  ASSUME kind \in Attached
  PROVE  Wanted = {}
  BY AttachedSchemas DEF Attached, Wanted, Attrs, AttrsOf

\* What is attached to an object is refused when the object is not there.
LEMMA AttachedRefused ==
  ASSUME TypeInv, PlanInv, AttachedInv, PathInv, kind \in SettledKinds \cap Attached, ~disturbed,
         pc \in {"create", "update"}, todo # <<>>, NEW q, q = Head(todo)
  PROVE  /\ q.target = config.name /\ config # Null
         /\ ~Possible(q) => LacksObject
<1>1. RequestOK(q) /\ q = todo[1] /\ 1 \in DOMAIN todo
  BY FirstOfList DEF TypeInv
<1>2. config # Null /\ planned.name = config.name /\ config.name \in Names
  BY PlannedName
<1>3. ToList \/ ToPut
  BY DEF AttachedInv, AttachedWork
<1>4. q.target = planned.name /\ NoRename(q) /\ q.verb \in {"list", "put"}
  BY <1>1, NothingPlain, Carrying, Asked, <1>3 DEF ToList, List, Asks, ToPut, Stays
<1>5. q.changes.add \subseteq {}
  BY <1>1, NoneWanted DEF PathInv, Makings, ModestAll, Modest
<1>6. Exists(config.name) => Possible(q)
  BY <1>1, <1>2, <1>4, <1>5, PossibleUnless DEF InUseAllows, Attached, StatisticsKinds
<1> QED
  BY <1>2, <1>4, <1>6 DEF LacksObject

\* A Create is refused when its name is taken, or for who is to be given.
LEMMA CreateRefused ==
  ASSUME TypeInv, RunInv, PlanInv, PathInv, kind \in SettledKinds \cap MergedKinds, ~disturbed,
         pc = "create", todo # <<>>, NEW q, q = Head(todo), ~Possible(q)
  PROVE  LacksMembers \/ NameTaken
<1>1. RequestOK(q) /\ q = todo[1] /\ 1 \in DOMAIN todo /\ Listing(todo)
  BY FirstOfList DEF TypeInv, HandlerInv, TodoInv, ListOK
<1>2. config # Null /\ planned.name = config.name /\ config.name \in Names /\ state = Null
  BY PlannedName DEF TypeInv, HandlerInv, PcInv
<1>3. CASE Making
  BY <1>1, <1>2, <1>3, NamesOfRequests DEF Making, CreateDelivers, Makes, Possible, MergedKinds,
                                           Attached, StatisticsKinds, NameTaken
<1>4. ASSUME NEW n \in DOMAIN server, Working(n)
      PROVE  LacksMembers
  BY <1>1, <1>4, PlacedRest, PossibleUnless, <1>2 DEF Working, PathInv, Exists, TypeInv, DataInv,
                                                      ServerInv, Makings, InUseAllows,
                                                      SettledKinds, LacksMembers
<1> QED
  BY <1>3, <1>4 DEF RunInv, WorkInv

\* An Update is refused for who is to be given, for the name that is taken, or because the
\* catalog is not in use.
LEMMA UpdateRefused ==
  ASSUME TypeInv, RunInv, PlanInv, PathInv, CatalogInv, kind \in SettledKinds \cap MergedKinds,
         ~disturbed, pc = "update", todo # <<>>, NEW q, q = Head(todo), ~Possible(q)
  PROVE  /\ Exists(q.target)
         /\ LacksMembers \/ NameTaken \/ (Disabled /\ q.undo = <<>>)
<1>1. RequestOK(q) /\ q = todo[1] /\ 1 \in DOMAIN todo /\ Listing(todo)
  BY FirstOfList DEF TypeInv, HandlerInv, TodoInv, ListOK
<1>2. /\ config # Null /\ planned.name = config.name /\ config.name \in Names /\ state # Null
      /\ kind \notin {"function", "table"} /\ kind \notin Attached
  BY PlannedName DEF TypeInv, HandlerInv, PcInv, SettledKinds, MergedKinds, Attached, StatisticsKinds
<1>3. Modest(q, Wanted, state.name)
  BY <1>1 DEF PathInv, ModestAll
<1>4. PICK n \in DOMAIN server : Working(n)
  BY <1>1, <1>3 DEF RunInv, WorkInv, Modest, ValueInv, HandlerValues, RequestValues
<1>5. /\ q.target = n /\ q.verb \in {"get", "put", "patch", "unsupported"}
      /\ NoRename(q) \/ q.changes.plain.name = planned.name
  BY <1>1, <1>4, PlacedRest DEF Working
<1>6. n \in Names /\ Exists(n)
  BY DEF Exists, TypeInv, DataInv, ServerInv
<1> SUFFICES LacksMembers \/ NameTaken \/ (Disabled /\ q.undo = <<>>)
  BY <1>5, <1>6
<1>7. q.verb \notin {"post", "unsupported"}
  BY <1>3, <1>5 DEF Modest
<1>8. \/ ~(q.changes.add \subseteq known)
      \/ ~InUseAllows(q)
      \/ ~NoRename(q) /\ q.changes.plain.name # q.target /\ Exists(q.changes.plain.name)
  BY <1>1, <1>2, <1>5, <1>6, <1>7, PossibleUnless
<1>9. CASE ~(q.changes.add \subseteq known)
  BY <1>2, <1>3, <1>9 DEF LacksMembers, Modest
<1>10. CASE ~NoRename(q) /\ q.changes.plain.name # q.target /\ Exists(q.changes.plain.name)
  BY <1>2, <1>3, <1>5, <1>10 DEF NameTaken, Modest
<1>11. CASE ~InUseAllows(q)
  <2>1. kind = "catalog" /\ q.verb = "put" /\ server[q.target].flag # TRUE
    BY <1>5, <1>11 DEF InUseAllows
  <2>2. PutReady(1)
    BY <1>1, <2>1 DEF CatalogInv
  <2>3. q.target = state.name /\ Waiting /\ q.undo = <<>>
    <3>1. q.target = state.name
      BY <1>1, <2>2 DEF PutReady
    <3>2. ~(Exists(state.name) /\ server[state.name].flag = TRUE)
      BY <2>1, <3>1
    <3> QED
      BY <1>1, <3>1, <2>2, <3>2 DEF PutReady
  <2> QED
    BY <1>2, <1>5, <1>6, <2>1, <2>3 DEF Disabled
<1> QED
  BY <1>5, <1>6, <1>8, <1>9, <1>10, <1>11

\* A Delete is refused when there is nothing to delete.
LEMMA DeleteRefused ==
  ASSUME TypeInv, PathInv, CatalogInv, kind \in SettledKinds, ~disturbed,
         pc = "delete", todo # <<>>, NEW q, q = Head(todo), ~Possible(q)
  PROVE  CountsAsGone(q)
<1>1. RequestOK(q) /\ q = todo[1] /\ 1 \in DOMAIN todo
  BY FirstOfList DEF TypeInv
<1>2. Leavings(kind, q, state.name) /\ state # Null
  BY <1>1 DEF PathInv, TypeInv, HandlerInv, PcInv
<1>3. /\ q.target = state.name /\ state.name \in Names /\ NoRename(q) /\ q.changes.add \subseteq known
      /\ q.verb \notin {"post", "unsupported"} /\ kind \notin {"function", "table"}
  BY <1>2 DEF Leavings, TypeInv, DataInv, StateOK, SettledKinds
<1>4. Exists(q.target) => InUseAllows(q)
  <2>1. CASE kind = "catalog" /\ q.verb = "delete"
    <3>1. DeleteReady(1)
      BY <1>1, <2>1 DEF CatalogInv
    <3> QED
      BY <1>3, <2>1, <3>1 DEF DeleteReady, InUseAllows
  <2>2. CASE ~(kind = "catalog" /\ q.verb = "delete")
    BY <1>2, <2>2 DEF Leavings, InUseAllows
  <2> QED
    BY <2>1, <2>2
<1> QED
  BY <1>1, <1>3, <1>4, PossibleUnless DEF CountsAsGone

\* What a request that renames nothing leaves there.
LEMMA NamesKept ==
  ASSUME ServerInv, NEW q, RequestOK(q), Possible(q), NoRename(q), q.verb # "post"
  PROVE  /\ DOMAIN After(q) \subseteq DOMAIN server /\ DOMAIN server \ {q.target} \subseteq DOMAIN After(q)
         /\ q.verb \notin {"delete", "force"} => DOMAIN After(q) = DOMAIN server
  BY NamesOfRequests, NamesAfter DEF Possible, Exists, ServerInv

\* What stops a handler is still there when one more request has been carried out.
LEMMA AnsweredBlocked ==
  ASSUME TypeInv, RunInv, PlanInv, AttachedInv, PathInv, kind \in SettledKinds, ~disturbed,
         NEW q, Answered(q), UNCHANGED known, Blocked
  PROVE  Blocked'
<1>1. /\ pc # "idle" /\ todo # <<>> /\ q = Head(todo) /\ Possible(q) /\ server' = After(q)
      /\ UNCHANGED <<kind, config, state, pc, known>>
      /\ todo' = IF q.verb # "list" THEN Tail(todo)
                 ELSE Listed(kind, server[q.target].props, planned, {ManagedKey})
  BY DEF Answered
<1>2. RequestOK(q) /\ q = todo[1] /\ 1 \in DOMAIN todo /\ Listing(todo)
  BY <1>1, FirstOfList DEF TypeInv, HandlerInv, TodoInv, ListOK
<1>3. /\ ServerInv /\ (config # Null => config.name \in Names)
      /\ pc \in {"create", "update", "delete", "undo"}
  BY <1>1 DEF TypeInv, DataInv, ConfigInv, HandlerInv, PcInv, SettledKinds
<1>4. /\ pc = "delete" => state # Null /\ Leavings(kind, q, state.name)
      /\ pc = "undo" => q.verb = "patch" /\ NoRename(q)
  BY <1>2 DEF PathInv, TypeInv, HandlerInv, PcInv, TodoInv, Undoes
<1>5. CASE LacksMembers
  BY <1>1, <1>5 DEF Wanted, Attrs, LacksMembers, Blocked
<1>6. CASE LacksObject
  BY <1>6, <1>2, <1>1, AttachedRefused, <1>3, <1>4, NamesKept DEF LacksObject, Exists, TypeInv,
                                                                  HandlerInv, TodoInv, Possible,
                                                                  Leavings, Blocked
<1>7. CASE RunsIntoName
  <2>1. /\ config # Null /\ kind \notin Attached /\ config.name \in DOMAIN server
        /\ state = Null \/ state.name # config.name
    BY <1>7 DEF RunsIntoName, NameTaken, Exists
  <2>2. pc # "create"
    BY <1>2, <1>7, <1>1, <1>3, <2>1, NamesOfRequests DEF RunsIntoName, Makes, Possible, Exists
  <2>3. ASSUME config.name \in DOMAIN server', pc = "update" => MoveOnce(todo', state.name, config.name)
        PROVE  Blocked'
    BY <1>1, <2>1, <2>3, <2>2 DEF NameTaken, Exists, RunsIntoName, Blocked
  <2>4. CASE pc = "update"
    <3> DEFINE n == state.name
               m == config.name
    <3>1. MoveOnce(todo, n, m) /\ m # n /\ m # Unknown /\ state # Null
      BY <1>3, <1>7, <2>1, <2>4, NameAssumption DEF RunsIntoName, TypeInv, HandlerInv, PcInv
    <3> HIDE DEF n, m
    <3>2. /\ q.target = n /\ q.verb \in {"get", "put", "patch", "unsupported"}
          /\ \/ NoRename(q) /\ Placed(Tail(todo), n, m)
             \/ ~NoRename(q) /\ q.verb = "put" /\ q.changes.plain.name = m
      BY <1>1, <1>2, <3>1, PlacedRest DEF Placed
    <3>3. NoRename(q)
      BY <1>2, <3>1, <3>2, NamesOfRequests, <2>1, <1>1 DEF m, Possible, Exists
    <3>4. todo' = Tail(todo) /\ MoveOnce(Tail(todo), n, m)
      BY <1>1, <3>1, <3>2, <3>3 DEF Placed
    <3>5. config.name \in DOMAIN server'
      BY <1>1, <1>2, <1>3, <2>1, <3>2, <3>3, NamesKept
    <3> QED
      BY <2>3, <3>4, <3>5 DEF n, m
  <2>5. CASE pc = "delete"
    <3>1. q.target # config.name /\ NoRename(q) /\ q.verb # "post"
      BY <1>4, <2>1, <2>5 DEF Leavings
    <3>2. config.name \in DOMAIN server'
      BY <1>1, <1>2, <1>3, <2>1, <3>1, NamesKept
    <3> QED
      BY <2>3, <2>5, <3>2
  <2>6. CASE pc = "undo"
    <3>1. config.name \in DOMAIN server'
      BY <1>1, <1>2, <1>3, <1>4, <2>1, <2>6, NamesKept
    <3> QED
      BY <2>3, <2>6, <3>1
  <2> QED
    BY <1>3, <2>2, <2>4, <2>5, <2>6
<1>8. CASE RunsIntoFlag
  BY <1>1, <1>2, <1>3, <1>8 DEF RunsIntoFlag, Disabled, PutsFirst, Possible, InUseAllows
<1> QED
  BY <1>5, <1>6, <1>7, <1>8 DEF Blocked

\* What stops a handler is there when it has failed.
LEMMA FailedBlocked ==
  ASSUME NEW q, FailAfter(q), UNCHANGED <<kind, config, server, known>>,
         LacksMembers \/ NameTaken \/ LacksObject \/ (Disabled /\ q.undo = <<>>)
  PROVE  Blocked'
<1>1. pc' \in {"idle", "undo"} /\ (q.undo = <<>> => pc' = "idle") /\ UNCHANGED state
  BY DEF FailAfter, Fail, Stop
<1>2. UNCHANGED <<Wanted, Exists(config.name), Exists(state.name), ReadState>>
  BY <1>1 DEF Wanted, Attrs, Exists, ReadState
<1>3. Disabled => Disabled'
  BY <1>1, <1>2 DEF Disabled, Waiting
<1> QED
  BY <1>1, <1>2, <1>3 DEF Blocked, RunsIntoName, RunsIntoFlag, LacksMembers, LacksObject,
                          NameTaken

\* A request is carried out, or refused for something that stays.
LEMMA CallSettles ==
  ASSUME TypeInv, RunInv, PlanInv, AttachedInv, PathInv, CatalogInv, SettleInv, Call
  PROVE  SettleInv'
<1> DEFINE q == Head(todo)
<1>1. /\ pc # "idle" /\ todo # <<>> /\ UNCHANGED <<kind, config, known>>
      /\ \/ Answered(q) /\ UNCHANGED <<disturbed, applies>>
         \/ ~Possible(q) /\ Refused(q) /\ UNCHANGED <<server, applies>>
         \/ applies' = 0
  BY DEF Call, Answered
<1> HIDE DEF q
<1> SUFFICES ASSUME kind \in SettledKinds, applies' > 0
             PROVE  Settling'
  BY <1>1 DEF SettleInv
<1>2. applies > 0 /\ applies' = applies
  BY <1>1
<1>3. ~disturbed /\ (pc = "undo" => Blocked) /\ (applies > 1 => Blocked \/ (config # Null /\ NeverQuiet(config)))
  BY <1>1, <1>2 DEF SettleInv, Settling
<1>4. NeverQuiet(config)' <=> NeverQuiet(config)
  BY <1>1 DEF NeverQuiet, ShownAsNull, Respelled
<1>5. ASSUME Blocked', pc' # "idle" => ~disturbed'
      PROVE  Settling'
  BY <1>5 DEF Settling
<1>6. CASE Answered(q) /\ UNCHANGED <<disturbed, applies>>
  BY <1>1, <1>3, <1>6, AnsweredBlocked, <1>2, <1>4 DEF Answered, Settling
<1>7. CASE ~Possible(q) /\ Refused(q) /\ UNCHANGED <<server, applies>>
  <2>1. /\ 1 \in DOMAIN todo /\ q = todo[1] /\ q = Head(todo)
        /\ pc \in {"create", "update", "delete", "undo"}
    BY <1>1, FirstOfList DEF q, TypeInv, HandlerInv, PcInv
  <2>2. CASE CountsAsGone(q)
    <3>a. pc' = pc /\ UNCHANGED <<state, disturbed>>
      BY <1>7, <2>2 DEF Refused, CountsAsGone, GoneOnUpdate
    <3>1. pc = "delete" /\ pc' = pc /\ UNCHANGED <<state, disturbed>>
      BY <2>2, <3>a DEF CountsAsGone
    <3>2. ~RunsIntoFlag
      BY <3>1 DEF RunsIntoFlag
    <3>3. UNCHANGED <<Wanted, Exists(config.name)>>
      BY <1>1, <1>7 DEF Wanted, Attrs, Exists
    <3>4. Blocked => Blocked'
      BY <1>1, <1>7, <3>1, <3>2, <3>3 DEF Blocked, LacksMembers, LacksObject, RunsIntoName, NameTaken
    <3> QED
      BY <1>1, <1>2, <1>3, <1>4, <3>1, <3>4 DEF Settling
  <2>3. CASE ~CountsAsGone(q)
    <3>1. pc # "delete"
      BY <1>1, <1>3, <1>7, <2>1, <2>3, DeleteRefused
    <3>2. /\ ~GoneOnUpdate(q)
          /\ LacksMembers \/ NameTaken \/ LacksObject \/ (Disabled /\ q.undo = <<>>)
      <4>1. CASE pc = "undo"
        BY <1>3, <4>1 DEF GoneOnUpdate, Blocked, RunsIntoName, RunsIntoFlag
      <4>2. CASE pc \in {"create", "update"} /\ kind \in Attached
        <5>1. LacksObject
          BY <1>1, <1>3, <1>7, <2>1, <4>2, AttachedRefused
        <5> QED
          BY <4>2, <5>1 DEF GoneOnUpdate, Attached, StatisticsKinds
      <4>3. CASE pc \in {"create", "update"} /\ kind \notin Attached
        <5>1. kind \in SettledKinds \cap MergedKinds
          BY <4>3, KindsWithoutLists DEF SettledKinds
        <5>2. pc = "create" => LacksMembers \/ NameTaken
          BY <1>1, <1>3, <1>7, <2>1, <5>1, CreateRefused
        <5>3. pc = "update" => /\ Exists(q.target)
                               /\ LacksMembers \/ NameTaken \/ (Disabled /\ q.undo = <<>>)
          BY <1>1, <1>3, <1>7, <2>1, <5>1, UpdateRefused
        <5> QED
          BY <4>3, <5>2, <5>3 DEF GoneOnUpdate
      <4> QED
        BY <2>1, <3>1, <4>1, <4>2, <4>3
    <3>3. FailAfter(q)
      BY <1>7, <2>3, <3>2 DEF Refused
    <3>4. Blocked'
      BY <1>1, <1>7, <3>2, <3>3, FailedBlocked
    <3> QED
      BY <1>5, <3>4, <1>3, <3>3 DEF FailAfter, Fail, Stop
  <2> QED
    BY <2>2, <2>3
<1> QED
  BY <1>1, <1>2, <1>6, <1>7

\* A handler that is done has not been stopped, and leaves everything clean.
LEMMA FinishSettles ==
  ASSUME NotSetIsNoValue, TypeInv, RunInv, PlanInv, SettleInv, Finish
  PROVE  SettleInv'
<1>1. /\ pc # "idle" /\ todo = <<>> /\ UNCHANGED <<kind, config, server, known, applies>>
      /\ \/ pc = "undo" /\ Fail
         \/ /\ pc # "undo" /\ state' = Written
            /\ IF next THEN StartCreate(PlanCreate(kind, config)) ELSE Stop /\ clean' = ~disturbed
  BY DEF Finish
<1> SUFFICES ASSUME kind \in SettledKinds, applies' > 0
             PROVE  Settling'
  BY <1>1 DEF SettleInv
<1>2. /\ ~disturbed /\ (pc = "undo" => Blocked)
      /\ applies > 1 => Blocked \/ (config # Null /\ NeverQuiet(config))
  BY <1>1 DEF SettleInv, Settling
<1>3. NeverQuiet(config)' <=> NeverQuiet(config)
  BY <1>1 DEF NeverQuiet, ShownAsNull, Respelled
<1>4. UNCHANGED <<Wanted, Exists(config.name)>>
  BY <1>1 DEF Wanted, Attrs, Exists
<1>5. (LacksMembers => LacksMembers') /\ (LacksObject => LacksObject')
  BY <1>1, <1>4 DEF LacksMembers, LacksObject
<1>6. CASE pc = "undo" /\ Fail
  BY <1>6, <1>1, <1>4, <1>2, <1>5 DEF Fail, Stop, NameTaken, Blocked, RunsIntoName, RunsIntoFlag,
                                      Settling
<1>7. CASE pc # "undo" /\ next
  <2>1. pc = "delete" /\ config # Null
    BY <1>7 DEF TypeInv, HandlerInv, PcInv
  <2>2. state' = Null /\ StartCreate(PlanCreate(kind, config))
    BY <1>1, <1>7, <2>1 DEF Written
  <2>3. pc' = "create" /\ ~disturbed'
    BY <2>2, PlansAccepted DEF StartCreate, Start
  <2>4. ASSUME RunsIntoName
        PROVE  RunsIntoName'
    <3>1. kind \in SettledKinds \ Attached /\ kind \in MergedKinds
      BY <2>4, KindsWithoutLists DEF RunsIntoName, NameTaken, SettledKinds
    <3>2. WorkInv'
      BY <3>1, FinishValues DEF RunInv
    <3>3. todo' # <<>> /\ Makes(todo'[1], config.name)
      BY <1>1, <2>1, <2>2, <3>1, <3>2, CreateRunsInto
    <3>4. NameTaken'
      BY <1>1, <1>4, <2>2, <2>4 DEF RunsIntoName, NameTaken
    <3> QED
      BY <1>1, <2>3, <3>3, <3>4 DEF RunsIntoName
  <2>5. Blocked => Blocked'
    BY <1>5, <2>1, <2>4 DEF Blocked, RunsIntoFlag
  <2> QED
    BY <1>1, <1>2, <1>3, <2>3, <2>5 DEF Settling
<1>8. CASE pc # "undo" /\ ~next
  <2>1. pc \in {"create", "update", "delete"} /\ (pc = "delete" => config = Null)
    BY <1>1, <1>8 DEF TypeInv, HandlerInv, PcInv, PlanInv, SettledKinds
  <2>2. ~RunsIntoName /\ ~RunsIntoFlag
    BY <1>1, <2>1, ShortDomains DEF RunsIntoName, NameTaken, RunsIntoFlag, PutsFirst, MoveOnce
  <2>3. Blocked => Blocked'
    BY <1>5, <2>2 DEF Blocked
  <2> QED
    BY <1>1, <1>2, <1>3, <1>8, <2>3 DEF Settling, Stop
<1> QED
  BY <1>1, <1>6, <1>7, <1>8

\* So does every step.
LEMMA NextSettleInv ==
  ASSUME NotSetIsNoValue, TypeInv, RunInv, PlanInv, AttachedInv, CleanInv, PathInv, FlagInv, CatalogInv,
         SettleInv, [Next]_vars
  PROVE  SettleInv'
<1>1. CASE ReadAndPlan
  BY <1>1, ReadAndPlanSettles
<1>2. CASE Call
  BY <1>2, CallSettles
<1>3. CASE Finish
  BY <1>3, FinishSettles
<1>4. CASE ImportState \/ Edit \/ Others
  BY <1>4 DEF ImportState, Edit, Others, SettleInv
<1>5. CASE UNCHANGED vars
  <2>1. /\ UNCHANGED <<kind, config, state, server, known, pc, todo, clean, disturbed, applies>>
        /\ kind' = kind /\ applies' = applies
    BY <1>5 DEF vars, handler
  <2>2. UNCHANGED <<Wanted, Exists(config.name), Exists(state.name), ReadState>>
    BY <2>1 DEF Wanted, Attrs, Exists, ReadState
  <2>3. UNCHANGED Waiting
    BY <2>1, <2>2 DEF Waiting
  <2>4. Blocked' <=> Blocked
    BY <2>1, <2>2, <2>3 DEF Blocked, LacksMembers, RunsIntoName, NameTaken, LacksObject,
                            RunsIntoFlag, Disabled
  <2> QED
    BY <2>1, <2>4 DEF SettleInv, Settling, NeverQuiet, ShownAsNull, Respelled
<1> QED
  BY <1>1, <1>2, <1>3, <1>4, <1>5 DEF Next

\* Applying again and again comes to an end, for whatever names, keys, members and bounds: once
\* no one interferes, the second plan finds nothing to do, also after an apply that failed halfway,
\* unless what is configured cannot be had; of every kind but tables and functions, whose lists are
\* converted one by one, and the partitions the catalog names, whose plan never knows the name.
THEOREM AppliesSettle ==
  ASSUME NotSetIsNoValue, Kinds \cap {"table", "function", "identity"} = {}, MaxApplies # 0
  PROVE  Spec => []SettlesWithin
<1>1. Init => SettleInv
  BY DEF Init, SettleInv
<1>2. /\ TypeInv /\ RunInv /\ PlanInv /\ AttachedInv /\ CleanInv /\ PathInv /\ FlagInv /\ CatalogInv
      /\ SettleInv /\ [Next]_vars
      => SettleInv'
  BY NextSettleInv
<1>3. ASSUME TypeInv, SettleInv
      PROVE  SettlesWithin
  <2>1. SUFFICES ASSUME pc = "idle", applies > MaxApplies
                 PROVE  OutOfReach \/ (config # Null /\ NeverQuiet(config))
    BY DEF SettlesWithin
  <2>2. applies > 1
    BY <1>3, <2>1, BoundAssumption DEF SettleInv
  <2>3. Blocked \/ (config # Null /\ NeverQuiet(config))
    BY <1>3, KindKnown, <2>2 DEF SettleInv, Settling, SettledKinds, TypeInv, DataInv, KindInv
  <2>4. LacksObject => OutOfReach
    BY DEF LacksObject, OutOfReach
  <2>5. RunsIntoFlag => OutOfReach
    BY DEF RunsIntoFlag, Disabled, Waiting, OutOfReach
  <2> QED
    BY <2>3, <2>4, <2>5 DEF Blocked, LacksMembers, Wanted, OutOfReach, RunsIntoName, NameTaken
<1>4. NullIsNoRecord
  BY NullIsNone
<1>5. /\ (Spec => []TypeInv) /\ (Spec => []RunInv) /\ (Spec => []PlanInv) /\ (Spec => []AttachedInv)
      /\ (Spec => []CleanInv) /\ (Spec => []PathInv) /\ (Spec => []FlagInv) /\ (Spec => []CatalogInv)
  BY <1>4, AlwaysTypeInv, AlwaysRunInv, AlwaysPlanInv, AlwaysAttachedInv, AlwaysCleanInv, AlwaysPathInv,
     AlwaysFlagInv, AlwaysCatalogInv
<1> QED
  BY <1>1, <1>2, <1>3, <1>5, PTL DEF Spec

=============================================================================
