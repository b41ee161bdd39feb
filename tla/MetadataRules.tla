--------------------------- MODULE MetadataRules ---------------------------
(***************************************************************************)
(* What the metadata of a cluster looks like once it is imported, and how  *)
(* a query reads it: pure definitions, used by MetadataStore.              *)
(*                                                                         *)
(* Names and ids are natural numbers: 0 is an absent one, and their order  *)
(* is the order the source sorts by.  A raw document holds sets where the  *)
(* JSON has objects or arrays that are sorted, and sequences where the     *)
(* order of an array is kept; a topology holds sequences.                  *)
(***************************************************************************)
EXTENDS Integers, Sequences, FiniteSets, SequencesExt

Absent == 0

IsList(s) == s \in Seq(Range(s))

(* The elements of a set, each after those that come before it. *)
InOrder(S, Before(_, _)) ==
  [i \in 1 .. Cardinality(S) |-> CHOOSE x \in S : Cardinality({y \in S : Before(y, x)}) = i - 1]

Sorted(S, Key(_)) == InOrder(S, LAMBDA a, b : Key(a) < Key(b))

Id(x) == x.id
Name(x) == x.name

(* The concatenation of Op(x) for the elements x of a sequence. *)
FlatMap(Op(_), s) == FlattenSeq([i \in DOMAIN s |-> Op(s[i])])

Mapped(Op(_), s) == [i \in DOMAIN s |-> Op(s[i])]

(* The elements of a sequence that pass a test. *)
Where(s, Test(_)) == FlatMap(LAMBDA x : IF Test(x) THEN <<x>> ELSE <<>>, s)

-----------------------------------------------------------------------------
(* From a raw openGemini document to a topology.                           *)

(* The entry of MstVersions for a measurement: the one that names it as the
   current version, or else the one under its own name. *)
VersionEntry(versions, name) ==
  LET current == {v \in versions : v.withVersion = name}
      own == {v \in versions : v.name = name}
  IN Sorted(IF current # {} THEN current ELSE own, Name)

(* base is the name without its suffix, which stands in for the logical name
   of a measurement the versions do not mention. *)
NormalizeMeasurement(m, versions) ==
  LET entry == VersionEntry(versions, m.name) IN
  [name |-> m.name,
   logical |-> IF entry # <<>> THEN Head(entry).name ELSE m.base,
   versionName |-> IF entry # <<>> THEN Head(entry).withVersion ELSE Absent,
   fields |-> Sorted(m.fields, Name)]

NormalizeMeasurements(policy) ==
  Sorted({NormalizeMeasurement(m, policy.versions) : m \in policy.measurements}, Name)

(* A group without an id is left out, so is a shard without one.  Shards stay
   in the order of the document; their ids are sorted, and the owners of the
   group are those of its shards, each once. *)
NormalizeShardGroup(group) ==
  LET shards == Where(group.shards, LAMBDA s : s.id # Absent) IN
  [id |-> group.id, shards |-> shards,
   shardIds |-> InOrder({s.id : s \in Range(shards)}, LAMBDA a, b : a < b),
   owners |-> UNION {s.owners : s \in Range(shards)}]

NormalizeShardGroups(policy) ==
  Sorted({NormalizeShardGroup(g) : g \in {h \in policy.shardGroups : h.id # Absent}}, Id)

NormalizeIndexGroup(group) ==
  [id |-> group.id, indexes |-> Where(group.indexes, LAMBDA x : x.id # Absent)]

NormalizeIndexGroups(policy) ==
  Sorted({NormalizeIndexGroup(g) : g \in {h \in policy.indexGroups : h.id # Absent}}, Id)

NormalizePolicies(database) ==
  Sorted({[name |-> p.name, measurements |-> NormalizeMeasurements(p),
           shardGroups |-> NormalizeShardGroups(p),
           indexGroups |-> NormalizeIndexGroups(p)] : p \in database.policies}, Name)

NormalizeDatabases(raw) ==
  Sorted({[name |-> d.name, default |-> d.default, policies |-> NormalizePolicies(d)] :
            d \in raw.databases}, Name)

(* Views are kept by database, then by partition. *)
NormalizePtView(raw) ==
  InOrder({v \in raw.views : v.pt # Absent},
    LAMBDA a, b : a.database < b.database \/ (a.database = b.database /\ a.pt < b.pt))

(* The sets of a raw document are finite, and the keys they are sorted by tell
   their elements apart: they are the keys of JSON objects, or ids the database
   allots. *)
KeyedBy(S, Key(_)) ==
  /\ IsFiniteSet(S)
  /\ \A x, y \in S : Key(x) \in Int /\ (Key(x) = Key(y) => x = y)

RawPolicy(p) ==
  /\ KeyedBy(p.measurements, Name) /\ \A m \in p.measurements : IsFiniteSet(m.fields)
  /\ KeyedBy({g \in p.shardGroups : g.id # Absent}, Id)
  /\ KeyedBy({g \in p.indexGroups : g.id # Absent}, Id)
  /\ \A g \in p.shardGroups : IsList(g.shards)
  /\ \A g \in p.indexGroups : IsList(g.indexes)

RawDocument(raw) ==
  /\ KeyedBy(raw.databases, Name)
  /\ \A d \in raw.databases : KeyedBy(d.policies, Name) /\ \A p \in d.policies : RawPolicy(p)
  /\ IsFiniteSet(raw.views)

NormalizeTopology(raw) ==
  [databases |-> NormalizeDatabases(raw), views |-> NormalizePtView(raw)]

(* A topology: lists all the way down.  A template may bring one as it is. *)
ListedPolicy(p) ==
  /\ IsList(p.measurements) /\ \A m \in Range(p.measurements) : IsList(m.fields)
  /\ IsList(p.shardGroups) /\ \A g \in Range(p.shardGroups) : IsList(g.shards) /\ IsList(g.shardIds)
  /\ IsList(p.indexGroups) /\ \A g \in Range(p.indexGroups) : IsList(g.indexes)

ListedTopology(t) ==
  /\ IsList(t.databases)
  /\ \A d \in Range(t.databases) : IsList(d.policies) /\ \A p \in Range(d.policies) : ListedPolicy(p)
  /\ IsList(t.views)

-----------------------------------------------------------------------------
(* Queries.  A query names a section, gives some filters, Absent for those
   it does not give, and a page: limit items from the cursor on. *)

Filters == {"database", "policy", "measurement", "node", "owner", "pt", "shard", "index"}

SupportedFilters(section) ==
  CASE section = "overview" -> {}
    [] section = "nodes" -> {"node"}
    [] section = "databases" -> {"database"}
    [] section = "retention_policies" -> {"database", "policy"}
    [] section \in {"measurements", "fields"} -> {"database", "policy", "measurement"}
    [] section \in {"shard_groups", "shards"} ->
         {"database", "policy", "owner", "pt", "shard"}
    [] section \in {"index_groups", "indexes"} ->
         {"database", "policy", "owner", "pt", "index"}
    [] section = "partition_views" -> {"database", "owner", "pt"}

Sections ==
  {"overview", "nodes", "databases", "retention_policies", "measurements", "fields",
   "shard_groups", "shards", "index_groups", "indexes", "partition_views"}

ValidQuery(q) ==
  /\ q.section \in Sections
  /\ q.limit \in 1 .. 200
  /\ \A f \in Filters : q.filter[f] # Absent => f \in SupportedFilters(q.section)

Passes(q, f, value) == q.filter[f] \in {Absent, value}

DatabasesOf(context, q) ==
  Where(context.databases, LAMBDA d : Passes(q, "database", d.name))

(* The policies a query reads, each with the database it is in. *)
PoliciesOf(context, q) ==
  FlatMap(LAMBDA d : Mapped(LAMBDA p : [database |-> d.name, policy |-> p],
                            Where(d.policies, LAMBDA p : Passes(q, "policy", p.name))),
          DatabasesOf(context, q))

NameMatches(m, name) == name \in {m.name, m.logical, m.versionName}

MeasurementsOf(context, q) ==
  FlatMap(LAMBDA dp : Mapped(LAMBDA m : [at |-> dp, measurement |-> m],
            Where(dp.policy.measurements, LAMBDA m :
              q.filter["measurement"] = Absent \/ NameMatches(m, q.filter["measurement"]))),
          PoliciesOf(context, q))

(* Partitions pts of a database, against the partition and the owner asked for. *)
PtOwnerMatches(context, database, pts, q) ==
  /\ q.filter["pt"] # Absent => q.filter["pt"] \in pts
  /\ q.filter["owner"] # Absent =>
       \E view \in Range(context.views) :
         view.database = database /\ view.pt \in pts /\ view.owner = q.filter["owner"]

NodeItems(context, q) ==
  LET nodes == IF context.nodes = {} /\ context.node # Absent
               THEN {context.node} ELSE context.nodes
  IN InOrder({n \in nodes : Passes(q, "node", n)}, LAMBDA a, b : a < b)

ShardGroupsOf(context, q) ==
  FlatMap(LAMBDA dp : Mapped(LAMBDA g : [database |-> dp.database, policy |-> dp.policy.name,
                                         group |-> g], dp.policy.shardGroups),
          PoliciesOf(context, q))

ShardGroupItems(context, q) ==
  Where(ShardGroupsOf(context, q), LAMBDA g :
    /\ q.filter["shard"] \in {Absent} \union Range(g.group.shardIds)
    /\ PtOwnerMatches(context, g.database, g.group.owners, q))

(* A shard that names no owner has those of its group; a group that has only
   shard ids stands for shards with its own owners. *)
ShardOwners(shard, group) == IF shard.owners = {} THEN group.owners ELSE shard.owners

ShardsOfGroup(group) ==
  IF group.shards # <<>> THEN group.shards
  ELSE Mapped(LAMBDA id : [id |-> id, owners |-> group.owners], group.shardIds)

ShardItems(context, q) ==
  FlatMap(LAMBDA g : Mapped(LAMBDA s : <<g.database, g.policy, g.group.id, s.id>>,
            Where(ShardsOfGroup(g.group), LAMBDA s :
              /\ Passes(q, "shard", s.id)
              /\ PtOwnerMatches(context, g.database, ShardOwners(s, g.group), q))),
          ShardGroupsOf(context, q))

IndexGroupsOf(context, q) ==
  FlatMap(LAMBDA dp : Mapped(LAMBDA g : [database |-> dp.database, policy |-> dp.policy.name,
                                         group |-> g], dp.policy.indexGroups),
          PoliciesOf(context, q))

IndexGroupItems(context, q) ==
  Where(IndexGroupsOf(context, q), LAMBDA g :
    /\ q.filter["index"] \in {Absent} \union {x.id : x \in Range(g.group.indexes)}
    /\ PtOwnerMatches(context, g.database, UNION {x.owners : x \in Range(g.group.indexes)}, q))

IndexItems(context, q) ==
  FlatMap(LAMBDA g : Mapped(LAMBDA x : <<g.database, g.policy, g.group.id, x.id>>,
            Where(g.group.indexes, LAMBDA x :
              /\ Passes(q, "index", x.id)
              /\ PtOwnerMatches(context, g.database, x.owners, q))),
          IndexGroupsOf(context, q))

PartitionViewItems(context, q) ==
  Where(context.views, LAMBDA v :
    Passes(q, "database", v.database) /\ Passes(q, "pt", v.pt) /\ Passes(q, "owner", v.owner))

MeasurementKey(m) == <<m.at.database, m.at.policy.name, m.measurement.name>>

FieldItems(context, q) ==
  FlatMap(LAMBDA m : Mapped(LAMBDA f : Append(MeasurementKey(m), f.name), m.measurement.fields),
          MeasurementsOf(context, q))

ItemsForSection(context, q) ==
  CASE q.section = "overview" -> <<context>>
    [] q.section = "nodes" -> NodeItems(context, q)
    [] q.section = "databases" -> Mapped(Name, DatabasesOf(context, q))
    [] q.section = "retention_policies" ->
         Mapped(LAMBDA dp : <<dp.database, dp.policy.name>>, PoliciesOf(context, q))
    [] q.section = "measurements" -> Mapped(MeasurementKey, MeasurementsOf(context, q))
    [] q.section = "fields" -> FieldItems(context, q)
    [] q.section = "shard_groups" -> ShardGroupItems(context, q)
    [] q.section = "shards" -> ShardItems(context, q)
    [] q.section = "index_groups" -> IndexGroupItems(context, q)
    [] q.section = "indexes" -> IndexItems(context, q)
    [] q.section = "partition_views" -> PartitionViewItems(context, q)

(* The page at the cursor and where the next one starts; Done after the last. *)
Done == -1

SmallerOf(a, b) == IF a < b THEN a ELSE b

(* A mutant: the next page starts one item too late. *)
PageSkipping(items, cursor, limit) ==
  LET end == SmallerOf(cursor + limit, Len(items)) IN
  [items |-> SubSeq(items, cursor + 1, end), next |-> IF end < Len(items) THEN end + 1 ELSE Done]

Page(items, cursor, limit) ==
  LET end == SmallerOf(cursor + limit, Len(items)) IN
  [items |-> SubSeq(items, cursor + 1, end), next |-> IF end < Len(items) THEN end ELSE Done]

-----------------------------------------------------------------------------
(* The types of a measurement's fields.  A request names a database, a policy
   or Absent for the database's own, a measurement, and fields: the empty
   sequence asks for all of them. *)

First(s, Test(_)) ==
  LET found == Where(s, Test) IN IF found = <<>> THEN <<>> ELSE <<Head(found)>>

TagType == 6

(* A mutant: a field asked for twice is answered twice. *)
FieldSelectorAsGiven(fields) == fields

FieldSelector(fields) ==
  FoldLeft(LAMBDA seen, f : IF f \in Range(seen) THEN seen ELSE Append(seen, f), <<>>, fields)

(* The measurement a request means: the first whose name, logical name or
   versioned name it gives; the empty sequence when a part is unknown. *)
LookupMeasurement(topology, request) ==
  FlatMap(LAMBDA d :
    LET name == IF request.policy # Absent THEN request.policy ELSE d.default IN
    FlatMap(LAMBDA p : First(p.measurements, LAMBDA m : NameMatches(m, request.measurement)),
            First(d.policies, LAMBDA p : name # Absent /\ p.name = name)),
    First(topology.databases, LAMBDA d : d.name = request.database))

Fields(m, asked) ==
  IF asked = <<>> THEN m.fields
  ELSE FlatMap(LAMBDA name : First(m.fields, LAMBDA f : f.name = name), asked)

MissingFields(m, asked) ==
  Where(asked, LAMBDA name : \A f \in Range(m.fields) : f.name # name)

GetFieldTypes(topology, request) ==
  LET found == LookupMeasurement(topology, request)
      asked == FieldSelector(request.fields)
  IN IF found = <<>> THEN [ok |-> FALSE, fields |-> <<>>, missing |-> <<>>]
     ELSE [ok |-> TRUE, fields |-> Fields(Head(found), asked),
           missing |-> MissingFields(Head(found), asked)]

(* The same without a choice of fields, keeping the tags. *)
GetTagFields(topology, request) ==
  LET all == GetFieldTypes(topology, [request EXCEPT !.fields = <<>>]) IN
  [all EXCEPT !.fields = Where(@, LAMBDA f : f.typ = TagType), !.missing = <<>>]
=============================================================================
