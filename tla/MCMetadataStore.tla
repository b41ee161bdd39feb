-------------------------- MODULE MCMetadataStore --------------------------
(***************************************************************************)
(* TLC instance of MetadataStore: two instances, two raw documents, and    *)
(* JSON templates that bring a topology and a raw document, share a        *)
(* cluster, lean on an implicit one, name a node of nobody or an instance  *)
(* that is not there, or give an id twice.                                 *)
(***************************************************************************)
EXTENDS MetadataStore

Instance(id, cluster, node) == [id |-> id, cluster |-> cluster, node |-> node]
Cluster(id, nodes, raw, topology) ==
  [id |-> id, nodes |-> nodes, raw |-> raw, topology |-> topology]
Node(id, instance) == [id |-> id, instance |-> instance]
Template(instances, clusters, nodes) ==
  [instances |-> instances, clusters |-> clusters, nodes |-> nodes]

(* A template's topology is kept as it is: a group may have only shard ids. *)
WrittenTopology ==
  [databases |-> <<[name |-> 2, default |-> 5, policies |->
      <<[name |-> 5, measurements |-> <<>>, indexGroups |-> <<>>, shardGroups |->
           <<[id |-> 7, shards |-> <<>>, shardIds |-> <<5, 4>>, owners |-> {1}]>>]>>]>>,
   views |-> <<[database |-> 2, pt |-> 1, owner |-> 9]>>]

SomeTemplates ==
  {Template(<<Instance(1, 0, 0)>>, <<Cluster(1, {11}, 2, WrittenTopology)>>, <<Node(11, 1)>>),
   Template(<<Instance(2, 1, 12)>>, <<>>, <<Node(12, 0), Node(21, 2)>>),
   Template(<<>>, <<>>, <<Node(12, 1)>>),
   Template(<<Instance(1, 1, 0), Instance(1, 2, 0)>>, <<>>, <<>>)}

SomeRawNodes ==
  [raw \in Raws |-> [i \in Instances |-> IF raw = 1 THEN {10 * i + 1, 10 * i + 2} ELSE {10 * i + 1}]]

Measurement(name, base, fields) == [name |-> name, base |-> base, fields |-> fields]
Field(name, typ) == [name |-> name, typ |-> typ]

(* Measurement 3 is the current version of 1; 2 is an older one. *)
APolicy ==
  [name |-> 5,
   versions |-> {[name |-> 1, withVersion |-> 3]},
   measurements |-> {Measurement(2, 1, {Field(1, 6), Field(2, 3)}),
                     Measurement(3, 1, {Field(1, 6), Field(4, 1)})},
   shardGroups |-> {[id |-> 1, shards |-> <<[id |-> 2, owners |-> {}], [id |-> 0, owners |-> {2}],
                                            [id |-> 1, owners |-> {1}]>>],
                    [id |-> 2, shards |-> <<[id |-> 3, owners |-> {2}]>>]},
   indexGroups |-> {[id |-> 1, indexes |-> <<[id |-> 2, owners |-> {2}],
                                             [id |-> 1, owners |-> {1, 2}]>>]}]

SomeTopology ==
  [raw \in Raws |->
     [databases |-> {[name |-> d, default |-> 5, policies |-> {APolicy}] : d \in 1 .. (3 - raw)},
      views |-> {[database |-> 1, pt |-> 1, owner |-> 8], [database |-> 1, pt |-> 2, owner |-> 9]}]]

NoFilter == [f \in Filters |-> Absent]
Query(section, filter, limit) == [section |-> section, filter |-> filter, limit |-> limit]

SomeQueries ==
  <<Query("overview", NoFilter, 1), Query("nodes", NoFilter, 1),
    Query("databases", NoFilter, 1), Query("retention_policies", NoFilter, 1),
    Query("measurements", [NoFilter EXCEPT !["measurement"] = 1], 2),
    Query("fields", [NoFilter EXCEPT !["database"] = 1], 3),
    Query("shard_groups", [NoFilter EXCEPT !["owner"] = 8], 1), Query("shards", NoFilter, 2),
    Query("index_groups", [NoFilter EXCEPT !["pt"] = 2], 1), Query("indexes", NoFilter, 3),
    Query("partition_views", [NoFilter EXCEPT !["owner"] = 9], 2),
    Query("nodes", [NoFilter EXCEPT !["database"] = 1], 2)>>

Request(instance, measurement, fields, tags) ==
  [instance |-> instance, database |-> 1, policy |-> Absent, measurement |-> measurement,
   fields |-> fields, tags |-> tags]

SomeFieldRequests ==
  <<Request(1, 3, <<4, 9, 4>>, FALSE), Request(1, 1, <<>>, TRUE), Request(1, 7, <<1>>, FALSE)>>
=============================================================================
