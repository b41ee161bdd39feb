--------------------------- MODULE MetadataStore ---------------------------
(***************************************************************************)
(* The metadata store: imports that are previewed and then confirmed,      *)
(* instances that are refreshed from their raw snapshot or deleted, tasks  *)
(* that take a context from it, and an agent that pages through the        *)
(* context.                                                                *)
(*                                                                         *)
(* The records are in memory behind one lock.  A change is made there and  *)
(* the three files are then written one after the other, each truncated    *)
(* and filled in place, under the lock.  A server that starts loads what   *)
(* it can read: a file that was being written counts for nothing.  The     *)
(* previews are in memory only.                                            *)
(***************************************************************************)
EXTENDS MetadataRules, TLC

CONSTANTS
  Instances, Clusters, Nodes,  \* ids; an instance id may serve as a cluster's
  Raws,        \* the raw openGemini documents
  RawNodes,    \* [Raws -> [Instances -> sets of nodes]]
  Topology,    \* [Raws -> a raw document of MetadataRules]
  Templates,   \* the JSON templates that may be imported
  Queries,     \* what the agent asks of its context
  FieldRequests, \* the field type requests
  MaxImports,  \* previews explored
  MaxSaveFaults  \* crashes and failed writes explored

VARIABLES
  records,   \* instances, clusters and nodes in memory
  imports,   \* previews not yet confirmed
  disk,      \* the three files
  writer,    \* the operation that holds the write lock while it saves
  refresh,   \* what a refresh has read before it takes the write lock
  context,   \* the context a task took
  reader,    \* the agent's paging
  hist       \* what happened, for the properties

metaVars == <<records, imports, disk, writer, refresh, context, reader, hist>>

Nobody == 0          \* no instance, cluster or node
NoRaw == 0           \* a cluster without a raw snapshot
Empty == << >>
Without(f, S) == [x \in DOMAIN f \ S |-> f[x]]
Over(f, g) == [x \in DOMAIN f \union DOMAIN g |-> IF x \in DOMAIN g THEN g[x] ELSE f[x]]

NoRecords == [instances |-> Empty, clusters |-> Empty, nodes |-> Empty]
Files == <<"instances", "clusters", "nodes">>
Saved(rows) == [whole |-> TRUE, rows |-> rows]
Torn == [whole |-> FALSE, rows |-> Empty]   \* a file whose write was cut off

(* What a starting server finds: a file it cannot parse has no rows. *)
Loaded(files) == [f \in DOMAIN files |-> files[f].rows]

-----------------------------------------------------------------------------
(* Templates: sequences of instances [id, cluster, node], of clusters
   [id, nodes, raw, topology] and of nodes [id, instance]. *)

OpenGemini(instance, raw) ==
  LET nodes == InOrder(RawNodes[raw][instance], LAMBDA a, b : a < b) IN
  [instances |-> <<[id |-> instance, cluster |-> instance, node |-> Nobody]>>,
   clusters |-> <<[id |-> instance, nodes |-> Range(nodes), raw |-> raw,
                   topology |-> NormalizeTopology(Topology[raw])]>>,
   nodes |-> Mapped(LAMBDA n : [id |-> n, instance |-> instance], nodes)]

(* An id is never the absent one.  A template's parts are lists; its clusters
   may carry a topology, and a raw document, of their own. *)
ASSUME MetadataAssumption ==
  /\ Nobody \notin Instances /\ IsList(Queries)
  /\ \A t \in Templates : /\ IsList(t.instances) /\ IsList(t.clusters) /\ IsList(t.nodes)
                          /\ \A c \in Range(t.clusters) :
                               c.raw \in {NoRaw} \union Raws /\ ListedTopology(c.topology)
  /\ \A raw \in Raws : /\ RawDocument(Topology[raw])
                       /\ \A i \in Instances : IsFiniteSet(RawNodes[raw][i])

ParsedTemplates == Templates \union {OpenGemini(i, raw) : i \in Instances, raw \in Raws}

(* An id that is missing or given twice in one list: the import cannot be
   confirmed.  References to unknown records are only warnings. *)
Faulty(list) ==
  \/ \E x \in Range(list) : x.id = Nobody
  \/ Cardinality({x.id : x \in Range(list)}) < Len(list)

PreviewErrors(t) == Faulty(t.instances) \/ Faulty(t.clusters) \/ Faulty(t.nodes)

Keyed(list) ==
  [id \in {x.id : x \in Range(list)} |-> CHOOSE x \in Range(list) : x.id = id]

-----------------------------------------------------------------------------
(* The records.                                                            *)

NodesOfInstance(r, i) == {n \in DOMAIN r.nodes : r.nodes[n].instance = i}

ClusterOf(r, i) == IF r.instances[i].cluster = Nobody THEN i ELSE r.instances[i].cluster

(* Another instance names the cluster; one that uses it as its own id does not. *)
ClusterIsShared(r, i, c) ==
  \E other \in DOMAIN r.instances \ {i} : r.instances[other].cluster = c

(* A mutant: the nodes that only name the instance stay. *)
RemoveInstanceKeepsNodes(r, i) ==
  IF i \notin DOMAIN r.instances THEN r
  ELSE [r EXCEPT !.instances = Without(@, {i}), !.clusters = Without(@, {ClusterOf(r, i)})]

RemoveInstance(r, i) ==
  IF i \notin DOMAIN r.instances THEN r
  ELSE LET c == ClusterOf(r, i)
           dropped == {c} \intersect (IF ClusterIsShared(r, i, c) THEN {} ELSE DOMAIN r.clusters)
           gone == NodesOfInstance(r, i) \union {r.instances[i].node}
                     \union UNION {r.clusters[d].nodes : d \in dropped}
       IN [instances |-> Without(r.instances, {i}),
           clusters |-> Without(r.clusters, dropped),
           nodes |-> Without(r.nodes, gone)]

ApplyTemplate(r, t) ==
  LET cleared == FoldLeft(LAMBDA acc, x : RemoveInstance(acc, x.id), r, t.instances) IN
  [instances |-> Over(cleared.instances, Keyed(t.instances)),
   clusters |-> Over(cleared.clusters, Keyed(t.clusters)),
   nodes |-> Over(cleared.nodes, Keyed(t.nodes))]

HasSnapshot(r, i) == i \in DOMAIN r.instances /\ ClusterOf(r, i) \in DOMAIN r.clusters

ClusterNodes(r, c) ==
  {n \in DOMAIN r.nodes :
     \/ c \in DOMAIN r.clusters /\ n \in r.clusters[c].nodes
     \/ LET i == r.nodes[n].instance IN
        i \in DOMAIN r.instances /\ r.instances[i].cluster = c /\ c # Nobody}

-----------------------------------------------------------------------------
(* The context of a task, from the ids its request names.                  *)

Refusal == [ok |-> FALSE, id |-> Nobody]

(* A mutant: what the request says goes, whatever the records say. *)
MergeRelatedIdBlindly(requested, derived) ==
  [ok |-> TRUE, id |-> IF requested # Nobody THEN requested ELSE derived]

MergeRelatedId(requested, derived) ==
  IF requested # Nobody /\ derived # Nobody /\ requested # derived THEN Refusal
  ELSE [ok |-> TRUE, id |-> IF requested # Nobody THEN requested ELSE derived]

(* A field of a record that may be absent. *)
FieldOf(map, id, field) == IF id = Nobody THEN Nobody ELSE map[id][field]

Known(merged, map) == merged.ok /\ merged.id \in {Nobody} \union DOMAIN map

NodeCluster(r, n) ==
  LET having == {c \in DOMAIN r.clusters : n \in r.clusters[c].nodes} IN
  IF n # Nobody /\ Cardinality(having) = 1 THEN CHOOSE c \in having : TRUE ELSE Nobody

DerivedCluster(r, i, n) ==
  IF FieldOf(r.instances, i, "cluster") # Nobody THEN r.instances[i].cluster
  ELSE NodeCluster(r, n)

Belongs(r, n, c) ==
  \/ n \in r.clusters[c].nodes
  \/ LET i == r.nodes[n].instance IN i \in DOMAIN r.instances /\ r.instances[i].cluster = c

(* The ids a request resolves to: none when it is refused. *)
ResolveTaskContext(r, instance, cluster, node) ==
  LET n == MergeRelatedId(node, FieldOf(r.instances, instance, "node"))
      i == MergeRelatedId(instance, FieldOf(r.nodes, n.id, "instance"))
      c == MergeRelatedId(cluster, DerivedCluster(r, i.id, n.id))
  IN IF /\ instance \in {Nobody} \union DOMAIN r.instances
        /\ Known(n, r.nodes) /\ Known(i, r.instances) /\ Known(c, r.clusters)
        /\ (i.id # Nobody /\ n.id # Nobody) => r.nodes[n.id].instance \in {Nobody, i.id}
        /\ (c.id # Nobody /\ n.id # Nobody) => Belongs(r, n.id, c.id)
     THEN {[instance |-> i.id, cluster |-> c.id, node |-> n.id]}
     ELSE {}

NoTopology == [databases |-> <<>>, views |-> <<>>]

NoContext == [taken |-> FALSE]

ContextOf(r, ids) ==
  LET topology == IF ids.cluster = Nobody THEN NoTopology ELSE r.clusters[ids.cluster].topology
  IN [taken |-> TRUE, ids |-> ids, node |-> ids.node,
      nodes |-> IF ids.cluster = Nobody THEN {} ELSE ClusterNodes(r, ids.cluster),
      databases |-> topology.databases, views |-> topology.views]

-----------------------------------------------------------------------------
NoWriter == [op |-> "none", at |-> 0, about |-> {}, brought |-> {}]
NoRefresh == [instance |-> Nobody, raw |-> NoRaw]
NoReader == [query |-> 0, cursor |-> 0, got |-> <<>>, answer |-> 0, types |-> <<>>]

MetaInit ==
  /\ records = NoRecords
  /\ disk = [f \in Range(Files) |-> Saved(Empty)]
  /\ imports = Empty
  /\ writer = NoWriter /\ refresh = NoRefresh
  /\ context = NoContext /\ reader = NoReader
  /\ hist = [imports |-> 0, faults |-> 0, acked |-> NoRecords,
             damaged |-> FALSE, about |-> {}, strays |-> {}]

Unlocked == writer = NoWriter
StoreVars == <<records, imports, disk, writer, refresh, hist>>

CreateImportPreview(t) ==
  /\ Unlocked /\ hist.imports < MaxImports
  /\ imports' = Over(imports, [id \in {hist.imports + 1} |-> [template |-> t, errors |-> PreviewErrors(t)]])
  /\ hist' = [hist EXCEPT !.imports = @ + 1]
  /\ UNCHANGED <<records, disk, writer, refresh, context, reader>>

(* The nodes that name an instance the store does not have. *)
Orphans(r) == {n \in DOMAIN r.nodes : r.nodes[n].instance \notin {Nobody} \union DOMAIN r.instances}

(* The change is made in memory; saving it starts, and the answer comes after.
   about and brought are the instances it is about and the nodes it brings; a
   node it brings that names an unknown instance is a stray. *)
Change(op, new, about, brought) ==
  /\ records' = new
  /\ writer' = [op |-> op, at |-> 1, about |-> about, brought |-> brought]
  /\ hist' = [hist EXCEPT !.about = about,
                          !.strays = (@ \ brought) \union (brought \intersect Orphans(new))]

Ids(list) == {x.id : x \in Range(list)}

(* A preview is used up whether it can be applied or not. *)
ConfirmImport(id) ==
  /\ Unlocked /\ id \in DOMAIN imports
  /\ imports' = Without(imports, {id})
  /\ LET t == imports[id].template IN
     IF imports[id].errors THEN UNCHANGED <<records, writer, hist>>
     ELSE Change("import", ApplyTemplate(records, t), Ids(t.instances), Ids(t.nodes))
  /\ UNCHANGED <<disk, refresh, context, reader>>

DeleteInstance(i) ==
  /\ Unlocked /\ i \in DOMAIN records.instances
  /\ Change("delete", RemoveInstance(records, i), {i}, {})
  /\ UNCHANGED <<imports, disk, refresh, context, reader>>

(* A refresh reads the raw snapshot under the read lock and lets go of it. *)
RefreshReads(i) ==
  /\ Unlocked /\ refresh = NoRefresh
  /\ HasSnapshot(records, i) /\ records.clusters[ClusterOf(records, i)].raw # NoRaw
  /\ refresh' = [instance |-> i, raw |-> records.clusters[ClusterOf(records, i)].raw]
  /\ UNCHANGED <<records, imports, disk, writer, context, reader, hist>>

(* It then applies what it read, whatever happened to the instance meanwhile. *)
RefreshApplies ==
  /\ Unlocked /\ refresh # NoRefresh
  /\ LET t == OpenGemini(refresh.instance, refresh.raw) IN
     Change("import", ApplyTemplate(records, t), Ids(t.instances), Ids(t.nodes))
  /\ refresh' = NoRefresh
  /\ UNCHANGED <<imports, disk, context, reader>>

Answered == hist' = [hist EXCEPT !.acked = records]

(* A mutant: an import is answered when the first file is written. *)
WriteFileEarly ==
  /\ writer.at \in {1, 2}
  /\ disk' = [disk EXCEPT ![Files[writer.at]] = Saved(records[Files[writer.at]])]
  /\ IF writer.at = 1 /\ writer.op = "import" THEN writer' = NoWriter /\ Answered
     ELSE writer' = [writer EXCEPT !.at = @ + 1] /\ UNCHANGED hist
  /\ UNCHANGED <<records, imports, refresh, context, reader>>

WriteFile ==
  /\ writer.at \in 1 .. 3
  /\ disk' = [disk EXCEPT ![Files[writer.at]] = Saved(records[Files[writer.at]])]
  /\ IF writer.at = 3 THEN writer' = NoWriter /\ Answered
     ELSE writer' = [writer EXCEPT !.at = @ + 1] /\ UNCHANGED hist
  /\ UNCHANGED <<records, imports, refresh, context, reader>>

(* A write that fails leaves the change in memory and the file half written;
   the request is answered with an error. *)
WriteFileFails ==
  /\ writer.at \in 1 .. 3 /\ hist.faults < MaxSaveFaults
  /\ \E left \in {Torn, disk[Files[writer.at]]} :
       disk' = [disk EXCEPT ![Files[writer.at]] = left]
  /\ writer' = NoWriter
  /\ hist' = [hist EXCEPT !.faults = @ + 1, !.damaged = TRUE]
  /\ UNCHANGED <<records, imports, refresh, context, reader>>

(* The server is killed, at any point of a save, and loads what is there. *)
Restart ==
  /\ hist.faults < MaxSaveFaults
  /\ \E left \in IF writer.at \in 1 .. 3 THEN {Torn, disk[Files[writer.at]]} ELSE {Torn} :
       LET saved == IF writer.at \in 1 .. 3
                    THEN [disk EXCEPT ![Files[writer.at]] = left] ELSE disk
       IN disk' = saved /\ records' = Loaded(saved)
  /\ imports' = Empty
  /\ writer' = NoWriter /\ refresh' = NoRefresh
  /\ hist' = [hist EXCEPT !.faults = @ + 1, !.damaged = @ \/ writer.at \in 1 .. 3,
                          !.acked = IF writer.at \in 1 .. 3 THEN Loaded(disk') ELSE @,
                          !.about = Instances,
                          !.strays = IF hist.damaged \/ writer.at \in 1 .. 3
                                     THEN @ \union Orphans(records') ELSE @]
  /\ UNCHANGED <<context, reader>>

(* A task takes its context, which its workspace then keeps. *)
TakeContext ==
  /\ Unlocked /\ ~context.taken
  /\ \E i \in {Nobody} \union Instances, c \in {Nobody} \union Clusters, n \in {Nobody} \union Nodes :
       \E ids \in ResolveTaskContext(records, i, c, n) : context' = ContextOf(records, ids)
  /\ UNCHANGED <<StoreVars, reader>>

(* The agent reads the pages of one query, one call each. *)
QueryMetadata(q) ==
  /\ context.taken /\ ValidQuery(Queries[q])
  /\ \/ reader.query = 0 /\ reader.cursor = 0
     \/ reader.query = q /\ reader.cursor # Done
  /\ LET page == Page(ItemsForSection(context, Queries[q]), reader.cursor, Queries[q].limit) IN
     reader' = [reader EXCEPT !.query = q, !.cursor = page.next, !.got = @ \o page.items]
  /\ UNCHANGED <<StoreVars, context>>

(* Or the types of some fields, from the records and not from its context. *)
GetMetadataFieldTypes(f) ==
  /\ Unlocked /\ reader = NoReader
  /\ LET request == FieldRequests[f] IN
     /\ HasSnapshot(records, request.instance)
     /\ LET topology == records.clusters[ClusterOf(records, request.instance)].topology IN
        reader' = [reader EXCEPT !.answer = f, !.types =
          <<IF request.tags THEN GetTagFields(topology, request)
            ELSE GetFieldTypes(topology, request)>>]
  /\ UNCHANGED <<StoreVars, context>>

StoreNext ==
  \/ \E t \in ParsedTemplates : CreateImportPreview(t)
  \/ \E id \in DOMAIN imports : ConfirmImport(id)
  \/ \E i \in Instances : DeleteInstance(i) \/ RefreshReads(i)
  \/ RefreshApplies \/ WriteFile \/ WriteFileFails \/ Restart \/ TakeContext

ReaderNext ==
  \/ \E q \in DOMAIN Queries : QueryMetadata(q)
  \/ \E f \in DOMAIN FieldRequests : GetMetadataFieldTypes(f)

(* A bound: the agent's calls are explored where the store is at rest, and end
   the exploration, as each of them reads a copy or one state of the store. *)
AtRest == Unlocked /\ refresh = NoRefresh /\ imports = Empty

MetaNext ==
  \/ reader = NoReader /\ StoreNext
  \/ AtRest /\ ReaderNext

MetaSpec == MetaInit /\ [][MetaNext]_metaVars

-----------------------------------------------------------------------------
(* Properties.                                                             *)

(* Whatever restarts happen, the server has the records the last answered
   change left, unless a save failed or a crash cut one off (metadata.rs:
   persist_records before the answer, load_map at the start). *)
LastAnswerStands == Unlocked /\ ~hist.damaged => records = hist.acked

(* An import replaces.  Of an instance the store has, it leaves no node it does
   not bring (PROGRESS.md: "Re-importing the same instance replaces the old
   snapshot and clears stale cluster/node records").  Of one the store does not
   have, deleted before or never imported, it finds no node but strays: nodes
   that a template brought although it, and the store, did not have the
   instance they name, which is only a warning (metadata.rs:2757), or whose
   instance a damaged save lost.  Those stay, as the instance is not removed
   before it is inserted. *)
ImportReplaces ==
  writer = NoWriter /\ writer'.op = "import" =>
    \A i \in writer'.about :
      NodesOfInstance(records', i) \subseteq
        writer'.brought \union (IF i \in DOMAIN records.instances THEN {} ELSE hist.strays)

ReimportReplaces == [][ImportReplaces]_metaVars

(* Without the exception for strays it does not hold. *)
ImportedIsAllThereIs ==
  [][writer = NoWriter /\ writer'.op = "import" =>
       \A i \in writer'.about : NodesOfInstance(records', i) \subseteq writer'.brought]_metaVars

(* The ids of a context a task is given belong together: the instance's
   cluster, a node of the instance and of the cluster (metadata.rs:
   resolve_task_context). *)
FitsRecords(r, ids) ==
  /\ ids.instance # Nobody => r.instances[ids.instance].cluster \in {Nobody, ids.cluster}
  /\ ids.node # Nobody =>
       /\ r.nodes[ids.node].instance \in {Nobody, ids.instance}
       /\ ids.cluster # Nobody => ids.node \in ClusterNodes(r, ids.cluster)

ContextFits == [][context' # context => FitsRecords(records, context'.ids)]_metaVars

(* The pages the agent follows are the section, each item once and in order
   (metadata.rs: query_metadata_context, mcp.rs: query_metadata_tool). *)
PagesCoverSection ==
  reader.cursor = Done => reader.got = ItemsForSection(context, Queries[reader.query])

(* Every field a request names is answered or reported missing, once. *)
FieldsAccounted ==
  reader.answer # 0 =>
    LET request == FieldRequests[reader.answer]
        types == Head(reader.types)
        named == {f.name : f \in Range(types.fields)} \union Range(types.missing)
    IN types.ok /\ ~request.tags /\ request.fields # <<>> =>
         /\ named = Range(request.fields)
         /\ Len(types.fields) + Len(types.missing) = Cardinality(named)

(* A change of one instance leaves every other the snapshot it had
   (PROGRESS.md:160: a deletion "removes the instance plus its non-shared
   cluster/node records"). *)
DeletionSparesOthers ==
  [][\A j \in DOMAIN records.instances \ hist'.about :
       HasSnapshot(records, j) => HasSnapshot(records', j)]_metaVars
=============================================================================
