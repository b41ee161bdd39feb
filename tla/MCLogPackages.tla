--------------------------- MODULE MCLogPackages ---------------------------
(***************************************************************************)
(* TLC instance of LogPackages: node packages, two of them of one node and *)
(* time, archives and plain files, with links, directories, files outside  *)
(* the log directories, and compressed files that cannot be decoded.       *)
(***************************************************************************)
EXTENDS LogPackages

Entry(name, group, coding, lines) ==
  [name |-> name, group |-> group, type |-> "file", coding |-> coding, lines |-> lines]

Dir == [Entry("dir", "tsdb", "text", <<>>) EXCEPT !.type = "dir"]
Link == [Entry("link", "tsdb", "text", <<>>) EXCEPT !.type = "link"]

Package(time, entries) ==
  [kind |-> "package", node |-> "node1", time |-> time, name |-> "package", entries |-> entries]

Other(kind, name, entries) ==
  [kind |-> kind, node |-> "none", time |-> 0, name |-> name, entries |-> entries]

Log(name, group) == Entry(name, group, "text", <<"query", "keyword", "other", "keyword">>)
Rotated(name) == Entry(name, "tsdb", "gzip", <<"keyword", "query", "query">>)
Broken(name, lines) == Entry(name, "tsdb", "broken", lines)
Junk == Entry("junk", "none", "text", <<"keyword">>)
Empty == Entry("empty", "agent", "text", <<>>)
App == Entry("app", "none", "text", <<"other", "keyword">>)

NoUploads == <<>>

SomeInputs ==
  {NoUploads,
   <<Package(7, <<Dir, Log("a", "tsdb"), Rotated("b"), Junk>>)>>,
   <<Package(7, <<Log("a", "tsdb"), Empty>>), Package(8, <<Log("a", "tsdb")>>)>>,
   <<Package(7, <<Log("a", "tsdb")>>), Package(7, <<Log("a", "stream")>>)>>,
   <<Package(7, <<Log("a", "tsdb")>>), Package(7, <<Log("a", "tsdb")>>)>>,
   <<Package(7, <<Empty>>), Other("archive", "app", <<App, Dir>>), Other("plain", "app", <<App>>)>>,
   <<Package(7, <<Log("a", "agent"), Log("a", "agent")>>)>>,
   <<Package(7, <<Log("a", "tsdb"), Link>>)>>,
   <<Package(7, <<Junk>>)>>,
   <<Package(7, <<Log("a", "tsdb"), Broken("b", <<"keyword">>)>>)>>,
   <<Other("plain", "app", <<Broken("app", <<>>)>>), Other("archive", "app", <<App, Log("a", "none")>>)>>,
   <<Other("torn_archive", "app", <<App>>)>>}
=============================================================================
