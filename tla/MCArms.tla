-------------------------------- MODULE MCArms --------------------------------
(* Values of the constants of Answering.                                    *)
EXTENDS Answering

-----------------------------------------------------------------------------
(* The region's tools, as it lists them on one page or two; the second of  *)
(* two pages may speak of both again.                                      *)
Tool(declares, needs) == [declares |-> declares, needs |-> needs, open |-> FALSE]
SearchTool == ("search_context" :> Tool({"knowledge_base", "query", "limit"}, {"query"}))
MemoryTool == ("memory_write" :> Tool({"knowledge_base", "text"}, {"text"}))
LaterTool  == ("memory_write" :> Tool({"query"}, {"text"}))

Capability(tool, required, sends) == [tool |-> tool, required |-> required, sends |-> sends]
MCWanted ==
  [search |-> Capability("search_context", TRUE, {"knowledge_base", "query"}),
   write_memory |-> Capability("memory_write", FALSE, {"knowledge_base", "text"})]
MCListings == {<<SearchTool, MemoryTool>>, <<MemoryTool>>, <<SearchTool, MemoryTool, LaterTool>>}

Ask(of, idempotent, safeName, allow) ==
  [of |-> of, idempotent |-> idempotent, keyed |-> FALSE, safeName |-> safeName, allow |-> allow]
MCRequests ==
  {Ask("search", "yes", FALSE, FALSE), Ask("write_memory", "no", FALSE, FALSE),
   Ask("search", "unsaid", TRUE, TRUE)}

-----------------------------------------------------------------------------
(* Documents of two sources of the lab and an item of memory: x and y were *)
(* submitted under a known path, z was not.                                *)
Hit(x)  == [id |-> x, located |-> TRUE]
Node(x) == [id |-> x, located |-> FALSE]
MCFound ==
  [P0 |-> {<<Hit("x"), Hit("y")>>, <<>>}, P1 |-> {<<Hit("m"), Hit("x")>>, <<Hit("y"), Node("z")>>}]
MCSourceIn == [x |-> "s1", y |-> "s2", z |-> "s1", m |-> "memory"]
MCPreview  == [x |-> {1}, y |-> {}, z |-> {}, m |-> {2}]
MCDocument == [x |-> {1, 2}, y |-> {3, 4}, z |-> {2, 3}, m |-> {2}]
MCPackage  == [x |-> [published |-> 1, score |-> 1, rank |-> 1], y |-> [published |-> 2, score |-> 1, rank |-> 2]]

-----------------------------------------------------------------------------
(* Two rows of a first pass, the second of which proves nothing and yet    *)
(* teaches the tuner.                                                      *)
MCWords  == [d1 |-> {"rate", "bank"}, d2 |-> {"rate", "loan"}]
MCTitles == [d1 |-> <<"rate", "bank">>, d2 |-> <<"loan">>]
Claim(cites, within) == [asserts |-> TRUE, cites |-> cites, within |-> within]
Call(query, results) == [query |-> query, results |-> results]
Searches ==
  {<<Call(<<"rate", "bank">>, <<"d1", "d2">>)>>,
   <<Call(<<"bank", "cost">>, <<>>), Call(<<"bank", "loan">>, <<"d2">>)>>,
   <<Call(<<"bank", "cost">>, <<>>), Call(<<"cost", "fee">>, <<>>), Call(<<"loan">>, <<"d1", "d2">>)>>}
Said ==
  {<<>>, <<Claim(<<"d1", "d2">>, {"d1", "d2"})>>, <<Claim(<<"d2", "d1">>, {"d2"})>>,
   <<Claim(<<"d1">>, {"d1"}), Claim(<<"d2">>, {"d2"})>>}
Row(q, learned, claims, read, searches) ==
  [question |-> q, terms |-> <<"bank", "cost">>, learned |-> learned, abstained |-> FALSE,
   kept |-> TRUE, claims |-> claims, read |-> read, calls |-> searches]
MCEntries ==
  {<<Row("q1", l, c, r, s), Row("q2", TRUE, <<>>, {"d2"}, t)>> :
     l \in BOOLEAN, c \in Said, r \in {{"d2"}, {"d1", "d2"}}, s \in Searches, t \in Searches}

-----------------------------------------------------------------------------
(* A plan in order; one that leaves out an id and a question; none at all. *)
Subtopic(i, facet, question) == [id |-> i, facets |-> {facet}, question |-> question]
MCPlans ==
  {<<Subtopic("sub-f1", "f1", "what of f1"), Subtopic("sub-f2", "f2", "what of f2")>>,
   <<Subtopic("", "f2", ""), Subtopic("", "f1", "why f1")>>, <<>>}
Label(i, label) == [id |-> i, label |-> label]
MCDrafts == {<<Label("a", "A"), Label("a", "B"), Label("", ""), Label("", "c"), Label("d", "D")>>, <<>>}

MCWidenedId == [f1 |-> "wide-f1", f2 |-> "wide-f2"]
MCTopicFacets == <<"f1", "f2">>
=============================================================================
