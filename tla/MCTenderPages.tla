---------------------------- MODULE MCTenderPages ----------------------------
(* The portals TLC considers: two tenders, s1 and s2 their start pages, d1 *)
(* and d2 the details, c1 and c2 pages of corrigenda, f1 an attachment and *)
(* m1 the summary of all stages.                                           *)
EXTENDS TenderPages

CONSTANTS s1, s2, d1, d2, c1, c2, f1, m1

(* The first tender is given twice.                                        *)
LinksRepeated == <<s1, s2, s1>>

Page(shows, links) ==
  [shows |-> shows, links |-> links @@ [k \in LinkKinds |-> <<>>], html |-> TRUE, doc |-> "tender"]

AllSections == Sections \ {"text", "list_table"}
Blank == Page({}, <<>>)

(* What the pages of a portal hold unless it differs.                      *)
Common ==
  s1 :> Page({"text", "basic"}, "more" :> <<d1>>) @@
  s2 :> Page({"payment"}, "more" :> <<d2>>) @@
  d1 :> Page(AllSections, <<>>) @@
  d2 :> Page({"title", "payment", "work"}, <<>>) @@
  c1 :> Page({"list_table"}, <<>>) @@
  c2 :> Page({"list_table", "covers"}, <<>>) @@
  f1 :> [Blank EXCEPT !.html = FALSE] @@
  m1 :> [Page(Stages, <<>>) EXCEPT !.doc = "summary"]

(* Rows of the details, rows of a corrigendum, what else it shows, and     *)
(* whether the second tender has a corrigendum in common.                  *)
WithCorrigenda ==
  { d1 :> Page(AllSections, "corrigendum" :> rows) @@
    c1 :> Page({"list_table"} \cup shows, "corrigendum" :> nested) @@
    d2 :> Page({"title", "payment", "work"}, "corrigendum" :> shared) @@ Common :
      rows   \in {<<c1>>, <<c1, c2>>, <<c1, c1>>, <<f1, c1>>},
      nested \in {<<>>, <<c2>>, <<c1>>, <<d1, c2>>},
      shows  \in {{}, AllSections},
      shared \in {<<>>, <<c1>>} }

(* What the details show and which links to details there are.             *)
WithDetails ==
  { s1 :> Page({"text"}, "more" :> first) @@
    d1 :> Page(shows, "more" :> again @@ "corrigendum" :> <<c1>>) @@
    c1 :> Page({"list_table", "id", "dates"}, <<>>) @@ Common :
      first \in {<<>>, <<d1>>, <<d1, d1>>, <<d1, d2>>},
      again \in {<<>>, <<d2>>},
      shows \in {{}, {"title", "text", "work"}, AllSections \cup {"text"}} }

(* Where the archive links to the details and to the summary, and what the *)
(* summary shows of the tender itself.                                     *)
OfTheArchive ==
  { s1 :> Page({"text"}, "more" :> details @@ "summary" :> summary) @@
    d1 :> Page(AllSections, "summary" :> inDetails @@ "corrigendum" :> <<c1>>) @@
    m1 :> [Page(Stages \cup shows, "more" :> inSummary) EXCEPT !.doc = "summary"] @@ Common :
      details   \in {<<>>, <<d1>>, <<d1, d2>>},
      summary   \in {<<>>, <<m1>>, <<m1, m1>>},
      inDetails \in {<<>>, <<m1>>},
      inSummary \in {<<>>, <<d1>>},
      shows     \in {{}, {"dates", "payment", "docs"}} }

ActiveOnes == WithCorrigenda \cup WithDetails
AllSites == ActiveOnes \cup OfTheArchive
=============================================================================
