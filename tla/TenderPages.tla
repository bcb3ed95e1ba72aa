----------------------------- MODULE TenderPages -----------------------------
(***************************************************************************)
(* One session extracts its tenders one after the other, active ones or    *)
(* ones of the archive: what of the portal's pages ends in the data of     *)
(* which tender, how often, and that the extraction ends whatever the      *)
(* pages link to.                                                          *)
(***************************************************************************)
EXTENDS ActivePages, PastPages

CONSTANTS ActiveSites, PastSites \* the portals considered for each flow

ASSUME SitesAssumption == ActiveSites \cup PastSites \subseteq Sites

VARIABLE flow \* "active" or "past"

allVars == <<vars, handled, flow>>

FlowInit ==
  /\ Init /\ PastInit
  /\ \/ flow = "active" /\ site \in ActiveSites
     \/ flow = "past" /\ site \in PastSites /\ ~skipsDetached

Next ==
  \/ flow = "active" /\ ActiveNext /\ UNCHANGED <<handled, flow>>
  \/ flow = "past" /\ PastNext /\ UNCHANGED flow

Spec == FlowInit /\ [][Next]_allVars

(* Visiting a page ends, with the page or an error: requests time out.     *)
FairSpec == Spec /\ WF_allVars(Next)

PagesTypeOK ==
  /\ TypeOK
  /\ handled \subseteq {"more", "summary"}
  /\ flow \in {"active", "past"}

-----------------------------------------------------------------------------
Over(t) == result[t] # "none"
PagesOf(values) == {values[i].page : i \in DOMAIN values}
NoDuplicates(values) == \A i, j \in DOMAIN values : values[i].page = values[j].page => i = j
Lists(p, c, kind) == c \in Range(site[p].links[kind])

(* The links of the start page lead to one page with the details, or the   *)
(* ones after the first are skipped: then the handlers of the details are  *)
(* attached once.                                                          *)
DetailsOnePage(t) ==
  \/ flow = "past" \/ skipsDetached
  \/ \A p, q \in Range(site[Links[t]].links["more"]) : p = q

(* What a tender is said to have was read from a page that was visited for *)
(* it, never from its start page, which is processed before the handlers   *)
(* are attached; and no page is read for two active tenders of a session.  *)
OwnPages ==
  \A t \in Tenders :
    /\ \A f \in Fields : PagesOf(data[t][f]) \subseteq opened[t] \ {Links[t]}
    /\ \A i \in DOMAIN corrigenda[t] :
         corrigenda[t][i].details > 0 => corrigenda[t][i].link \in opened[t]
    /\ flow = "active" => \A u \in Tenders \ {t} : opened[t] \cap opened[u] = {}

(* What is appended page by page.                                          *)
Repeated == {"payment", "covers", "bids", "financial", "awarded"}

(* What is appended page by page is there once for every page that shows   *)
(* it: payment instruments and covers of any page but the start page of an *)
(* active tender; bids, evaluations and awards of a page of the archive    *)
(* that is the summary, that is, not visited as one with the details.      *)
RowsExact ==
  \A t \in Tenders : Over(t) =>
    /\ \A f \in Repeated :
         /\ DetailsOnePage(t) => NoDuplicates(data[t][f])
         /\ \A p \in PagesOf(data[t][f]) : site[p].html /\ Shows(p, f)
    /\ flow = "active" => \A f \in {"payment", "covers"} :
         {p \in opened[t] \ {Links[t]} : site[p].html /\ Shows(p, f)} \subseteq PagesOf(data[t][f])
    /\ flow = "past" => \A f \in {"bids", "financial", "awarded"} :
         {p \in opened[t] \ {Links[t]} : /\ site[p].html /\ Shows(p, f)
                                        /\ \A q \in opened[t] : ~Lists(q, p, "more")}
           \subseteq PagesOf(data[t][f])

(* The page with the details decides on the basic details, the dates, the  *)
(* work item and the ID, although corrigenda are visited in the middle of  *)
(* it: a corrigendum has no say where the details do.  The ID is the one   *)
(* of the table unless the body holds something that looks like one.  A    *)
(* page of the archive that links to the summary itself is the exception:  *)
(* the summary is read before its tables are.                              *)
DetailsDecide ==
  \A t \in Tenders : Over(t) =>
    \A d \in opened[t] \ {Links[t]} :
      /\ Lists(Links[t], d, "more")
      /\ Head(site[Links[t]].links["more"]) = d
      /\ site[d].html
      /\ flow = "past" => site[d].links["summary"] = <<>>
      => /\ \A f \in {"basic", "dates", "work"} :
              Shows(d, f) => data[t][f] = Value(d, f)
         /\ Shows(d, "text") => data[t]["id"] = Value(d, "body")
         /\ Shows(d, "id") /\ ~Shows(d, "text") => data[t]["id"] = Value(d, "basic")

(* The details of a corrigendum are kept once, with the first of its rows, *)
(* if its page was read, and not at all if not.  This is so for a page     *)
(* that only the details list and that lists no corrigenda itself: inside  *)
(* of a page of a corrigendum two handlers for details are attached.       *)
(* Handlers for details are gone when the extraction is over.              *)
DetailsOnce ==
  \A t \in Tenders : flow = "active" /\ Over(t) =>
    /\ \A c \in Pages \ {Links[t]} :
         /\ Elements(c, "list_table") # <<>>
         /\ site[c].links["corrigendum"] = <<>>
         /\ \A p \in opened[t] : Lists(p, c, "corrigendum") =>
                                 Lists(Links[t], p, "more") /\ Head(site[Links[t]].links["more"]) = p
         => \A i \in DOMAIN corrigenda[t] : corrigenda[t][i].link = c =>
              corrigenda[t][i].details =
                IF c \in opened[t] /\ \A j \in 1..i-1 : corrigenda[t][j].link # c THEN 1 ELSE 0
    /\ t = tender => \A i \in DOMAIN callbacks :
                       callbacks[i].on = "list_table" => ~callbacks[i].attached

(* The extraction of every tender ends, also where pages link to pages     *)
(* that led to them.                                                       *)
EveryExtractionEnds == <>(\A t \in Tenders : Over(t))
=============================================================================
