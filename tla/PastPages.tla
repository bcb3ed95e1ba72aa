------------------------------ MODULE PastPages ------------------------------
(***************************************************************************)
(* The extraction of a tender of the archive: Extract of                   *)
(* src/scraper/pastTenders/extract.go, the handlers of tenderData.go for   *)
(* the tender and those of resultsData.go for what became of it.           *)
(*                                                                         *)
(* Every tender has a collector of its own.  The corrigenda are listed but *)
(* not followed.                                                           *)
(***************************************************************************)
EXTENDS Collector

VARIABLE handled \* the kinds of link already followed: viewMoreHandled, viewSummaryHandled

PastInit == handled = {}

NewPastTender(t) == Attach(<<>>, <<"more", "summary">>, t)

pastExtract ==
  /\ stack = <<>> /\ tender < Len(Links)
  /\ tender' = tender + 1
  /\ handled' = {}
  /\ \/ /\ Arrives(tender', Links[tender'], "start", NewPastTender(tender'), <<>>, {})
        /\ UNCHANGED result
     \/ /\ Fails(Links[tender'], NewPastTender(tender'), <<>>, {})
        /\ result' = [result EXCEPT ![tender'] = "error"]
  /\ UNCHANGED <<portal, data, corrigenda>>

alreadyHandled(kind) ==
  /\ kind \in handled
  /\ Calling(kind)
  /\ stack' = Called
  /\ UNCHANGED <<portal, tender, callbacks, visited, opened, data, corrigenda, result, handled>>

FirstOf(kind) ==
  /\ kind \notin handled
  /\ handled' = handled \cup {kind}

(* The first link of a kind is followed with more handlers attached.       *)
follow(kind, selectors) ==
  LET cbs == Attach(callbacks, selectors, Handler.for)
  IN  /\ Calling(kind)
      /\ \/ Arrives(tender, Call.link, kind, cbs, Called, visited)
         \/ Fails(Call.link, cbs, Called, visited)
      /\ FirstOf(kind)
      /\ UNCHANGED <<portal, tender, data, corrigenda, result>>

setupTenderDataHandler ==
  follow("more", <<"basic", "payment", "covers", "docs", "fee", "emd", "dates", "work",
                   "corrigendum", "authority", "body">>)

setupPastTenderDataHandler == follow("summary", <<"html">>)

-----------------------------------------------------------------------------
(* The sections of the tender, as for an active one.                       *)

pastReads(on, New(_, _)) == Reads(on, New) /\ UNCHANGED handled

pastFirst(d, field, p, condition) ==
  IF condition THEN [d EXCEPT ![field] = KeepFirst(@, p, "basic")] ELSE d

pastBasic(d, p) ==
  pastFirst(pastFirst(pastFirst(d, "url", p, Shows(p, "title")),
                      "basic", p, Shows(p, "basic")),
            "id", p, Shows(p, "id"))
pastBasicDetailsHandler == pastReads("basic", pastBasic)

pastPayment(d, p) == [d EXCEPT !["payment"] = KeepAll(@, p, "payment")]
pastPaymentHandler == pastReads("payment", pastPayment)

pastCovers(d, p) == [d EXCEPT !["covers"] = KeepAll(@, p, "covers")]
pastCoverHandler == pastReads("covers", pastCovers)

pastDocExists(docs, p) == \E i \in DOMAIN docs : site[docs[i].page].doc = site[p].doc

pastDocuments(d, p) ==
  IF pastDocExists(d["docs"], p) THEN d ELSE [d EXCEPT !["docs"] = KeepAll(@, p, "docs")]
pastDocumentsHandler == pastReads("docs", pastDocuments)

pastFee(d, p) == [d EXCEPT !["fee"] = KeepLast(@, p, "fee")]
pastFeeHandler == pastReads("fee", pastFee)

pastEMD(d, p) == [d EXCEPT !["emd"] = KeepLast(@, p, "emd")]
pastEMDHandler == pastReads("emd", pastEMD)

pastDates(d, p) == [d EXCEPT !["dates"] = KeepFirst(@, p, "dates")]
pastDatesHandler == pastReads("dates", pastDates)

pastWork(d, p) == [d EXCEPT !["work"] = KeepFirst(@, p, "work")]
pastWorkHandler == pastReads("work", pastWork)

pastAuthority(d, p) == [d EXCEPT !["authority"] = KeepFirst(@, p, "authority")]
pastAuthorityHandler == pastReads("authority", pastAuthority)

pastFallback(d, p) ==
  LET url == IF Shows(p, "title") THEN [d EXCEPT !["url"] = KeepFirst(@, p, "body")] ELSE d
  IN  IF Shows(p, "text") THEN [url EXCEPT !["id"] = KeepFirst(@, p, "body")] ELSE url
pastFallbackHandler == pastReads("body", pastFallback)

(* A row is kept; no handler for details exists that could be detached.    *)
pastCorrigendumHandler ==
  /\ Calling("corrigendum")
  /\ stack' = Called
  /\ corrigenda' = [corrigenda EXCEPT ![Handler.for] =
                      Append(@, [link |-> Call.link, details |-> 0])]
  /\ callbacks' = Detach(callbacks, "list_table")
  /\ UNCHANGED <<portal, tender, visited, opened, data, result, handled>>

-----------------------------------------------------------------------------
(* What became of the tender: the bids, evaluations and awards of the page *)
(* are appended, the dates of the stages and the contract value set.       *)

BidsList(d, p) ==
  IF Shows(p, "bids") THEN [d EXCEPT !["bids"] = KeepAll(@, p, "html")] ELSE d
StageUpdates(d, p) ==
  IF Shows(p, "stages") THEN [d EXCEPT !["stages"] = KeepLast(@, p, "html")] ELSE d
FinancialEvaluation(d, p) ==
  IF Shows(p, "financial") THEN [d EXCEPT !["financial"] = KeepAll(@, p, "html")] ELSE d
AwardedBids(d, p) ==
  IF Shows(p, "awarded") THEN [d EXCEPT !["awarded"] = KeepAll(@, p, "html")] ELSE d

Results(d, p) == AwardedBids(FinancialEvaluation(StageUpdates(BidsList(d, p), p), p), p)
extractResults == pastReads("html", Results)

-----------------------------------------------------------------------------
pastValidate(d) ==
  \E field \in {"basic", "id", "dates", "work", "fee", "emd", "bids", "financial", "awarded"} :
    d[field] # <<>>

pastVisitReturns ==
  /\ stack # <<>> /\ Top.left = {}
  /\ stack' = Front(stack)
  /\ result' = IF Top.opener # "start" THEN result
               ELSE [result EXCEPT ![tender] = IF pastValidate(data[tender]) THEN "ok" ELSE "error"]
  /\ UNCHANGED <<portal, tender, callbacks, visited, opened, data, corrigenda, handled>>

PastNext ==
  \/ pastExtract
  \/ \E kind \in {"more", "summary"} : alreadyHandled(kind)
  \/ setupTenderDataHandler
  \/ setupPastTenderDataHandler
  \/ pastBasicDetailsHandler
  \/ pastPaymentHandler
  \/ pastCoverHandler
  \/ pastDocumentsHandler
  \/ pastFeeHandler
  \/ pastEMDHandler
  \/ pastDatesHandler
  \/ pastWorkHandler
  \/ pastAuthorityHandler
  \/ pastFallbackHandler
  \/ pastCorrigendumHandler
  \/ extractResults
  \/ pastVisitReturns
=============================================================================
