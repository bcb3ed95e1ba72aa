----------------------------- MODULE ActivePages -----------------------------
(***************************************************************************)
(* The extraction of an active tender: ExtractSingleTender of              *)
(* src/scraper/extract/dataScraper.go and the handlers of parser.go.       *)
(*                                                                         *)
(* The scraper of a session clones its collector for every tender: the     *)
(* handlers are new, the visited pages are shared.  A section is parsed    *)
(* row by row in the code; here a page shows a section or it does not.     *)
(***************************************************************************)
EXTENDS Collector

(* A definition named X_Slip is a plausible mistake in X; no action uses   *)
(* it, it is there to show which property would notice.                    *)

Clone_KeepsHandlers == callbacks

Clone == <<>>

SetupHandlers(t) == Attach(Clone, <<"more">>, t)

ExtractSingleTender_NoError ==
  /\ stack = <<>> /\ tender < Len(Links)
  /\ tender' = tender + 1
  /\ \/ /\ Arrives(tender', Links[tender'], "start", SetupHandlers(tender'), <<>>, visited)
        /\ UNCHANGED result
     \/ /\ Fails(Links[tender'], SetupHandlers(tender'), <<>>, visited)
        /\ UNCHANGED result
  /\ UNCHANGED <<portal, data, corrigenda>>

ExtractSingleTender ==
  /\ stack = <<>> /\ tender < Len(Links)
  /\ tender' = tender + 1
  /\ \/ /\ Arrives(tender', Links[tender'], "start", SetupHandlers(tender'), <<>>, visited)
        /\ UNCHANGED result
     \/ /\ Fails(Links[tender'], SetupHandlers(tender'), <<>>, visited)
        /\ result' = [result EXCEPT ![tender'] = "error"]
  /\ UNCHANGED <<portal, data, corrigenda>>

DetailHandlers_CorrigendumFirst ==
  <<"corrigendum", "basic", "payment", "covers", "docs", "fee", "emd", "dates", "work",
    "authority", "body">>

DetailHandlers ==
  <<"basic", "payment", "covers", "docs", "fee", "emd", "dates", "work", "corrigendum",
    "authority", "body">>

navigationHandlers_StaysOn(t) == Attach(callbacks, DetailHandlers, t)

navigationHandlers(t) == Attach(Detach(callbacks, "more"), DetailHandlers, t)

(* The first link with the details is followed, with all handlers.         *)
setupNavigationHandler ==
  /\ Calling("more")
  /\ \/ Arrives(tender, Call.link, "more", navigationHandlers(Handler.for), Called, visited)
     \/ Fails(Call.link, navigationHandlers(Handler.for), Called, visited)
  /\ UNCHANGED <<portal, tender, data, corrigenda, result>>

-----------------------------------------------------------------------------
(* The sections.  Fields of the basic details, the dates, the work item    *)
(* and the authority keep their first value, those of the fees the last    *)
(* one; instruments and covers are appended, documents unless they exist.  *)

First(d, field, p, condition) ==
  IF condition THEN [d EXCEPT ![field] = KeepFirst(@, p, "basic")] ELSE d

BasicDetails(d, p) ==
  First(First(First(d, "url", p, Shows(p, "title")),
              "basic", p, Shows(p, "basic")),
        "id", p, Shows(p, "id"))

setupBasicDetailsHandler == Reads("basic", BasicDetails)

Payment(d, p) == [d EXCEPT !["payment"] = KeepAll(@, p, "payment")]
setupPaymentInstrumentsHandler == Reads("payment", Payment)

Covers(d, p) == [d EXCEPT !["covers"] = KeepAll(@, p, "covers")]
setupCoverDetailsHandler == Reads("covers", Covers)

docExists(docs, p) == \E i \in DOMAIN docs : site[docs[i].page].doc = site[p].doc

Documents(d, p) ==
  IF docExists(d["docs"], p) THEN d ELSE [d EXCEPT !["docs"] = KeepAll(@, p, "docs")]
setupTenderDocumentsHandler == Reads("docs", Documents)

TenderFee(d, p) == [d EXCEPT !["fee"] = KeepLast(@, p, "fee")]
setupTenderFeeHandler == Reads("fee", TenderFee)

EMDFee(d, p) == [d EXCEPT !["emd"] = KeepLast(@, p, "emd")]
setupEMDFeeHandler == Reads("emd", EMDFee)

CriticalDates(d, p) == [d EXCEPT !["dates"] = KeepFirst(@, p, "dates")]
setupCriticalDatesHandler == Reads("dates", CriticalDates)

WorkItem(d, p) == [d EXCEPT !["work"] = KeepFirst(@, p, "work")]
setupWorkItemHandler == Reads("work", WorkItem)

Authority(d, p) == [d EXCEPT !["authority"] = KeepFirst(@, p, "authority")]
setupTenderInvitingAuthorityHandler == Reads("authority", Authority)

(* The fallback sees the body, before any table of the page is read.       *)
Fallback(d, p) ==
  LET url == IF Shows(p, "title") THEN [d EXCEPT !["url"] = KeepFirst(@, p, "body")] ELSE d
  IN  IF Shows(p, "text") THEN [url EXCEPT !["id"] = KeepFirst(@, p, "body")] ELSE url

setupFallbackHandler == Reads("body", Fallback)

-----------------------------------------------------------------------------
(* A row of the corrigendum list is kept, a handler for the details is     *)
(* attached, the page of the row is visited and then, whether that worked  *)
(* or not, the first handler for details is detached.                      *)

WithDetailHandler(t) == Attach(callbacks, <<"list_table">>, t)

setupCorrigendumHandler ==
  /\ Calling("corrigendum")
  /\ corrigenda' = [corrigenda EXCEPT ![Handler.for] =
                      Append(@, [link |-> Call.link, details |-> 0])]
  /\ \/ Arrives(tender, Call.link, "corrigendum", WithDetailHandler(Handler.for), Called, visited)
     \/ Fails(Call.link, Detach(WithDetailHandler(Handler.for), "list_table"), Called, visited)
  /\ UNCHANGED <<portal, tender, data, result>>

(* A detail goes to the first row whose link is the page it is on.         *)
attachDetailToParent(rows, url) ==
  LET i == SelectInSeq(rows, LAMBDA row : row.link = url)
  IN  IF i = 0 THEN rows ELSE [rows EXCEPT ![i].details = @ + 1]

setupCorrigendumDetailHandler ==
  /\ Calling("list_table")
  /\ stack' = Called
  /\ corrigenda' = [corrigenda EXCEPT ![Handler.for] = attachDetailToParent(@, Top.page)]
  /\ UNCHANGED <<portal, tender, callbacks, visited, opened, data, result>>

-----------------------------------------------------------------------------
validateTenderData(d) ==
  \E field \in {"basic", "id", "dates", "work", "fee", "emd"} : d[field] # <<>>

afterVisit_KeepsHandler(opener) == callbacks

afterVisit_DropsAll(opener) == IF opener = "corrigendum" THEN Clone ELSE callbacks

(* What the handler that visited a page does next.                         *)
afterVisit(opener) ==
  IF opener = "corrigendum" THEN Detach(callbacks, "list_table") ELSE callbacks

(* A page owes no more calls: its Visit returns to the handler that called *)
(* it or, for the start page, the extraction is over.                      *)
visitReturns ==
  /\ stack # <<>> /\ Top.left = {}
  /\ stack' = Front(stack)
  /\ callbacks' = afterVisit(Top.opener)
  /\ result' = IF Top.opener # "start" THEN result
               ELSE [result EXCEPT ![tender] =
                       IF validateTenderData(data[tender]) THEN "ok" ELSE "error"]
  /\ UNCHANGED <<portal, tender, visited, opened, data, corrigenda>>

ActiveNext ==
  \/ ExtractSingleTender
  \/ setupNavigationHandler
  \/ setupBasicDetailsHandler
  \/ setupPaymentInstrumentsHandler
  \/ setupCoverDetailsHandler
  \/ setupTenderDocumentsHandler
  \/ setupTenderFeeHandler
  \/ setupEMDFeeHandler
  \/ setupCriticalDatesHandler
  \/ setupWorkItemHandler
  \/ setupTenderInvitingAuthorityHandler
  \/ setupFallbackHandler
  \/ setupCorrigendumHandler
  \/ setupCorrigendumDetailHandler
  \/ skipCall
  \/ visitReturns
=============================================================================
