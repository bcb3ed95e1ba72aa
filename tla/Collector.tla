------------------------------ MODULE Collector ------------------------------
(***************************************************************************)
(* What the extraction of a tender relies on in its colly collector, which *)
(* is external, and the data that its handlers fill in.                    *)
(*                                                                         *)
(* Visiting a page marks it visited, requests it and, before it returns,   *)
(* calls every handler attached at that moment for each element it matches *)
(* in the page: the ones of the body first, then those of the HTML, in     *)
(* the order they were attached.  A handler may attach and detach handlers *)
(* and visit further pages, so pages are processed inside pages: stack     *)
(* holds them, the innermost last, each with the calls it still owes.      *)
(*                                                                         *)
(* A page is a set of sections and, per kind of link, the links it lists.  *)
(* The data of a tender keeps, per section, the pages its values are from. *)
(***************************************************************************)
EXTENDS Integers, Sequences, FiniteSets, SequencesExt

CONSTANTS
  Pages,  \* the pages of the portal
  Links,  \* the tender links one session extracts, one after the other
  Sites   \* the portals considered: functions from Pages to what they hold

Tenders == 1..Len(Links)

(* The links that are followed: "View More Details", the summary of all    *)
(* stages, and the rows of the corrigendum list.                           *)
LinkKinds == {"more", "summary", "corrigendum"}

(* The sections of a page of one tender; "id" is the row of the basic      *)
(* details with the tender's ID, "text" anything in the body that the      *)
(* fallback takes for an ID and "title" the words "tender details".        *)
Sections == {"title", "text", "basic", "id", "payment", "covers", "docs", "fee", "emd", "dates",
             "work", "authority", "list_table"}

(* The sections of the page with the summary of all stages.                *)
Stages == {"bids", "stages", "financial", "awarded"}

(* What a tender has a value for.                                          *)
Fields == {"url", "basic", "id", "payment", "covers", "docs", "fee", "emd", "dates", "work",
           "authority"} \cup Stages

Handlers == {"body", "html"} \cup LinkKinds \cup Sections

ASSUME CollectorAssumption ==
  /\ Links \in Seq(Pages) /\ Links # <<>>
  /\ \A s \in Sites : \A p \in Pages :
       /\ s[p].links \in [LinkKinds -> Seq(Pages)]
       /\ s[p].shows \subseteq Sections \cup Stages
       /\ s[p].html \in BOOLEAN   \* or an attachment, which has no elements
       /\ "doc" \in DOMAIN s[p]    \* serial number and name of its document

VARIABLES
  site,          \* the portal
  skipsDetached, \* a call owed to a handler that is detached meanwhile is not made
  tender,        \* the tender whose extraction is under way, 0 before the first
  callbacks,     \* the handlers attached to its collector so far
  visited,       \* the pages the collector's store has seen
  stack,         \* the pages being processed
  opened,        \* per tender, the pages it was sent
  data,          \* per tender and field, where the values are from
  corrigenda,    \* per tender, the rows of the corrigendum list with their details
  result         \* per tender: "none" so far, "ok" or "error"

portal == <<site, skipsDetached>>
vars == <<portal, tender, callbacks, visited, stack, opened, data, corrigenda, result>>

Values == [page : Pages, by : Handlers]

TypeOK ==
  /\ site \in Sites
  /\ skipsDetached \in BOOLEAN
  /\ tender \in {0} \cup Tenders
  /\ callbacks \in Seq([on : Handlers, for : Tenders, attached : BOOLEAN])
  /\ visited \subseteq Pages
  /\ \A i \in DOMAIN stack :
       /\ stack[i].page \in opened[tender]
       /\ stack[i].opener \in {"start"} \cup LinkKinds
       /\ stack[i].left \subseteq [cb : DOMAIN callbacks, nth : Nat, link : Pages]
  /\ opened \in [Tenders -> SUBSET Pages]
  /\ data \in [Tenders -> [Fields -> Seq(Values)]]
  /\ corrigenda \in [Tenders -> Seq([link : Pages, details : Nat])]
  /\ result \in [Tenders -> {"none", "ok", "error"}]

Init ==
  /\ site \in Sites /\ skipsDetached \in BOOLEAN
  /\ tender = 0
  /\ callbacks = <<>> /\ visited = {} /\ stack = <<>>
  /\ opened = [t \in Tenders |-> {}]
  /\ data = [t \in Tenders |-> [f \in Fields |-> <<>>]]
  /\ corrigenda = [t \in Tenders |-> <<>>]
  /\ result = [t \in Tenders |-> "none"]

-----------------------------------------------------------------------------
(* Handlers and pages.                                                     *)

Attach(cbs, selectors, t) ==
  cbs \o [i \in DOMAIN selectors |-> [on |-> selectors[i], for |-> t, attached |-> TRUE]]

(* OnHTMLDetach takes away the first handler of the selector, if any.      *)
Detach(cbs, selector) ==
  LET i == SelectInSeq(cbs, LAMBDA c : c.attached /\ c.on = selector)
  IN  IF i = 0 THEN cbs ELSE [cbs EXCEPT ![i].attached = FALSE]

Once(condition, p) == IF condition THEN <<p>> ELSE <<>>

(* The elements of page p that a selector matches: one per link of its     *)
(* kind, the page itself for a section, the body or the whole document.    *)
Elements(p, on) ==
  LET shows == site[p].shows
  IN  CASE on = "body"                   -> <<p>>
        [] on \in LinkKinds /\ site[p].html -> site[p].links[on]
        [] OTHER -> Once(/\ site[p].html
                         /\ \/ on = "html"
                            \/ on \in shows
                            \/ on = "basic" /\ shows \cap {"title", "id"} # {}, p)

(* What a page owes when it arrives: a call of every handler attached, for *)
(* the nth element that it matches.                                        *)
CallsOf(p, i, on) ==
  {[cb |-> i, nth |-> n, link |-> Elements(p, on)[n]] : n \in DOMAIN Elements(p, on)}

Calls(p, cbs) ==
  UNION {CallsOf(p, i, cbs[i].on) : i \in {j \in DOMAIN cbs : cbs[j].attached}}

(* A page is marked visited before it is requested; one that is marked is  *)
(* refused, as AllowURLRevisit is not set.                                 *)
Refused(p, seen) == p \in seen

(* Visit p with cbs attached and rest below it on the stack, in an         *)
(* extraction of t whose collector has seen some pages: the page arrives.  *)
Arrives(t, p, opener, cbs, rest, seen) ==
  /\ ~Refused(p, seen)
  /\ visited' = seen \cup {p}
  /\ opened' = [opened EXCEPT ![t] = @ \cup {p}]
  /\ callbacks' = cbs
  /\ stack' = Append(rest, [page |-> p, opener |-> opener, left |-> Calls(p, cbs)])

(* Or Visit returns an error: p was visited before, or the request fails.  *)
Fails(p, cbs, rest, seen) ==
  /\ visited' = seen \cup {p}
  /\ callbacks' = cbs
  /\ stack' = rest
  /\ UNCHANGED opened

-----------------------------------------------------------------------------
(* The innermost page makes its next call.                                 *)

Top == Last(stack)

(* The calls are made in this order, of a document the body first.         *)
OfBody(c) == callbacks[c.cb].on = "body"
Precedes(c, d) ==
  \/ OfBody(c) /\ ~OfBody(d)
  \/ /\ OfBody(c) = OfBody(d)
     /\ c.cb < d.cb \/ (c.cb = d.cb /\ c.nth < d.nth)

Call == CHOOSE c \in Top.left : \A d \in Top.left \ {c} : Precedes(c, d)
Handler == callbacks[Call.cb]
Called == [stack EXCEPT ![Len(stack)].left = @ \ {Call}]

Owed == stack # <<>> /\ Top.left # {}
Skippable == skipsDetached /\ ~Handler.attached

Calling(on) == Owed /\ Handler.on = on /\ ~Skippable

(* A handler that only reads: the data of its tender gets new values.      *)
Reads(on, New(_, _)) ==
  /\ Calling(on)
  /\ stack' = Called
  /\ data' = [data EXCEPT ![Handler.for] = New(@, Top.page)]
  /\ UNCHANGED <<portal, tender, callbacks, visited, opened, corrigenda, result>>

(* Whether the library makes a call that is owed to a detached handler     *)
(* depends on its version; it does so for every call or for none.          *)
skipCall ==
  /\ Owed /\ Skippable
  /\ stack' = Called
  /\ UNCHANGED <<portal, tender, callbacks, visited, opened, data, corrigenda, result>>

-----------------------------------------------------------------------------
(* How a value that page p shows is kept: where nothing is yet, in place   *)
(* of what is there, or after it.                                          *)

Value(p, on) == <<[page |-> p, by |-> on]>>

KeepFirst(values, p, on) == IF values = <<>> THEN Value(p, on) ELSE values
KeepLast(values, p, on)  == Value(p, on)
KeepAll(values, p, on)   == values \o Value(p, on)

Shows(p, section) == section \in site[p].shows
=============================================================================
