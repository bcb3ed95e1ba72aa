--------------------------- MODULE TenderPagesProofs ---------------------------
(***************************************************************************)
(* What of the pages of a portal ends in the data of which tender, for any *)
(* portal, any list of tenders and any links between the pages.            *)
(***************************************************************************)
EXTENDS TenderPages, FiniteSetTheorems, FunctionTheorems, SequenceTheorems, WellFoundedInduction, TLAPS

(***************************************************************************)
(* The helpers of the model.                                               *)
(***************************************************************************)
HandlerRec == [on : Handlers, for : Tenders, attached : BOOLEAN]
CallRec == [cb : Nat \ {0}, nth : Nat, link : Pages]
Openers == {"start"} \cup LinkKinds
Frame == [page : Pages, opener : Openers, left : SUBSET CallRec]

(* A set of naturals that is not empty has a least member. *)
LEMMA Least ==
  ASSUME NEW S, S \subseteq Nat, S # {}
  PROVE  \E m \in S : \A x \in S : m <= x
<1>1. PICK m \in S : \A x \in S : <<x, m>> \notin OpToRel(<, Nat)
  BY WFMin, NatLessThanWellFounded
<1>2. ASSUME NEW x \in S PROVE m <= x
  <2>1. x \in Nat /\ m \in Nat
    OBVIOUS
  <2>2. <<x, m>> \in Nat \X Nat /\ <<x, m>>[1] = x /\ <<x, m>>[2] = m
    BY <2>1
  <2>3. x < m => <<x, m>> \in OpToRel(<, Nat)
    BY <2>2, Zenon DEF OpToRel
  <2>4. ~(x < m)
    BY <1>1, <2>3, Zenon
  <2> QED
    BY <2>1, <2>4
<1> QED
  BY <1>2

(* The elements of a page that a selector matches are pages: the links of  *)
(* its kind, or the page itself, once.                                     *)
LEMMA ElementsFacts ==
  ASSUME site \in Sites, NEW p \in Pages, NEW on \in Handlers
  PROVE  /\ Elements(p, on) \in Seq(Pages)
         /\ on = "body" => Elements(p, on) = <<p>>
         /\ on \in LinkKinds => Elements(p, on) = IF site[p].html THEN site[p].links[on] ELSE <<>>
         /\ on \notin LinkKinds => Elements(p, on) \in {<<>>, <<p>>}
         /\ on \notin LinkKinds \cup {"body", "html", "basic"} =>
              Elements(p, on) = IF site[p].html /\ Shows(p, on) THEN <<p>> ELSE <<>>
         /\ Shows(p, "basic") /\ site[p].html => Elements(p, "basic") = <<p>>
         /\ Shows(p, "id") /\ site[p].html => Elements(p, "basic") = <<p>>
         /\ site[p].html => Elements(p, "html") = <<p>>
         /\ on \notin LinkKinds \cup {"body"} /\ Elements(p, on) # <<>> => site[p].html
<1>1. site[p].links \in [LinkKinds -> Seq(Pages)] /\ site[p].html \in BOOLEAN
  BY CollectorAssumption
<1>2. "body" \notin LinkKinds /\ "basic" \notin LinkKinds /\ "html" \notin LinkKinds
  BY DEF LinkKinds
<1>3. CASE on = "body"
  BY <1>1, <1>2, <1>3 DEF Elements, Once, Shows
<1>4. CASE on \in LinkKinds
  BY <1>1, <1>2, <1>4 DEF Elements, Once, Shows, LinkKinds
<1>5. CASE on \notin LinkKinds \cup {"body"}
  BY <1>1, <1>2, <1>5 DEF Elements, Once, Shows, LinkKinds
<1> QED
  BY <1>3, <1>4, <1>5

(* Attaching puts the new handlers after the ones there are. *)
LEMMA AttachFacts ==
  ASSUME NEW cbs \in Seq(HandlerRec), NEW sel \in Seq(Handlers), NEW t \in Tenders
  PROVE  /\ Attach(cbs, sel, t) \in Seq(HandlerRec)
         /\ Len(Attach(cbs, sel, t)) = Len(cbs) + Len(sel)
         /\ \A i \in DOMAIN cbs : Attach(cbs, sel, t)[i] = cbs[i]
         /\ \A i \in DOMAIN sel : Attach(cbs, sel, t)[Len(cbs) + i] =
                                    [on |-> sel[i], for |-> t, attached |-> TRUE]
<1> DEFINE new == [i \in DOMAIN sel |-> [on |-> sel[i], for |-> t, attached |-> TRUE]]
<1>1. DOMAIN sel = 1 .. Len(sel) /\ Len(sel) \in Nat /\ \A i \in DOMAIN sel : sel[i] \in Handlers
  OBVIOUS
<1>2. new \in Seq(HandlerRec) /\ Len(new) = Len(sel)
  <2>1. new \in [1 .. Len(sel) -> HandlerRec]
    BY <1>1 DEF HandlerRec
  <2> QED
    BY <1>1, <2>1
<1>3. \A i \in DOMAIN sel : new[i] = [on |-> sel[i], for |-> t, attached |-> TRUE]
  OBVIOUS
<1>4. Attach(cbs, sel, t) = cbs \o new
  BY DEF Attach
<1> HIDE DEF new
<1>5. /\ cbs \o new \in Seq(HandlerRec) /\ Len(cbs \o new) = Len(cbs) + Len(new)
      /\ \A i \in 1 .. Len(cbs) : (cbs \o new)[i] = cbs[i]
  BY <1>2
<1>6. ASSUME NEW i \in DOMAIN sel PROVE (cbs \o new)[Len(cbs) + i] = new[i]
  BY <1>1, <1>2
<1> QED
  BY <1>1, <1>2, <1>3, <1>4, <1>5, <1>6

(* Detaching takes the first attached handler of the selector out, if any. *)
LEMMA DetachFacts ==
  ASSUME NEW cbs \in Seq(HandlerRec), NEW sel \in Handlers
  PROVE  /\ Detach(cbs, sel) \in Seq(HandlerRec)
         /\ Len(Detach(cbs, sel)) = Len(cbs)
         /\ \/ /\ Detach(cbs, sel) = cbs
               /\ \A i \in DOMAIN cbs : ~ (cbs[i].attached /\ cbs[i].on = sel)
            \/ \E i \in DOMAIN cbs :
                 /\ cbs[i].attached /\ cbs[i].on = sel
                 /\ Detach(cbs, sel) = [cbs EXCEPT ![i].attached = FALSE]
                 /\ \A j \in DOMAIN cbs : cbs[j].attached /\ cbs[j].on = sel => i <= j
<1> DEFINE Is == {i \in 1 .. Len(cbs) : cbs[i].attached /\ cbs[i].on = sel}
<1>0. DOMAIN cbs = 1 .. Len(cbs) /\ Len(cbs) \in Nat /\ \A i \in DOMAIN cbs : cbs[i] \in HandlerRec
  OBVIOUS
<1>1. CASE Is = {}
  <2>1. Detach(cbs, sel) = cbs
    BY <1>1 DEF Detach, SelectInSeq
  <2>2. \A i \in DOMAIN cbs : ~ (cbs[i].attached /\ cbs[i].on = sel)
    BY <1>0, <1>1
  <2> QED
    BY <2>1, <2>2
<1>2. CASE Is # {}
  <2>1. PICK m \in Is : \A x \in Is : m <= x
    <3>1. Is \subseteq Nat
      OBVIOUS
    <3> HIDE DEF Is
    <3> QED
      BY <1>2, <3>1, Least
  <2>2. Min(Is) \in Is /\ \A x \in Is : Min(Is) <= x
    BY <2>1 DEF Min
  <2>3. Min(Is) # 0 /\ Min(Is) \in DOMAIN cbs
    BY <2>2
  <2>4. Detach(cbs, sel) = [cbs EXCEPT ![Min(Is)].attached = FALSE]
    BY <1>2, <2>3 DEF Detach, SelectInSeq
  <2> DEFINE k == Min(Is)
  <2>5. cbs[k].attached /\ cbs[k].on = sel /\ \A x \in DOMAIN cbs : cbs[x].attached /\ cbs[x].on = sel => k <= x
    BY <1>0, <2>2
  <2> HIDE DEF k, Is
  <2>6. k \in DOMAIN cbs /\ Detach(cbs, sel) = [cbs EXCEPT ![k].attached = FALSE]
    BY <2>3, <2>4 DEF k
  <2>7. [cbs[k] EXCEPT !.attached = FALSE] \in HandlerRec
    BY <1>0, <2>6 DEF HandlerRec
  <2>8. [cbs EXCEPT ![k].attached = FALSE] \in Seq(HandlerRec) /\ Len([cbs EXCEPT ![k].attached = FALSE]) = Len(cbs)
    BY <1>0, <2>6, <2>7
  <2> QED
    BY <2>5, <2>6, <2>8
<1> QED
  BY <1>1, <1>2

LEMMA DetachOne ==
  ASSUME NEW cbs \in Seq(HandlerRec), NEW sel \in Handlers
  PROVE  \/ Detach(cbs, sel) = cbs
         \/ \E i \in DOMAIN cbs : cbs[i].on = sel /\ Detach(cbs, sel) = [cbs EXCEPT ![i].attached = FALSE]
<1> SUFFICES ASSUME Detach(cbs, sel) # cbs
             PROVE  \E i \in DOMAIN cbs : cbs[i].on = sel /\ Detach(cbs, sel) = [cbs EXCEPT ![i].attached = FALSE]
  OBVIOUS
<1>1. \E i \in DOMAIN cbs :
         /\ cbs[i].attached /\ cbs[i].on = sel
         /\ Detach(cbs, sel) = [cbs EXCEPT ![i].attached = FALSE]
         /\ \A j \in DOMAIN cbs : cbs[j].attached /\ cbs[j].on = sel => i <= j
  BY DetachFacts, Zenon
<1> QED
  BY <1>1, Zenon

(***************************************************************************)
(* The invariant, part by part.                                            *)
(***************************************************************************)
Types ==
  /\ site \in Sites /\ skipsDetached \in BOOLEAN
  /\ tender \in {0} \cup Tenders
  /\ callbacks \in Seq(HandlerRec)
  /\ visited \subseteq Pages
  /\ stack \in Seq(Frame)
  /\ opened \in [Tenders -> SUBSET Pages]
  /\ data \in [Tenders -> [Fields -> Seq(Values)]]
  /\ corrigenda \in [Tenders -> Seq([link : Pages, details : Nat])]
  /\ result \in [Tenders -> {"none", "ok", "error"}]
  /\ handled \subseteq {"more", "summary"}
  /\ flow \in {"active", "past"}

(* The handlers attached are those of the tender under way. *)
HandlersInv == \A i \in DOMAIN callbacks : callbacks[i].for = tender

(* A call that page p owes is one of a handler, for an element of p. *)
Owes(p, c) ==
  LET on == callbacks[c.cb].on
  IN  /\ c.cb \in DOMAIN callbacks
      /\ c.nth \in DOMAIN Elements(p, on)
      /\ c.link = Elements(p, on)[c.nth]

(* The pages being processed are different ones of the tender under way,   *)
(* the start page outermost; it owes only calls of the handlers that       *)
(* follow the links to the details and the summary.                        *)
FramesInv ==
  stack # <<>> =>
    /\ tender \in Tenders
    /\ stack[1].page = Links[tender]
    /\ \A c \in stack[1].left : callbacks[c.cb].on \in {"more", "summary"}
    /\ \A i \in DOMAIN stack :
         /\ stack[i].page \in opened[tender] \cap visited
         /\ stack[i].opener = "start" <=> i = 1
         /\ \A c \in stack[i].left : Owes(stack[i].page, c)
         /\ \A j \in DOMAIN stack : stack[i].page = stack[j].page => i = j

(* What a tender that is not under way yet has.                            *)
Fresh(t) ==
  /\ opened[t] = {}
  /\ data[t] = [f \in Fields |-> <<>>]
  /\ corrigenda[t] = <<>>
  /\ result[t] = "none"

OpenedInv ==
  /\ \A t \in Tenders : t > tender => Fresh(t)
  /\ flow = "active" => \A t \in Tenders : opened[t] \subseteq visited

OwnInv == Types /\ HandlersInv /\ FramesInv /\ OpenedInv /\ OwnPages

-----------------------------------------------------------------------------
(* What a page owes when it arrives.                                       *)
LEMMA CallsFacts ==
  ASSUME site \in Sites, NEW p \in Pages, NEW cbs \in Seq(HandlerRec)
  PROVE  /\ \A c \in Calls(p, cbs) :
              /\ c \in CallRec
              /\ c.cb \in DOMAIN cbs /\ cbs[c.cb].attached
              /\ c.nth \in DOMAIN Elements(p, cbs[c.cb].on)
              /\ c.link = Elements(p, cbs[c.cb].on)[c.nth]
         /\ \A i \in DOMAIN cbs : \A n \in DOMAIN Elements(p, cbs[i].on) :
              cbs[i].attached =>
                [cb |-> i, nth |-> n, link |-> Elements(p, cbs[i].on)[n]] \in Calls(p, cbs)
<1>1. \A i \in DOMAIN cbs : i \in Nat \ {0} /\ cbs[i] \in HandlerRec /\ cbs[i].on \in Handlers
  <2>1. \A i \in DOMAIN cbs : cbs[i] \in HandlerRec /\ i \in 1 .. Len(cbs)
    OBVIOUS
  <2> QED
    BY <2>1 DEF HandlerRec
<1>2. ASSUME NEW c \in Calls(p, cbs)
      PROVE  /\ c \in CallRec
             /\ c.cb \in DOMAIN cbs /\ cbs[c.cb].attached
             /\ c.nth \in DOMAIN Elements(p, cbs[c.cb].on)
             /\ c.link = Elements(p, cbs[c.cb].on)[c.nth]
  <2>1. PICK i \in DOMAIN cbs : cbs[i].attached /\ c \in CallsOf(p, i, cbs[i].on)
    BY DEF Calls
  <2>2. PICK n \in DOMAIN Elements(p, cbs[i].on) :
          c = [cb |-> i, nth |-> n, link |-> Elements(p, cbs[i].on)[n]]
    BY <2>1 DEF CallsOf
  <2>3. Elements(p, cbs[i].on) \in Seq(Pages)
    BY <1>1, ElementsFacts
  <2>4. n \in Nat /\ Elements(p, cbs[i].on)[n] \in Pages
    BY <2>3
  <2> QED
    BY <1>1, <2>1, <2>2, <2>4 DEF CallRec
<1>3. ASSUME NEW i \in DOMAIN cbs, NEW n \in DOMAIN Elements(p, cbs[i].on), cbs[i].attached
      PROVE  [cb |-> i, nth |-> n, link |-> Elements(p, cbs[i].on)[n]] \in Calls(p, cbs)
  <2>1. [cb |-> i, nth |-> n, link |-> Elements(p, cbs[i].on)[n]] \in CallsOf(p, i, cbs[i].on)
    BY DEF CallsOf
  <2>2. i \in {j \in DOMAIN cbs : cbs[j].attached}
    BY <1>3
  <2> QED
    BY <2>1, <2>2 DEF Calls
<1> QED
  BY <1>2, <1>3

(* Among the calls a page owes one is before all others. *)
LEMMA FirstCall ==
  ASSUME Types, NEW p \in Pages, NEW S, S \subseteq CallRec, S # {}, \A c \in S : Owes(p, c)
  PROVE  \E c \in S : \A d \in S \ {c} : Precedes(c, d)
<1> DEFINE B == {c \in S : OfBody(c)}
           T == IF B # {} THEN B ELSE S
           CBs == {c.cb : c \in T}
<1>0. \A c \in S : c.cb \in Nat /\ c.nth \in Nat
  BY DEF CallRec
<1>1. T # {} /\ T \subseteq S
  OBVIOUS
<1>2. \A c \in T : \A d \in S : d \notin T => OfBody(c) /\ ~OfBody(d)
  OBVIOUS
<1>3. \A c, d \in T : OfBody(c) <=> OfBody(d)
  OBVIOUS
<1> HIDE DEF T, B
<1>4. PICK m \in CBs : \A x \in CBs : m <= x
  <2>1. CBs \subseteq Nat /\ CBs # {}
    BY <1>0, <1>1
  <2> HIDE DEF CBs
  <2> QED
    BY <2>1, Least
<1> DEFINE Ns == {c.nth : c \in {d \in T : d.cb = m}}
<1>5. PICK n \in Ns : \A x \in Ns : n <= x
  <2>1. Ns \subseteq Nat /\ Ns # {}
    BY <1>0, <1>1, <1>4
  <2> HIDE DEF CBs, Ns
  <2> QED
    BY <2>1, Least
<1>6. PICK c \in T : c.cb = m /\ c.nth = n
  BY <1>5
<1>7. ASSUME NEW d \in S \ {c} PROVE Precedes(c, d)
  <2>1. CASE d \notin T
    BY <1>2, <1>6, <2>1 DEF Precedes
  <2>2. CASE d \in T
    <3>1. m <= d.cb /\ (d.cb = m => n <= d.nth)
      BY <1>4, <1>5, <2>2
    <3>2. ~(d.cb = m /\ d.nth = n)
      <4> SUFFICES ASSUME d.cb = m, d.nth = n PROVE d = c
        OBVIOUS
      <4>1. Owes(p, c) /\ Owes(p, d)
        BY <1>1, <1>6
      <4>2. c.link = d.link
        BY <1>6, <4>1 DEF Owes
      <4>3. c \in CallRec /\ d \in CallRec
        BY <1>1, <1>6
      <4> QED
        BY <1>6, <4>2, <4>3 DEF CallRec
    <3>3. OfBody(c) = OfBody(d)
      <4>1. OfBody(c) <=> OfBody(d)
        BY <1>3, <1>6, <2>2
      <4> QED
        BY <4>1 DEF OfBody
    <3>4. c.cb = m /\ c.nth = n /\ d.cb \in Nat /\ d.nth \in Nat /\ m \in Nat /\ n \in Nat
      BY <1>0, <1>1, <1>6, <2>2
    <3>5. m < d.cb \/ (m = d.cb /\ n < d.nth)
      BY <3>1, <3>2, <3>4
    <3> QED
      BY <3>3, <3>4, <3>5 DEF Precedes
  <2> QED
    BY <2>1, <2>2
<1> QED
  BY <1>1, <1>6, <1>7

(* The call that is made next. *)
LEMMA CallFacts ==
  ASSUME Types, FramesInv, Owed
  PROVE  /\ tender \in Tenders
         /\ Len(stack) \in Nat \ {0} /\ Len(stack) \in DOMAIN stack
         /\ Top = stack[Len(stack)] /\ Top \in Frame
         /\ Call \in Top.left /\ Call \in CallRec /\ Call.link \in Pages
         /\ \A d \in Top.left \ {Call} : Precedes(Call, d)
         /\ Owes(Top.page, Call)
         /\ Handler \in HandlerRec
<1>1. stack \in Seq(Frame) /\ stack # <<>> /\ Top.left # {}
  BY DEF Types, Owed
<1>2. Len(stack) \in Nat \ {0} /\ Len(stack) \in DOMAIN stack
  BY <1>1
<1>3. Top = stack[Len(stack)] /\ Top \in Frame
  BY <1>1, <1>2 DEF Top, Last
<1>4. \A c \in Top.left : c \in CallRec /\ Owes(Top.page, c)
  BY <1>1, <1>2, <1>3 DEF FramesInv, Frame
<1>5. Top.page \in Pages /\ Top.left \subseteq CallRec
  BY <1>3 DEF Frame
<1>6. Call \in Top.left /\ \A d \in Top.left \ {Call} : Precedes(Call, d)
  <2>1. \E c \in Top.left : \A d \in Top.left \ {c} : Precedes(c, d)
    BY <1>1, <1>4, <1>5, FirstCall
  <2> QED
    BY <2>1 DEF Call
<1>7. Call \in CallRec /\ Call.link \in Pages /\ Owes(Top.page, Call)
  BY <1>4, <1>6 DEF CallRec
<1>8. Handler \in HandlerRec
  BY <1>7 DEF Types, Owes, Handler
<1> QED
  BY <1>1, <1>2, <1>3, <1>6, <1>7, <1>8 DEF FramesInv

LEMMA CalledFacts ==
  ASSUME Types, FramesInv, Owed
  PROVE  /\ Called \in Seq(Frame) /\ Len(Called) = Len(stack)
         /\ \A i \in DOMAIN stack :
              /\ Called[i].page = stack[i].page /\ Called[i].opener = stack[i].opener
              /\ Called[i].left = IF i = Len(stack) THEN Top.left \ {Call} ELSE stack[i].left
<1>1. /\ stack \in Seq(Frame) /\ Len(stack) \in DOMAIN stack
      /\ Top = stack[Len(stack)] /\ Top \in Frame
  BY CallFacts DEF Types
<1>2. Called = [stack EXCEPT ![Len(stack)] = [Top EXCEPT !.left = @ \ {Call}]]
  BY <1>1 DEF Called
<1> DEFINE f == [Top EXCEPT !.left = @ \ {Call}]
<1>3. f \in Frame /\ f.page = Top.page /\ f.opener = Top.opener /\ f.left = Top.left \ {Call}
  BY <1>1 DEF Frame
<1> HIDE DEF f
<1>4. Called = [stack EXCEPT ![Len(stack)] = f]
  BY <1>2 DEF f
<1>5. Called \in Seq(Frame) /\ Len(Called) = Len(stack)
  BY <1>1, <1>3, <1>4
<1>6. \A i \in DOMAIN stack : Called[i] = IF i = Len(stack) THEN f ELSE stack[i]
  BY <1>1, <1>4
<1> QED
  BY <1>1, <1>3, <1>5, <1>6

LEMMA FrontFacts ==
  ASSUME stack \in Seq(Frame), stack # <<>>
  PROVE  /\ Front(stack) \in Seq(Frame) /\ Len(Front(stack)) = Len(stack) - 1
         /\ \A i \in DOMAIN Front(stack) : i \in DOMAIN stack /\ i < Len(stack) /\ Front(stack)[i] = stack[i]
<1>1. Len(stack) \in Nat \ {0}
  OBVIOUS
<1>2. Front(stack) = SubSeq(stack, 1, Len(stack) - 1)
  BY DEF Front
<1>3. SubSeq(stack, 1, Len(stack) - 1) = [i \in 1 .. Len(stack) - 1 |-> stack[i]]
  BY <1>1
<1>4. \A i \in 1 .. Len(stack) - 1 : i \in DOMAIN stack /\ i < Len(stack) /\ stack[i] \in Frame
  BY <1>1
<1> DEFINE f == [i \in 1 .. Len(stack) - 1 |-> stack[i]]
<1>5. f \in Seq(Frame) /\ Len(f) = Len(stack) - 1 /\ DOMAIN f = 1 .. Len(stack) - 1
  <2>1. f \in [1 .. Len(stack) - 1 -> Frame]
    BY <1>4
  <2> QED
    BY <1>1, <2>1
<1> QED
  BY <1>2, <1>3, <1>4, <1>5

-----------------------------------------------------------------------------
(* What the handlers that read do to the data of their tender.             *)
Readers == {"basic", "payment", "covers", "docs", "fee", "emd", "dates", "work", "authority",
            "body", "html"}

(* A call of handler on for page p sets field f unless it has a value. *)
Sets(on, f, p) ==
  \/ on = f /\ (f = "basic" => Shows(p, "basic"))
  \/ f = "id" /\ on = "basic" /\ Shows(p, "id")
  \/ f = "id" /\ on = "body" /\ Shows(p, "text")

ReadEffect(on, d, e, p) ==
  /\ e \in [Fields -> Seq(Values)]
  /\ \A f \in Fields : e[f] = d[f] \/ e[f] = Value(p, on) \/ e[f] = d[f] \o Value(p, on)
  /\ \A f \in {"payment", "covers"} :
       e[f] = IF on = f THEN d[f] \o Value(p, on) ELSE d[f]
  /\ \A f \in {"bids", "financial", "awarded"} :
       e[f] = IF on = "html" /\ Shows(p, f) THEN d[f] \o Value(p, on) ELSE d[f]
  /\ \A f \in {"basic", "dates", "work", "id"} :
       e[f] = IF Sets(on, f, p) THEN KeepFirst(d[f], p, on) ELSE d[f]

Reading(on) ==
  /\ on \in Readers
  /\ Calling(on)
  /\ stack' = Called
  /\ \E e : /\ ReadEffect(on, data[Handler.for], e, Top.page)
            /\ data' = [data EXCEPT ![Handler.for] = e]
  /\ UNCHANGED <<portal, tender, callbacks, visited, opened, corrigenda, result, handled, flow>>

LEMMA ValueType ==
  ASSUME NEW p \in Pages, NEW on \in Handlers
  PROVE  Value(p, on) \in Seq(Values) /\ Len(Value(p, on)) = 1
         /\ Value(p, on)[1] = [page |-> p, by |-> on]
  BY DEF Value, Values

LEMMA KeepCases ==
  ASSUME NEW s, NEW p, NEW on
  PROVE  /\ KeepFirst(s, p, on) = s \/ KeepFirst(s, p, on) = Value(p, on)
         /\ KeepLast(s, p, on) = Value(p, on)
         /\ KeepAll(s, p, on) = s \o Value(p, on)
  BY DEF KeepFirst, KeepLast, KeepAll

(* The handlers of a section of their own. *)
LEMMA OneField ==
  ASSUME NEW d \in [Fields -> Seq(Values)], NEW p \in Pages,
         NEW on \in Readers \ {"basic", "body", "html"},
         NEW v, v = d[on] \/ v = Value(p, on) \/ v = d[on] \o Value(p, on),
         on \in {"payment", "covers"} => v = d[on] \o Value(p, on),
         on \in {"dates", "work"} => v = KeepFirst(d[on], p, on),
         NEW e, e = [d EXCEPT ![on] = v]
  PROVE  ReadEffect(on, d, e, p)
<1>1. on \in Fields
  BY DEF Readers, Fields
<1>2. /\ e \in [Fields -> Seq(Values)]
      /\ \A g \in Fields : e[g] = d[g] \/ e[g] = Value(p, on) \/ e[g] = d[g] \o Value(p, on)
      /\ \A g \in Fields : e[g] = IF g = on THEN v ELSE d[g]
  <2>1. on \in Handlers
    BY DEF Readers, Handlers, Sections
  <2>2. Value(p, on) \in Seq(Values) /\ d[on] \in Seq(Values)
    BY <1>1, <2>1, ValueType
  <2>3. d[on] \o Value(p, on) \in Seq(Values)
    BY <2>2
  <2>4. v \in Seq(Values)
    BY <2>2, <2>3
  <2> QED
    BY <1>1, <2>4
<1>3. {"payment", "covers", "bids", "financial", "awarded", "basic", "dates", "work", "id"} \subseteq Fields
  BY DEF Fields, Stages
<1>4. on \notin {"bids", "financial", "awarded", "html", "body", "basic", "id"}
  BY DEF Readers
<1>5. \A f \in {"payment", "covers"} : e[f] = IF on = f THEN d[f] \o Value(p, on) ELSE d[f]
  BY <1>2, <1>3
<1>6. \A f \in {"bids", "financial", "awarded"} :
         e[f] = IF on = "html" /\ Shows(p, f) THEN d[f] \o Value(p, on) ELSE d[f]
  BY <1>2, <1>3, <1>4
<1>7. \A f \in {"basic", "dates", "work", "id"} :
         e[f] = IF Sets(on, f, p) THEN KeepFirst(d[f], p, on) ELSE d[f]
  BY <1>2, <1>3, <1>4 DEF Sets
<1> QED
  BY <1>2, <1>5, <1>6, <1>7 DEF ReadEffect

LEMMA SectionEffects ==
  ASSUME NEW d \in [Fields -> Seq(Values)], NEW p \in Pages
  PROVE  /\ ReadEffect("payment", d, Payment(d, p), p)
         /\ ReadEffect("covers", d, Covers(d, p), p)
         /\ ReadEffect("docs", d, Documents(d, p), p)
         /\ ReadEffect("fee", d, TenderFee(d, p), p)
         /\ ReadEffect("emd", d, EMDFee(d, p), p)
         /\ ReadEffect("dates", d, CriticalDates(d, p), p)
         /\ ReadEffect("work", d, WorkItem(d, p), p)
         /\ ReadEffect("authority", d, Authority(d, p), p)
<1> DEFINE Own == {"payment", "covers", "docs", "fee", "emd", "dates", "work", "authority"}
<1>1. Own \subseteq Readers \ {"basic", "body", "html"}
  BY DEF Readers
<1>2. ReadEffect("payment", d, Payment(d, p), p)
  <2>1. "payment" \in Readers \ {"basic", "body", "html"}
    BY <1>1
  <2>2. KeepAll(d["payment"], p, "payment") = d["payment"] \o Value(p, "payment")
    BY KeepCases
  <2>3. Payment(d, p) = [d EXCEPT !["payment"] = KeepAll(d["payment"], p, "payment")]
    BY DEF Payment
  <2> QED
    BY <2>1, <2>2, <2>3, OneField
<1>3. ReadEffect("covers", d, Covers(d, p), p)
  <2>1. "covers" \in Readers \ {"basic", "body", "html"}
    BY <1>1
  <2>2. KeepAll(d["covers"], p, "covers") = d["covers"] \o Value(p, "covers")
    BY KeepCases
  <2>3. Covers(d, p) = [d EXCEPT !["covers"] = KeepAll(d["covers"], p, "covers")]
    BY DEF Covers
  <2> QED
    BY <2>1, <2>2, <2>3, OneField
<1>5. ReadEffect("fee", d, TenderFee(d, p), p)
  <2>1. "fee" \in Readers \ {"basic", "body", "html"}
    BY <1>1
  <2>2. KeepLast(d["fee"], p, "fee") = Value(p, "fee")
    BY KeepCases
  <2>3. TenderFee(d, p) = [d EXCEPT !["fee"] = KeepLast(d["fee"], p, "fee")]
    BY DEF TenderFee
  <2> QED
    BY <2>1, <2>2, <2>3, OneField
<1>6. ReadEffect("emd", d, EMDFee(d, p), p)
  <2>1. "emd" \in Readers \ {"basic", "body", "html"}
    BY <1>1
  <2>2. KeepLast(d["emd"], p, "emd") = Value(p, "emd")
    BY KeepCases
  <2>3. EMDFee(d, p) = [d EXCEPT !["emd"] = KeepLast(d["emd"], p, "emd")]
    BY DEF EMDFee
  <2> QED
    BY <2>1, <2>2, <2>3, OneField
<1>7. ReadEffect("dates", d, CriticalDates(d, p), p)
  <2>1. "dates" \in Readers \ {"basic", "body", "html"}
    BY <1>1
  <2>2. KeepFirst(d["dates"], p, "dates") = d["dates"] \/ KeepFirst(d["dates"], p, "dates") = Value(p, "dates")
    BY KeepCases
  <2>3. CriticalDates(d, p) = [d EXCEPT !["dates"] = KeepFirst(d["dates"], p, "dates")]
    BY DEF CriticalDates
  <2> QED
    BY <2>1, <2>2, <2>3, OneField
<1>8. ReadEffect("work", d, WorkItem(d, p), p)
  <2>1. "work" \in Readers \ {"basic", "body", "html"}
    BY <1>1
  <2>2. KeepFirst(d["work"], p, "work") = d["work"] \/ KeepFirst(d["work"], p, "work") = Value(p, "work")
    BY KeepCases
  <2>3. WorkItem(d, p) = [d EXCEPT !["work"] = KeepFirst(d["work"], p, "work")]
    BY DEF WorkItem
  <2> QED
    BY <2>1, <2>2, <2>3, OneField
<1>9. ReadEffect("authority", d, Authority(d, p), p)
  <2>1. "authority" \in Readers \ {"basic", "body", "html"}
    BY <1>1
  <2>2. KeepFirst(d["authority"], p, "authority") = d["authority"] \/ KeepFirst(d["authority"], p, "authority") = Value(p, "authority")
    BY KeepCases
  <2>3. Authority(d, p) = [d EXCEPT !["authority"] = KeepFirst(d["authority"], p, "authority")]
    BY DEF Authority
  <2> QED
    BY <2>1, <2>2, <2>3, OneField
<1>4. ReadEffect("docs", d, Documents(d, p), p)
  <2>1. "docs" \in Readers \ {"basic", "body", "html"} /\ "docs" \in Fields
    BY <1>1 DEF Fields
  <2>2. KeepAll(d["docs"], p, "docs") = d["docs"] \o Value(p, "docs")
    BY KeepCases
  <2>3. ReadEffect("docs", d, [d EXCEPT !["docs"] = d["docs"] \o Value(p, "docs")], p)
    BY <2>1, OneField
  <2>4. ReadEffect("docs", d, [d EXCEPT !["docs"] = d["docs"]], p)
    BY <2>1, OneField
  <2>5. [d EXCEPT !["docs"] = d["docs"]] = d
    BY <2>1
  <2> QED
    BY <2>2, <2>3, <2>4, <2>5 DEF Documents
<1> QED
  BY <1>2, <1>3, <1>4, <1>5, <1>6, <1>7, <1>8, <1>9

(* The handlers that set several fields. *)
LEMMA KeptType ==
  ASSUME NEW d \in [Fields -> Seq(Values)], NEW p \in Pages, NEW on \in Readers, NEW f \in Fields
  PROVE  /\ KeepFirst(d[f], p, on) \in Seq(Values)
         /\ KeepLast(d[f], p, on) \in Seq(Values)
         /\ KeepAll(d[f], p, on) \in Seq(Values)
<1>1. on \in Handlers
  BY DEF Readers, Handlers, Sections
<1>2. Value(p, on) \in Seq(Values) /\ d[f] \in Seq(Values)
  BY <1>1, ValueType
<1>3. d[f] \o Value(p, on) \in Seq(Values)
  BY <1>2
<1> QED
  BY <1>2, <1>3 DEF KeepFirst, KeepLast, KeepAll

LEMMA BasicEffect ==
  ASSUME NEW d \in [Fields -> Seq(Values)], NEW p \in Pages
  PROVE  ReadEffect("basic", d, BasicDetails(d, p), p)
<1> DEFINE d1 == First(d, "url", p, Shows(p, "title"))
           d2 == First(d1, "basic", p, Shows(p, "basic"))
           d3 == First(d2, "id", p, Shows(p, "id"))
<1>0. \A f \in Fields : KeepFirst(d[f], p, "basic") \in Seq(Values)
  BY KeptType DEF Readers
<1>1. {"url", "payment", "covers", "bids", "financial", "awarded", "basic", "dates", "work", "id"} \subseteq Fields
  BY DEF Fields, Stages
<1>2. /\ d1 \in [Fields -> Seq(Values)]
      /\ \A g \in Fields : d1[g] =
              IF g = "url" /\ Shows(p, "title") THEN KeepFirst(d[g], p, "basic") ELSE d[g]
  BY <1>1, <1>0 DEF First
<1> HIDE DEF d1
<1>3. /\ d2 \in [Fields -> Seq(Values)]
      /\ \A g \in Fields : d2[g] =
              IF g = "basic" /\ Shows(p, "basic") THEN KeepFirst(d1[g], p, "basic") ELSE d1[g]
  BY <1>0, <1>1, <1>2 DEF First
<1> HIDE DEF d2
<1>4. /\ d3 \in [Fields -> Seq(Values)]
      /\ \A g \in Fields : d3[g] =
              IF g = "id" /\ Shows(p, "id") THEN KeepFirst(d2[g], p, "basic") ELSE d2[g]
  BY <1>0, <1>1, <1>2, <1>3 DEF First
<1> HIDE DEF d3
<1>5. \A g \in Fields : d3[g] =
        IF \/ g = "url" /\ Shows(p, "title")
           \/ g = "basic" /\ Shows(p, "basic")
           \/ g = "id" /\ Shows(p, "id")
        THEN KeepFirst(d[g], p, "basic") ELSE d[g]
  BY <1>2, <1>3, <1>4
<1>6. \A g \in Fields : d3[g] = d[g] \/ d3[g] = Value(p, "basic")
  BY <1>5, KeepCases
<1>7. \A f \in {"basic", "dates", "work", "id"} :
         d3[f] = IF Sets("basic", f, p) THEN KeepFirst(d[f], p, "basic") ELSE d[f]
  BY <1>1, <1>5 DEF Sets
<1>8. ReadEffect("basic", d, d3, p)
  BY <1>1, <1>4, <1>5, <1>6, <1>7 DEF ReadEffect
<1> QED
  BY <1>8 DEF BasicDetails, d1, d2, d3

LEMMA FallbackEffect ==
  ASSUME NEW d \in [Fields -> Seq(Values)], NEW p \in Pages
  PROVE  ReadEffect("body", d, Fallback(d, p), p)
<1> DEFINE e == Fallback(d, p)
<1>1. {"url", "payment", "covers", "bids", "financial", "awarded", "basic", "dates", "work", "id"} \subseteq Fields
  BY DEF Fields, Stages
<1>2. \A f \in Fields : KeepFirst(d[f], p, "body") \in Seq(Values)
  BY KeptType DEF Readers
<1> DEFINE u == IF Shows(p, "title") THEN [d EXCEPT !["url"] = KeepFirst(@, p, "body")] ELSE d
<1>a. e = IF Shows(p, "text") THEN [u EXCEPT !["id"] = KeepFirst(@, p, "body")] ELSE u
  BY DEF Fallback
<1>b. /\ u \in [Fields -> Seq(Values)]
      /\ \A g \in Fields : u[g] = IF g = "url" /\ Shows(p, "title") THEN KeepFirst(d[g], p, "body") ELSE d[g]
  BY <1>1, <1>2
<1> HIDE DEF e, u
<1>3. /\ e \in [Fields -> Seq(Values)]
      /\ \A g \in Fields : e[g] =
           IF (g = "url" /\ Shows(p, "title")) \/ (g = "id" /\ Shows(p, "text"))
           THEN KeepFirst(d[g], p, "body") ELSE d[g]
  <2>1. CASE Shows(p, "text")
    <3>1. u["id"] = d["id"] /\ KeepFirst(d["id"], p, "body") \in Seq(Values)
      BY <1>1, <1>2, <1>b
    <3>2. e = [u EXCEPT !["id"] = KeepFirst(d["id"], p, "body")]
      BY <1>a, <2>1, <3>1
    <3> QED
      BY <1>1, <1>b, <2>1, <3>1, <3>2
  <2>2. CASE ~Shows(p, "text")
    BY <1>1, <1>a, <1>b, <2>2
  <2> QED
    BY <2>1, <2>2
<1>4. \A g \in Fields : e[g] = d[g] \/ e[g] = Value(p, "body")
  BY <1>3, KeepCases
<1>5. \A f \in {"basic", "dates", "work", "id"} :
         e[f] = IF Sets("body", f, p) THEN KeepFirst(d[f], p, "body") ELSE d[f]
  BY <1>1, <1>3 DEF Sets
<1>6. ReadEffect("body", d, e, p)
  BY <1>1, <1>3, <1>4, <1>5 DEF ReadEffect
<1> QED
  BY <1>6 DEF e

LEMMA ResultsEffect ==
  ASSUME NEW d \in [Fields -> Seq(Values)], NEW p \in Pages
  PROVE  ReadEffect("html", d, Results(d, p), p)
<1> DEFINE d1 == BidsList(d, p)
           d2 == StageUpdates(d1, p)
           d3 == FinancialEvaluation(d2, p)
           d4 == AwardedBids(d3, p)
<1>1. {"stages", "payment", "covers", "bids", "financial", "awarded", "basic", "dates", "work", "id"} \subseteq Fields
  BY DEF Fields, Stages
<1>2. \A f \in Fields : KeepAll(d[f], p, "html") \in Seq(Values)
  BY KeptType DEF Readers
<1>3. Value(p, "html") \in Seq(Values)
  BY ValueType DEF Handlers
<1>4. /\ d1 \in [Fields -> Seq(Values)]
      /\ \A g \in Fields : d1[g] = IF g = "bids" /\ Shows(p, "bids") THEN KeepAll(d[g], p, "html") ELSE d[g]
  BY <1>1, <1>2 DEF BidsList
<1> HIDE DEF d1
<1>5. /\ d2 \in [Fields -> Seq(Values)]
      /\ \A g \in Fields : d2[g] = IF g = "stages" /\ Shows(p, "stages") THEN Value(p, "html") ELSE d1[g]
  BY <1>1, <1>3, <1>4 DEF StageUpdates, KeepLast
<1> HIDE DEF d2
<1>6. /\ d3 \in [Fields -> Seq(Values)]
      /\ \A g \in Fields : d3[g] = IF g = "financial" /\ Shows(p, "financial")
                                   THEN KeepAll(d[g], p, "html") ELSE d2[g]
  BY <1>1, <1>2, <1>4, <1>5 DEF FinancialEvaluation
<1> HIDE DEF d3
<1>7. /\ d4 \in [Fields -> Seq(Values)]
      /\ \A g \in Fields : d4[g] = IF g = "awarded" /\ Shows(p, "awarded")
                                   THEN KeepAll(d[g], p, "html") ELSE d3[g]
  BY <1>1, <1>2, <1>4, <1>5, <1>6 DEF AwardedBids
<1> HIDE DEF d4
<1>8. \A g \in Fields : d4[g] =
        IF g \in {"bids", "financial", "awarded"} /\ Shows(p, g) THEN d[g] \o Value(p, "html")
        ELSE IF g = "stages" /\ Shows(p, "stages") THEN Value(p, "html") ELSE d[g]
  BY <1>4, <1>5, <1>6, <1>7 DEF KeepAll
<1>9. \A f \in {"basic", "dates", "work", "id"} :
         d4[f] = IF Sets("html", f, p) THEN KeepFirst(d[f], p, "html") ELSE d[f]
  BY <1>1, <1>8 DEF Sets
<1>10. \A f \in {"payment", "covers"} : d4[f] = d[f]
  BY <1>1, <1>8
<1>11. \A f \in {"bids", "financial", "awarded"} :
         d4[f] = IF Shows(p, f) THEN d[f] \o Value(p, "html") ELSE d[f]
  BY <1>1, <1>8
<1>12. \A f \in Fields : d4[f] = d[f] \/ d4[f] = Value(p, "html") \/ d4[f] = d[f] \o Value(p, "html")
  BY <1>8
<1>13. ReadEffect("html", d, d4, p)
  BY <1>7, <1>9, <1>10, <1>11, <1>12 DEF ReadEffect
<1> QED
  BY <1>13 DEF Results, d1, d2, d3, d4

-----------------------------------------------------------------------------
(* The steps, by what they do to the pages being processed.                *)

(* Handlers are attached and detached, none is replaced. *)
GrowsTo(cbs) ==
  /\ cbs \in Seq(HandlerRec)
  /\ Len(callbacks) <= Len(cbs)
  /\ \A i \in DOMAIN callbacks : cbs[i].on = callbacks[i].on
  /\ \A i \in DOMAIN cbs : cbs[i].for = tender

StartFrame(p, cbs) == [page |-> p, opener |-> "start", left |-> Calls(p, cbs)]

(* The extraction of the next tender starts, with none of the pages seen   *)
(* before if it is one of the archive.                                     *)
Starts ==
  /\ stack = <<>> /\ tender < Len(Links) /\ tender' = tender + 1
  /\ UNCHANGED <<portal, data, corrigenda, flow>>
  /\ handled' \in {handled, {}}
  /\ callbacks' \in Seq(HandlerRec)
  /\ \A i \in DOMAIN callbacks' :
       callbacks'[i].for = tender' /\ callbacks'[i].on \in {"more", "summary"}
  /\ \E seen \in {visited, {}} :
       /\ flow = "active" => seen = visited
       /\ visited' = seen \cup {Links[tender']}
       /\ \/ /\ Links[tender'] \notin seen
             /\ opened' = [opened EXCEPT ![tender'] = @ \cup {Links[tender']}]
             /\ stack' = <<StartFrame(Links[tender'], callbacks')>>
             /\ result' = result
          \/ /\ opened' = opened /\ stack' = <<>>
             /\ result' = [result EXCEPT ![tender'] = "error"]

(* A handler visits the page of its link: the page arrives or it does not. *)
Visits(kind) ==
  /\ Calling(kind) /\ GrowsTo(callbacks')
  /\ UNCHANGED <<portal, tender, data, result, flow>>
  /\ handled' \in {handled, handled \cup {kind}}
  /\ visited' = visited \cup {Call.link}
  /\ \/ /\ Call.link \notin visited
        /\ opened' = [opened EXCEPT ![tender] = @ \cup {Call.link}]
        /\ stack' = Append(Called, [page |-> Call.link, opener |-> kind,
                                    left |-> Calls(Call.link, callbacks')])
     \/ opened' = opened /\ stack' = Called

(* A call is made or skipped that visits nothing. *)
Pops ==
  /\ Owed /\ GrowsTo(callbacks')
  /\ stack' = Called
  /\ UNCHANGED <<portal, tender, visited, opened, result, handled, flow>>

Returns ==
  /\ stack # <<>> /\ Top.left = {}
  /\ stack' = Front(stack)
  /\ GrowsTo(callbacks')
  /\ UNCHANGED <<portal, tender, visited, opened, data, corrigenda, handled, flow>>
  /\ \/ result' = result
     \/ \E r \in {"ok", "error"} : result' = [result EXCEPT ![tender] = r]

(* The row of a corrigendum. *)
RowAdded ==
  corrigenda' = [corrigenda EXCEPT ![tender] = Append(@, [link |-> Call.link, details |-> 0])]

LEMMA GrowsAttach ==
  ASSUME Types, NEW cbs, GrowsTo(cbs), NEW sel \in Seq(Handlers), tender \in Tenders
  PROVE  GrowsTo(Attach(cbs, sel, tender))
<1> DEFINE new == Attach(cbs, sel, tender)
<1>1. cbs \in Seq(HandlerRec) /\ callbacks \in Seq(HandlerRec) /\ Len(callbacks) <= Len(cbs)
  BY DEF GrowsTo, Types
<1>2. /\ new \in Seq(HandlerRec) /\ Len(new) = Len(cbs) + Len(sel)
      /\ \A i \in DOMAIN cbs : new[i] = cbs[i]
      /\ \A i \in DOMAIN sel : new[Len(cbs) + i] = [on |-> sel[i], for |-> tender, attached |-> TRUE]
  BY <1>1, AttachFacts
<1> HIDE DEF new
<1>3. Len(callbacks) \in Nat /\ Len(cbs) \in Nat /\ Len(sel) \in Nat
      /\ DOMAIN callbacks = 1 .. Len(callbacks) /\ DOMAIN cbs = 1 .. Len(cbs)
      /\ DOMAIN sel = 1 .. Len(sel) /\ DOMAIN new = 1 .. Len(new)
  BY <1>1, <1>2
<1>4. \A i \in DOMAIN new : new[i].for = tender
  <2> SUFFICES ASSUME NEW i \in DOMAIN new PROVE new[i].for = tender
    OBVIOUS
  <2>1. CASE i \in DOMAIN cbs
    BY <1>2, <2>1 DEF GrowsTo
  <2>2. CASE i \notin DOMAIN cbs
    <3>1. PICK j \in DOMAIN sel : i = Len(cbs) + j
      <4>1. i - Len(cbs) \in DOMAIN sel /\ i = Len(cbs) + (i - Len(cbs))
        BY <1>2, <1>3, <2>2
      <4> QED
        BY <4>1
    <3>2. new[Len(cbs) + j].for = tender
      <4>1. new[Len(cbs) + j] = [on |-> sel[j], for |-> tender, attached |-> TRUE]
        BY <1>2, Zenon
      <4> QED
        BY <4>1
    <3> QED
      BY <3>1, <3>2
  <2> QED
    BY <2>1, <2>2
<1>5. \A i \in DOMAIN callbacks : i \in DOMAIN cbs /\ new[i].on = callbacks[i].on
  BY <1>1, <1>2, <1>3 DEF GrowsTo
<1>6. GrowsTo(new)
  BY <1>1, <1>2, <1>3, <1>4, <1>5 DEF GrowsTo
<1> QED
  BY <1>6 DEF new

LEMMA GrowsDetach ==
  ASSUME Types, NEW cbs, GrowsTo(cbs), NEW sel \in Handlers
  PROVE  GrowsTo(Detach(cbs, sel))
<1> DEFINE new == Detach(cbs, sel)
<1>1. cbs \in Seq(HandlerRec)
  BY DEF GrowsTo
<1>2. /\ new \in Seq(HandlerRec) /\ Len(new) = Len(cbs)
      /\ new = cbs \/ \E i \in DOMAIN cbs : new = [cbs EXCEPT ![i].attached = FALSE]
  <2>1. new \in Seq(HandlerRec) /\ Len(new) = Len(cbs)
    BY <1>1, DetachFacts
  <2>2. new = cbs \/ \E i \in DOMAIN cbs : new = [cbs EXCEPT ![i].attached = FALSE]
    <3>1. CASE new = cbs
      BY <3>1
    <3>2. CASE new # cbs
      <4>1. PICK i \in DOMAIN cbs : cbs[i].on = sel /\ new = [cbs EXCEPT ![i].attached = FALSE]
        BY <1>1, <3>2, DetachOne
      <4> QED
        BY <4>1
    <3> QED
      BY <3>1, <3>2
  <2> QED
    BY <2>1, <2>2
<1> HIDE DEF new
<1>3. \A i \in DOMAIN cbs : new[i].on = cbs[i].on /\ new[i].for = cbs[i].for
  <2>1. \A i \in DOMAIN cbs : cbs[i] \in HandlerRec
    BY <1>1
  <2> QED
    BY <1>2, <2>1 DEF HandlerRec
<1>4. DOMAIN new = DOMAIN cbs
  BY <1>1, <1>2
<1>5. GrowsTo(new)
  <2>1. \A i \in DOMAIN callbacks : i \in DOMAIN cbs
    BY <1>1 DEF GrowsTo, Types
  <2> QED
    BY <1>1, <1>2, <1>3, <1>4, <2>1 DEF GrowsTo
<1> QED
  BY <1>5 DEF new

LEMMA GrowsSame ==
  ASSUME Types, HandlersInv
  PROVE  GrowsTo(callbacks)
BY DEF Types, HandlersInv, GrowsTo

(* Which handlers a page of details gets. *)
LEMMA Selectors ==
  /\ DetailHandlers \in Seq(Handlers) /\ Len(DetailHandlers) = 11
  /\ <<"more">> \in Seq(Handlers) /\ <<"more", "summary">> \in Seq(Handlers)
  /\ <<"html">> \in Seq(Handlers) /\ <<"list_table">> \in Seq(Handlers)
  /\ {"more", "summary", "corrigendum", "list_table", "body", "html", "payment", "basic"} \subseteq Handlers
BY DEF DetailHandlers, Handlers, LinkKinds, Sections

(* The actions whose handlers only read. *)
LEMMA ReadIsReading ==
  ASSUME Types, FramesInv, HandlersInv, UNCHANGED <<handled, flow>>
  PROVE  /\ \/ setupBasicDetailsHandler \/ setupPaymentInstrumentsHandler \/ setupCoverDetailsHandler
            \/ setupTenderDocumentsHandler \/ setupTenderFeeHandler \/ setupEMDFeeHandler
            \/ setupCriticalDatesHandler \/ setupWorkItemHandler
            \/ setupTenderInvitingAuthorityHandler \/ setupFallbackHandler
            => \E on \in Readers : Reading(on)
         /\ \/ pastBasicDetailsHandler \/ pastPaymentHandler \/ pastCoverHandler
            \/ pastDocumentsHandler \/ pastFeeHandler \/ pastEMDHandler \/ pastDatesHandler
            \/ pastWorkHandler \/ pastAuthorityHandler \/ pastFallbackHandler \/ extractResults
            => \E on \in Readers : Reading(on)
<1>0. Owed => /\ Handler.for \in Tenders /\ data[Handler.for] \in [Fields -> Seq(Values)]
              /\ Top.page \in Pages
  <2> SUFFICES ASSUME Owed PROVE /\ Handler.for \in Tenders /\ Top.page \in Pages
                                 /\ data[Handler.for] \in [Fields -> Seq(Values)]
    OBVIOUS
  <2>1. Handler \in HandlerRec /\ Top \in Frame
    BY CallFacts
  <2> QED
    BY <2>1 DEF HandlerRec, Frame, Types
<1> DEFINE d == data[Handler.for]
           p == Top.page
<1>1. ASSUME NEW on \in Readers, NEW e, Calling(on), stack' = Called,
             data' = [data EXCEPT ![Handler.for] = e], ReadEffect(on, d, e, p),
             UNCHANGED <<portal, tender, callbacks, visited, opened, corrigenda, result>>
      PROVE  Reading(on)
  BY <1>1 DEF Reading
<1> HIDE DEF d, p
<1>2. setupBasicDetailsHandler => Reading("basic")
  <2> SUFFICES ASSUME setupBasicDetailsHandler PROVE Reading("basic")
    OBVIOUS
  <2>1. /\ Calling("basic") /\ stack' = Called
        /\ data' = [data EXCEPT ![Handler.for] = BasicDetails(d, p)]
        /\ UNCHANGED <<portal, tender, callbacks, visited, opened, corrigenda, result>>
    BY DEF setupBasicDetailsHandler, Reads, d, p
  <2>2. d \in [Fields -> Seq(Values)] /\ p \in Pages
    BY <1>0, <2>1 DEF Calling, d, p
  <2>3. ReadEffect("basic", d, BasicDetails(d, p), p)
    BY <2>2, BasicEffect
  <2> QED
    BY <1>1, <2>1, <2>3 DEF Readers
<1>3. setupPaymentInstrumentsHandler => Reading("payment")
  <2> SUFFICES ASSUME setupPaymentInstrumentsHandler PROVE Reading("payment")
    OBVIOUS
  <2>1. /\ Calling("payment") /\ stack' = Called
        /\ data' = [data EXCEPT ![Handler.for] = Payment(d, p)]
        /\ UNCHANGED <<portal, tender, callbacks, visited, opened, corrigenda, result>>
    BY DEF setupPaymentInstrumentsHandler, Reads, d, p
  <2>2. d \in [Fields -> Seq(Values)] /\ p \in Pages
    BY <1>0, <2>1 DEF Calling, d, p
  <2>3. ReadEffect("payment", d, Payment(d, p), p)
    BY <2>2, SectionEffects
  <2> QED
    BY <1>1, <2>1, <2>3 DEF Readers
<1>4. setupCoverDetailsHandler => Reading("covers")
  <2> SUFFICES ASSUME setupCoverDetailsHandler PROVE Reading("covers")
    OBVIOUS
  <2>1. /\ Calling("covers") /\ stack' = Called
        /\ data' = [data EXCEPT ![Handler.for] = Covers(d, p)]
        /\ UNCHANGED <<portal, tender, callbacks, visited, opened, corrigenda, result>>
    BY DEF setupCoverDetailsHandler, Reads, d, p
  <2>2. d \in [Fields -> Seq(Values)] /\ p \in Pages
    BY <1>0, <2>1 DEF Calling, d, p
  <2>3. ReadEffect("covers", d, Covers(d, p), p)
    BY <2>2, SectionEffects
  <2> QED
    BY <1>1, <2>1, <2>3 DEF Readers
<1>5. setupTenderDocumentsHandler => Reading("docs")
  <2> SUFFICES ASSUME setupTenderDocumentsHandler PROVE Reading("docs")
    OBVIOUS
  <2>1. /\ Calling("docs") /\ stack' = Called
        /\ data' = [data EXCEPT ![Handler.for] = Documents(d, p)]
        /\ UNCHANGED <<portal, tender, callbacks, visited, opened, corrigenda, result>>
    BY DEF setupTenderDocumentsHandler, Reads, d, p
  <2>2. d \in [Fields -> Seq(Values)] /\ p \in Pages
    BY <1>0, <2>1 DEF Calling, d, p
  <2>3. ReadEffect("docs", d, Documents(d, p), p)
    BY <2>2, SectionEffects
  <2> QED
    BY <1>1, <2>1, <2>3 DEF Readers
<1>6. setupTenderFeeHandler => Reading("fee")
  <2> SUFFICES ASSUME setupTenderFeeHandler PROVE Reading("fee")
    OBVIOUS
  <2>1. /\ Calling("fee") /\ stack' = Called
        /\ data' = [data EXCEPT ![Handler.for] = TenderFee(d, p)]
        /\ UNCHANGED <<portal, tender, callbacks, visited, opened, corrigenda, result>>
    BY DEF setupTenderFeeHandler, Reads, d, p
  <2>2. d \in [Fields -> Seq(Values)] /\ p \in Pages
    BY <1>0, <2>1 DEF Calling, d, p
  <2>3. ReadEffect("fee", d, TenderFee(d, p), p)
    BY <2>2, SectionEffects
  <2> QED
    BY <1>1, <2>1, <2>3 DEF Readers
<1>7. setupEMDFeeHandler => Reading("emd")
  <2> SUFFICES ASSUME setupEMDFeeHandler PROVE Reading("emd")
    OBVIOUS
  <2>1. /\ Calling("emd") /\ stack' = Called
        /\ data' = [data EXCEPT ![Handler.for] = EMDFee(d, p)]
        /\ UNCHANGED <<portal, tender, callbacks, visited, opened, corrigenda, result>>
    BY DEF setupEMDFeeHandler, Reads, d, p
  <2>2. d \in [Fields -> Seq(Values)] /\ p \in Pages
    BY <1>0, <2>1 DEF Calling, d, p
  <2>3. ReadEffect("emd", d, EMDFee(d, p), p)
    BY <2>2, SectionEffects
  <2> QED
    BY <1>1, <2>1, <2>3 DEF Readers
<1>8. setupCriticalDatesHandler => Reading("dates")
  <2> SUFFICES ASSUME setupCriticalDatesHandler PROVE Reading("dates")
    OBVIOUS
  <2>1. /\ Calling("dates") /\ stack' = Called
        /\ data' = [data EXCEPT ![Handler.for] = CriticalDates(d, p)]
        /\ UNCHANGED <<portal, tender, callbacks, visited, opened, corrigenda, result>>
    BY DEF setupCriticalDatesHandler, Reads, d, p
  <2>2. d \in [Fields -> Seq(Values)] /\ p \in Pages
    BY <1>0, <2>1 DEF Calling, d, p
  <2>3. ReadEffect("dates", d, CriticalDates(d, p), p)
    BY <2>2, SectionEffects
  <2> QED
    BY <1>1, <2>1, <2>3 DEF Readers
<1>9. setupWorkItemHandler => Reading("work")
  <2> SUFFICES ASSUME setupWorkItemHandler PROVE Reading("work")
    OBVIOUS
  <2>1. /\ Calling("work") /\ stack' = Called
        /\ data' = [data EXCEPT ![Handler.for] = WorkItem(d, p)]
        /\ UNCHANGED <<portal, tender, callbacks, visited, opened, corrigenda, result>>
    BY DEF setupWorkItemHandler, Reads, d, p
  <2>2. d \in [Fields -> Seq(Values)] /\ p \in Pages
    BY <1>0, <2>1 DEF Calling, d, p
  <2>3. ReadEffect("work", d, WorkItem(d, p), p)
    BY <2>2, SectionEffects
  <2> QED
    BY <1>1, <2>1, <2>3 DEF Readers
<1>10. setupTenderInvitingAuthorityHandler => Reading("authority")
  <2> SUFFICES ASSUME setupTenderInvitingAuthorityHandler PROVE Reading("authority")
    OBVIOUS
  <2>1. /\ Calling("authority") /\ stack' = Called
        /\ data' = [data EXCEPT ![Handler.for] = Authority(d, p)]
        /\ UNCHANGED <<portal, tender, callbacks, visited, opened, corrigenda, result>>
    BY DEF setupTenderInvitingAuthorityHandler, Reads, d, p
  <2>2. d \in [Fields -> Seq(Values)] /\ p \in Pages
    BY <1>0, <2>1 DEF Calling, d, p
  <2>3. ReadEffect("authority", d, Authority(d, p), p)
    BY <2>2, SectionEffects
  <2> QED
    BY <1>1, <2>1, <2>3 DEF Readers
<1>11. setupFallbackHandler => Reading("body")
  <2> SUFFICES ASSUME setupFallbackHandler PROVE Reading("body")
    OBVIOUS
  <2>1. /\ Calling("body") /\ stack' = Called
        /\ data' = [data EXCEPT ![Handler.for] = Fallback(d, p)]
        /\ UNCHANGED <<portal, tender, callbacks, visited, opened, corrigenda, result>>
    BY DEF setupFallbackHandler, Reads, d, p
  <2>2. d \in [Fields -> Seq(Values)] /\ p \in Pages
    BY <1>0, <2>1 DEF Calling, d, p
  <2>3. ReadEffect("body", d, Fallback(d, p), p)
    BY <2>2, FallbackEffect
  <2> QED
    BY <1>1, <2>1, <2>3 DEF Readers
<1>12. pastBasicDetailsHandler => Reading("basic")
  <2> SUFFICES ASSUME pastBasicDetailsHandler PROVE Reading("basic")
    OBVIOUS
  <2>1. /\ Calling("basic") /\ stack' = Called
        /\ data' = [data EXCEPT ![Handler.for] = pastBasic(d, p)]
        /\ UNCHANGED <<portal, tender, callbacks, visited, opened, corrigenda, result>>
    BY DEF pastBasicDetailsHandler, Reads, d, p, pastReads
  <2>2. d \in [Fields -> Seq(Values)] /\ p \in Pages
    BY <1>0, <2>1 DEF Calling, d, p
  <2>3. ReadEffect("basic", d, pastBasic(d, p), p)
    <3>1. pastBasic(d, p) = BasicDetails(d, p)
      BY DEF pastBasic, BasicDetails, pastFirst, First
    <3> QED
      BY <2>2, <3>1, BasicEffect
  <2> QED
    BY <1>1, <2>1, <2>3 DEF Readers
<1>13. pastPaymentHandler => Reading("payment")
  <2> SUFFICES ASSUME pastPaymentHandler PROVE Reading("payment")
    OBVIOUS
  <2>1. /\ Calling("payment") /\ stack' = Called
        /\ data' = [data EXCEPT ![Handler.for] = pastPayment(d, p)]
        /\ UNCHANGED <<portal, tender, callbacks, visited, opened, corrigenda, result>>
    BY DEF pastPaymentHandler, Reads, d, p, pastReads
  <2>2. d \in [Fields -> Seq(Values)] /\ p \in Pages
    BY <1>0, <2>1 DEF Calling, d, p
  <2>3. ReadEffect("payment", d, pastPayment(d, p), p)
    <3>1. pastPayment(d, p) = Payment(d, p)
      BY DEF pastPayment, Payment
    <3> QED
      BY <2>2, <3>1, SectionEffects
  <2> QED
    BY <1>1, <2>1, <2>3 DEF Readers
<1>14. pastCoverHandler => Reading("covers")
  <2> SUFFICES ASSUME pastCoverHandler PROVE Reading("covers")
    OBVIOUS
  <2>1. /\ Calling("covers") /\ stack' = Called
        /\ data' = [data EXCEPT ![Handler.for] = pastCovers(d, p)]
        /\ UNCHANGED <<portal, tender, callbacks, visited, opened, corrigenda, result>>
    BY DEF pastCoverHandler, Reads, d, p, pastReads
  <2>2. d \in [Fields -> Seq(Values)] /\ p \in Pages
    BY <1>0, <2>1 DEF Calling, d, p
  <2>3. ReadEffect("covers", d, pastCovers(d, p), p)
    <3>1. pastCovers(d, p) = Covers(d, p)
      BY DEF pastCovers, Covers
    <3> QED
      BY <2>2, <3>1, SectionEffects
  <2> QED
    BY <1>1, <2>1, <2>3 DEF Readers
<1>15. pastDocumentsHandler => Reading("docs")
  <2> SUFFICES ASSUME pastDocumentsHandler PROVE Reading("docs")
    OBVIOUS
  <2>1. /\ Calling("docs") /\ stack' = Called
        /\ data' = [data EXCEPT ![Handler.for] = pastDocuments(d, p)]
        /\ UNCHANGED <<portal, tender, callbacks, visited, opened, corrigenda, result>>
    BY DEF pastDocumentsHandler, Reads, d, p, pastReads
  <2>2. d \in [Fields -> Seq(Values)] /\ p \in Pages
    BY <1>0, <2>1 DEF Calling, d, p
  <2>3. ReadEffect("docs", d, pastDocuments(d, p), p)
    <3>1. pastDocuments(d, p) = Documents(d, p)
      BY DEF pastDocuments, Documents, pastDocExists, docExists
    <3> QED
      BY <2>2, <3>1, SectionEffects
  <2> QED
    BY <1>1, <2>1, <2>3 DEF Readers
<1>16. pastFeeHandler => Reading("fee")
  <2> SUFFICES ASSUME pastFeeHandler PROVE Reading("fee")
    OBVIOUS
  <2>1. /\ Calling("fee") /\ stack' = Called
        /\ data' = [data EXCEPT ![Handler.for] = pastFee(d, p)]
        /\ UNCHANGED <<portal, tender, callbacks, visited, opened, corrigenda, result>>
    BY DEF pastFeeHandler, Reads, d, p, pastReads
  <2>2. d \in [Fields -> Seq(Values)] /\ p \in Pages
    BY <1>0, <2>1 DEF Calling, d, p
  <2>3. ReadEffect("fee", d, pastFee(d, p), p)
    <3>1. pastFee(d, p) = TenderFee(d, p)
      BY DEF pastFee, TenderFee
    <3> QED
      BY <2>2, <3>1, SectionEffects
  <2> QED
    BY <1>1, <2>1, <2>3 DEF Readers
<1>17. pastEMDHandler => Reading("emd")
  <2> SUFFICES ASSUME pastEMDHandler PROVE Reading("emd")
    OBVIOUS
  <2>1. /\ Calling("emd") /\ stack' = Called
        /\ data' = [data EXCEPT ![Handler.for] = pastEMD(d, p)]
        /\ UNCHANGED <<portal, tender, callbacks, visited, opened, corrigenda, result>>
    BY DEF pastEMDHandler, Reads, d, p, pastReads
  <2>2. d \in [Fields -> Seq(Values)] /\ p \in Pages
    BY <1>0, <2>1 DEF Calling, d, p
  <2>3. ReadEffect("emd", d, pastEMD(d, p), p)
    <3>1. pastEMD(d, p) = EMDFee(d, p)
      BY DEF pastEMD, EMDFee
    <3> QED
      BY <2>2, <3>1, SectionEffects
  <2> QED
    BY <1>1, <2>1, <2>3 DEF Readers
<1>18. pastDatesHandler => Reading("dates")
  <2> SUFFICES ASSUME pastDatesHandler PROVE Reading("dates")
    OBVIOUS
  <2>1. /\ Calling("dates") /\ stack' = Called
        /\ data' = [data EXCEPT ![Handler.for] = pastDates(d, p)]
        /\ UNCHANGED <<portal, tender, callbacks, visited, opened, corrigenda, result>>
    BY DEF pastDatesHandler, Reads, d, p, pastReads
  <2>2. d \in [Fields -> Seq(Values)] /\ p \in Pages
    BY <1>0, <2>1 DEF Calling, d, p
  <2>3. ReadEffect("dates", d, pastDates(d, p), p)
    <3>1. pastDates(d, p) = CriticalDates(d, p)
      BY DEF pastDates, CriticalDates
    <3> QED
      BY <2>2, <3>1, SectionEffects
  <2> QED
    BY <1>1, <2>1, <2>3 DEF Readers
<1>19. pastWorkHandler => Reading("work")
  <2> SUFFICES ASSUME pastWorkHandler PROVE Reading("work")
    OBVIOUS
  <2>1. /\ Calling("work") /\ stack' = Called
        /\ data' = [data EXCEPT ![Handler.for] = pastWork(d, p)]
        /\ UNCHANGED <<portal, tender, callbacks, visited, opened, corrigenda, result>>
    BY DEF pastWorkHandler, Reads, d, p, pastReads
  <2>2. d \in [Fields -> Seq(Values)] /\ p \in Pages
    BY <1>0, <2>1 DEF Calling, d, p
  <2>3. ReadEffect("work", d, pastWork(d, p), p)
    <3>1. pastWork(d, p) = WorkItem(d, p)
      BY DEF pastWork, WorkItem
    <3> QED
      BY <2>2, <3>1, SectionEffects
  <2> QED
    BY <1>1, <2>1, <2>3 DEF Readers
<1>20. pastAuthorityHandler => Reading("authority")
  <2> SUFFICES ASSUME pastAuthorityHandler PROVE Reading("authority")
    OBVIOUS
  <2>1. /\ Calling("authority") /\ stack' = Called
        /\ data' = [data EXCEPT ![Handler.for] = pastAuthority(d, p)]
        /\ UNCHANGED <<portal, tender, callbacks, visited, opened, corrigenda, result>>
    BY DEF pastAuthorityHandler, Reads, d, p, pastReads
  <2>2. d \in [Fields -> Seq(Values)] /\ p \in Pages
    BY <1>0, <2>1 DEF Calling, d, p
  <2>3. ReadEffect("authority", d, pastAuthority(d, p), p)
    <3>1. pastAuthority(d, p) = Authority(d, p)
      BY DEF pastAuthority, Authority
    <3> QED
      BY <2>2, <3>1, SectionEffects
  <2> QED
    BY <1>1, <2>1, <2>3 DEF Readers
<1>21. pastFallbackHandler => Reading("body")
  <2> SUFFICES ASSUME pastFallbackHandler PROVE Reading("body")
    OBVIOUS
  <2>1. /\ Calling("body") /\ stack' = Called
        /\ data' = [data EXCEPT ![Handler.for] = pastFallback(d, p)]
        /\ UNCHANGED <<portal, tender, callbacks, visited, opened, corrigenda, result>>
    BY DEF pastFallbackHandler, Reads, d, p, pastReads
  <2>2. d \in [Fields -> Seq(Values)] /\ p \in Pages
    BY <1>0, <2>1 DEF Calling, d, p
  <2>3. ReadEffect("body", d, pastFallback(d, p), p)
    <3>1. pastFallback(d, p) = Fallback(d, p)
      BY DEF pastFallback, Fallback
    <3> QED
      BY <2>2, <3>1, FallbackEffect
  <2> QED
    BY <1>1, <2>1, <2>3 DEF Readers
<1>22. extractResults => Reading("html")
  <2> SUFFICES ASSUME extractResults PROVE Reading("html")
    OBVIOUS
  <2>1. /\ Calling("html") /\ stack' = Called
        /\ data' = [data EXCEPT ![Handler.for] = Results(d, p)]
        /\ UNCHANGED <<portal, tender, callbacks, visited, opened, corrigenda, result>>
    BY DEF extractResults, Reads, d, p, pastReads
  <2>2. d \in [Fields -> Seq(Values)] /\ p \in Pages
    BY <1>0, <2>1 DEF Calling, d, p
  <2>3. ReadEffect("html", d, Results(d, p), p)
    BY <2>2, ResultsEffect
  <2> QED
    BY <1>1, <2>1, <2>3 DEF Readers
<1> QED
  BY <1>2, <1>3, <1>4, <1>5, <1>6, <1>7, <1>8, <1>9, <1>10, <1>11, <1>12, <1>13, <1>14, <1>15, <1>16, <1>17, <1>18, <1>19, <1>20, <1>21, <1>22 DEF Readers

(* The handlers of a new collector. *)
LEMMA FirstHandlers ==
  ASSUME NEW t \in Tenders, NEW sel \in {<<"more">>, <<"more", "summary">>}
  PROVE  /\ Attach(<<>>, sel, t) \in Seq(HandlerRec)
         /\ \A i \in DOMAIN Attach(<<>>, sel, t) :
              /\ Attach(<<>>, sel, t)[i].for = t
              /\ Attach(<<>>, sel, t)[i].on \in {"more", "summary"}
         /\ Len(Attach(<<>>, sel, t)) = Len(sel)
         /\ \A i \in DOMAIN sel : /\ Attach(<<>>, sel, t)[i].on = sel[i]
                                  /\ Attach(<<>>, sel, t)[i].attached
<1>1. sel \in Seq(Handlers) /\ <<>> \in Seq(HandlerRec) /\ Len(<<>>) = 0
  <2>1. sel = <<"more">> \/ sel = <<"more", "summary">>
    OBVIOUS
  <2>2. sel \in Seq(Handlers)
    BY <2>1, Selectors
  <2>3. <<>> \in Seq(HandlerRec) /\ Len(<<>>) = 0
    OBVIOUS
  <2> QED
    BY <2>2, <2>3
<1> DEFINE new == Attach(<<>>, sel, t)
<1>2. /\ new \in Seq(HandlerRec) /\ Len(new) = Len(<<>>) + Len(sel)
      /\ \A i \in DOMAIN sel : new[Len(<<>>) + i] = [on |-> sel[i], for |-> t, attached |-> TRUE]
  BY <1>1, AttachFacts
<1> HIDE DEF new
<1>3. \A i \in DOMAIN new : i \in DOMAIN sel /\ new[i] = [on |-> sel[i], for |-> t, attached |-> TRUE]
  <2>1. DOMAIN sel = 1 .. Len(sel) /\ DOMAIN new = 1 .. Len(new) /\ Len(sel) \in Nat
    BY <1>1, <1>2
  <2>2. Len(new) = Len(sel) /\ \A i \in DOMAIN sel : Len(<<>>) + i = i
    BY <1>1, <1>2, <2>1
  <2> QED
    BY <1>2, <2>1, <2>2
<1>4. \A i \in DOMAIN sel : sel[i] \in {"more", "summary"}
  OBVIOUS
<1>5. \A i \in DOMAIN new : new[i].for = t /\ new[i].on \in {"more", "summary"}
  BY <1>3, <1>4
<1>6. Len(new) = Len(sel) /\ \A i \in DOMAIN sel : new[i].on = sel[i] /\ new[i].attached
  <2>1. Len(new) = Len(sel) /\ DOMAIN sel = 1 .. Len(sel) /\ DOMAIN new = 1 .. Len(new)
    BY <1>1, <1>2
  <2> QED
    BY <1>3, <2>1
<1> QED
  BY <1>2, <1>5, <1>6 DEF new

LEMMA StartIsStarts ==
  ASSUME Types
  PROVE  /\ flow = "active" /\ ExtractSingleTender /\ UNCHANGED <<handled, flow>> => Starts
         /\ flow = "past" /\ pastExtract /\ UNCHANGED flow => Starts
<1>0. Links \in Seq(Pages)
  BY CollectorAssumption
<1>1. ASSUME tender < Len(Links), tender' = tender + 1 PROVE tender' \in Tenders /\ Links[tender'] \in Pages
  <2>1. tender \in Nat /\ tender' \in 1 .. Len(Links)
    BY <1>0, <1>1 DEF Types, Tenders
  <2> QED
    BY <1>0, <2>1 DEF Tenders
<1>2. ASSUME flow = "active", ExtractSingleTender, UNCHANGED <<handled, flow>> PROVE Starts
  <2>1. /\ stack = <<>> /\ tender < Len(Links) /\ tender' = tender + 1
        /\ UNCHANGED <<portal, data, corrigenda>>
        /\ callbacks' = Attach(<<>>, <<"more">>, tender')
        /\ visited' = visited \cup {Links[tender']}
        /\ \/ /\ Links[tender'] \notin visited
              /\ opened' = [opened EXCEPT ![tender'] = @ \cup {Links[tender']}]
              /\ stack' = Append(<<>>, StartFrame(Links[tender'], callbacks'))
              /\ result' = result
           \/ /\ opened' = opened /\ stack' = <<>>
              /\ result' = [result EXCEPT ![tender'] = "error"]
    BY <1>2 DEF ExtractSingleTender, Arrives, Fails, SetupHandlers, Clone, Refused, StartFrame
  <2>2. \A f : Append(<<>>, f) = <<f>>
    OBVIOUS
  <2>3. /\ callbacks' \in Seq(HandlerRec)
        /\ \A i \in DOMAIN callbacks' : callbacks'[i].for = tender' /\ callbacks'[i].on \in {"more", "summary"}
    BY <1>1, <2>1, FirstHandlers
  <2> QED
    BY <1>2, <2>1, <2>2, <2>3 DEF Starts
<1>3. ASSUME flow = "past", pastExtract, UNCHANGED flow PROVE Starts
  <2>1. /\ stack = <<>> /\ tender < Len(Links) /\ tender' = tender + 1
        /\ UNCHANGED <<portal, data, corrigenda>> /\ handled' = {}
        /\ callbacks' = Attach(<<>>, <<"more", "summary">>, tender')
        /\ visited' = {} \cup {Links[tender']}
        /\ \/ /\ Links[tender'] \notin {}
              /\ opened' = [opened EXCEPT ![tender'] = @ \cup {Links[tender']}]
              /\ stack' = Append(<<>>, StartFrame(Links[tender'], callbacks'))
              /\ result' = result
           \/ /\ opened' = opened /\ stack' = <<>>
              /\ result' = [result EXCEPT ![tender'] = "error"]
    BY <1>3 DEF pastExtract, Arrives, Fails, NewPastTender, Refused, StartFrame
  <2>2. \A f : Append(<<>>, f) = <<f>>
    OBVIOUS
  <2>3. /\ callbacks' \in Seq(HandlerRec)
        /\ \A i \in DOMAIN callbacks' : callbacks'[i].for = tender' /\ callbacks'[i].on \in {"more", "summary"}
    BY <1>1, <2>1, FirstHandlers
  <2> QED
    BY <1>3, <2>1, <2>2, <2>3 DEF Starts
<1> QED
  BY <1>2, <1>3

LEMMA FollowIsVisits ==
  ASSUME Types, FramesInv, HandlersInv, UNCHANGED flow
  PROVE  /\ setupNavigationHandler /\ UNCHANGED handled => Visits("more") /\ UNCHANGED corrigenda
         /\ setupTenderDataHandler => Visits("more") /\ UNCHANGED corrigenda
         /\ setupPastTenderDataHandler => Visits("summary") /\ UNCHANGED corrigenda
         /\ setupCorrigendumHandler /\ UNCHANGED handled => Visits("corrigendum") /\ RowAdded /\ UNCHANGED handled
<1>0. Owed => /\ tender \in Tenders /\ Handler.for = tender
  BY CallFacts DEF HandlersInv, Handler, Owes
<1>1. GrowsTo(callbacks) /\ \A sel \in Handlers : GrowsTo(Detach(callbacks, sel))
  BY GrowsSame, GrowsDetach
<1>2. ASSUME setupNavigationHandler, UNCHANGED handled PROVE Visits("more") /\ UNCHANGED corrigenda
  <2>1. Calling("more") /\ Handler.for = tender /\ tender \in Tenders
    BY <1>0, <1>2 DEF setupNavigationHandler, Calling
  <2>2. GrowsTo(navigationHandlers(tender))
    BY <1>1, <2>1, Selectors, GrowsAttach DEF navigationHandlers
  <2>3. callbacks' = navigationHandlers(tender)
    BY <1>2, <2>1 DEF setupNavigationHandler, Arrives, Fails
  <2> QED
    BY <1>2, <2>1, <2>2, <2>3 DEF setupNavigationHandler, Arrives, Fails, Refused, Visits
<1>3. ASSUME setupTenderDataHandler PROVE Visits("more") /\ UNCHANGED corrigenda
  <2>1. Calling("more") /\ Handler.for = tender /\ tender \in Tenders
    BY <1>0, <1>3 DEF setupTenderDataHandler, follow, Calling
  <2> DEFINE sel == <<"basic", "payment", "covers", "docs", "fee", "emd", "dates", "work",
                   "corrigendum", "authority", "body">>
  <2>2. sel \in Seq(Handlers)
    BY DEF Handlers, LinkKinds, Sections
  <2>3. follow("more", sel)
    BY <1>3 DEF setupTenderDataHandler
  <2> HIDE DEF sel
  <2>4. GrowsTo(Attach(callbacks, sel, tender)) /\ callbacks' = Attach(callbacks, sel, tender)
    BY <1>1, <2>1, <2>2, <2>3, GrowsAttach DEF follow, Arrives, Fails
  <2> QED
    BY <2>1, <2>3, <2>4 DEF follow, FirstOf, Arrives, Fails, Refused, Visits
<1>4. ASSUME setupPastTenderDataHandler PROVE Visits("summary") /\ UNCHANGED corrigenda
  <2>1. Calling("summary") /\ Handler.for = tender /\ tender \in Tenders
    BY <1>0, <1>4 DEF setupPastTenderDataHandler, follow, Calling
  <2>3. follow("summary", <<"html">>)
    BY <1>4 DEF setupPastTenderDataHandler
  <2>4. GrowsTo(Attach(callbacks, <<"html">>, tender)) /\ callbacks' = Attach(callbacks, <<"html">>, tender)
    BY <1>1, <2>1, <2>3, GrowsAttach, Selectors DEF follow, Arrives, Fails
  <2> QED
    BY <2>1, <2>3, <2>4 DEF follow, FirstOf, Arrives, Fails, Refused, Visits
<1>5. ASSUME setupCorrigendumHandler, UNCHANGED handled PROVE Visits("corrigendum") /\ RowAdded
  <2>1. Calling("corrigendum") /\ Handler.for = tender /\ tender \in Tenders
    BY <1>0, <1>5 DEF setupCorrigendumHandler, Calling
  <2>2. GrowsTo(WithDetailHandler(tender))
    BY <1>1, <2>1, Selectors, GrowsAttach DEF WithDetailHandler
  <2>3. GrowsTo(Detach(WithDetailHandler(tender), "list_table"))
    BY <2>2, Selectors, GrowsDetach
  <2>4. callbacks' \in {WithDetailHandler(tender), Detach(WithDetailHandler(tender), "list_table")}
    BY <1>5, <2>1 DEF setupCorrigendumHandler, Arrives, Fails
  <2>5. GrowsTo(callbacks')
    BY <2>2, <2>3, <2>4
  <2>6. RowAdded
    BY <1>5, <2>1 DEF setupCorrigendumHandler, RowAdded
  <2> QED
    BY <1>5, <2>1, <2>5, <2>6 DEF setupCorrigendumHandler, Arrives, Fails, Refused, Visits
<1> QED
  BY <1>2, <1>3, <1>4, <1>5

(* The details of a corrigendum. *)
DetailAdded ==
  corrigenda' = [corrigenda EXCEPT ![tender] = attachDetailToParent(@, Top.page)]

LEMMA OtherPops ==
  ASSUME Types, FramesInv, HandlersInv, UNCHANGED flow
  PROVE  /\ \/ skipCall /\ UNCHANGED handled
            \/ \E kind \in {"more", "summary"} : alreadyHandled(kind)
            => Pops /\ UNCHANGED <<data, corrigenda>>
         /\ setupCorrigendumDetailHandler /\ UNCHANGED handled
            => Calling("list_table") /\ Pops /\ UNCHANGED <<callbacks, data>> /\ DetailAdded
         /\ pastCorrigendumHandler => Calling("corrigendum") /\ Pops /\ UNCHANGED data /\ RowAdded
         /\ \A on \in Readers : Reading(on) => Pops /\ UNCHANGED corrigenda
<1>0. Owed => /\ tender \in Tenders /\ Handler.for = tender
  BY CallFacts DEF HandlersInv, Handler, Owes
<1>1. GrowsTo(callbacks) /\ \A sel \in Handlers : GrowsTo(Detach(callbacks, sel))
  BY GrowsSame, GrowsDetach
<1>2. skipCall /\ UNCHANGED handled => Pops /\ UNCHANGED <<data, corrigenda>>
  BY <1>1 DEF skipCall, Pops
<1>3. ASSUME NEW kind \in {"more", "summary"}, alreadyHandled(kind)
      PROVE  Pops /\ UNCHANGED <<data, corrigenda>>
  BY <1>1, <1>3 DEF alreadyHandled, Calling, Pops
<1>4. setupCorrigendumDetailHandler /\ UNCHANGED handled
      => Calling("list_table") /\ Pops /\ UNCHANGED <<callbacks, data>> /\ DetailAdded
  BY <1>0, <1>1 DEF setupCorrigendumDetailHandler, Calling, Pops, DetailAdded
<1>5. pastCorrigendumHandler => Calling("corrigendum") /\ Pops /\ UNCHANGED data /\ RowAdded
  <2>1. "list_table" \in Handlers
    BY Selectors
  <2> QED
    BY <1>0, <1>1, <2>1 DEF pastCorrigendumHandler, Calling, Pops, RowAdded
<1>6. \A on \in Readers : Reading(on) => Pops /\ UNCHANGED corrigenda
  BY <1>1 DEF Reading, Calling, Pops
<1> QED
  BY <1>2, <1>3, <1>4, <1>5, <1>6

LEMMA ReturnsIsReturns ==
  ASSUME Types, FramesInv, HandlersInv, UNCHANGED <<handled, flow>>
  PROVE  /\ visitReturns => Returns
         /\ pastVisitReturns => Returns
<1>1. GrowsTo(callbacks) /\ GrowsTo(Detach(callbacks, "list_table"))
  BY GrowsSame, GrowsDetach, Selectors
<1>2. visitReturns => Returns
  <2> SUFFICES ASSUME visitReturns PROVE Returns
    OBVIOUS
  <2>1. GrowsTo(callbacks')
    BY <1>1 DEF visitReturns, afterVisit
  <2>2. result' = result \/ \E r \in {"ok", "error"} : result' = [result EXCEPT ![tender] = r]
    BY DEF visitReturns
  <2> QED
    BY <2>1, <2>2 DEF visitReturns, Returns
<1>3. pastVisitReturns => Returns
  <2> SUFFICES ASSUME pastVisitReturns PROVE Returns
    OBVIOUS
  <2>1. GrowsTo(callbacks')
    BY <1>1 DEF pastVisitReturns
  <2>2. result' = result \/ \E r \in {"ok", "error"} : result' = [result EXCEPT ![tender] = r]
    BY DEF pastVisitReturns
  <2> QED
    BY <2>1, <2>2 DEF pastVisitReturns, Returns
<1> QED
  BY <1>2, <1>3

(* Every step is one of these. *)
LEMMA Steps ==
  ASSUME Types, FramesInv, HandlersInv, Next
  PROVE  \/ Starts
         \/ \E kind \in {"more", "summary"} : Visits(kind) /\ UNCHANGED corrigenda
         \/ Visits("corrigendum") /\ RowAdded /\ UNCHANGED handled
         \/ \E on \in Readers : Reading(on)
         \/ Pops /\ UNCHANGED <<data, corrigenda>>
         \/ Pops /\ UNCHANGED data /\ RowAdded
         \/ Pops /\ UNCHANGED data /\ DetailAdded
         \/ Returns
<1>1. CASE flow = "active" /\ ActiveNext /\ UNCHANGED <<handled, flow>>
  BY <1>1, StartIsStarts, FollowIsVisits, ReadIsReading, OtherPops, ReturnsIsReturns DEF ActiveNext
<1>2. CASE flow = "past" /\ PastNext /\ UNCHANGED flow
  <2>1. CASE pastExtract
    BY <1>2, <2>1, StartIsStarts
  <2>2. CASE \E kind \in {"more", "summary"} : alreadyHandled(kind)
    BY <1>2, <2>2, OtherPops
  <2>3. CASE setupTenderDataHandler \/ setupPastTenderDataHandler
    BY <1>2, <2>3, FollowIsVisits
  <2>4. CASE \/ pastBasicDetailsHandler \/ pastPaymentHandler \/ pastCoverHandler
             \/ pastDocumentsHandler \/ pastFeeHandler \/ pastEMDHandler \/ pastDatesHandler
             \/ pastWorkHandler \/ pastAuthorityHandler \/ pastFallbackHandler \/ extractResults
    <3>1. UNCHANGED handled
      BY <2>4 DEF pastBasicDetailsHandler, pastPaymentHandler, pastCoverHandler,
             pastDocumentsHandler, pastFeeHandler, pastEMDHandler, pastDatesHandler,
             pastWorkHandler, pastAuthorityHandler, pastFallbackHandler, extractResults, pastReads
    <3> QED
      BY <1>2, <2>4, <3>1, ReadIsReading
  <2>5. CASE pastCorrigendumHandler
    BY <1>2, <2>5, OtherPops
  <2>6. CASE pastVisitReturns
    BY <1>2, <2>6, ReturnsIsReturns DEF pastVisitReturns
  <2> QED
    BY <1>2, <2>1, <2>2, <2>3, <2>4, <2>5, <2>6 DEF PastNext
<1> QED
  BY <1>1, <1>2 DEF Next

-----------------------------------------------------------------------------
(* The types.                                                              *)
Row == [link : Pages, details : Nat]

LEMMA AttachDetailFacts ==
  ASSUME NEW rows \in Seq(Row), NEW url
  PROVE  /\ attachDetailToParent(rows, url) \in Seq(Row)
         /\ Len(attachDetailToParent(rows, url)) = Len(rows)
         /\ \/ /\ attachDetailToParent(rows, url) = rows
               /\ \A i \in DOMAIN rows : rows[i].link # url
            \/ \E i \in DOMAIN rows :
                 /\ rows[i].link = url
                 /\ attachDetailToParent(rows, url) = [rows EXCEPT ![i].details = @ + 1]
                 /\ \A j \in DOMAIN rows : rows[j].link = url => i <= j
<1> DEFINE Is == {i \in 1 .. Len(rows) : rows[i].link = url}
<1>0. DOMAIN rows = 1 .. Len(rows) /\ Len(rows) \in Nat /\ \A i \in DOMAIN rows : rows[i] \in Row
  OBVIOUS
<1>1. CASE Is = {}
  <2>1. attachDetailToParent(rows, url) = rows
    BY <1>1 DEF attachDetailToParent, SelectInSeq
  <2>2. \A i \in DOMAIN rows : rows[i].link # url
    BY <1>0, <1>1
  <2> QED
    BY <2>1, <2>2
<1>2. CASE Is # {}
  <2>1. PICK m \in Is : \A x \in Is : m <= x
    <3>1. Is \subseteq Nat
      OBVIOUS
    <3> HIDE DEF Is
    <3> QED
      BY <1>2, <3>1, Least
  <2>2. Min(Is) \in Is /\ \A x \in Is : Min(Is) <= x
    BY <2>1 DEF Min
  <2>3. Min(Is) # 0 /\ Min(Is) \in DOMAIN rows
    BY <2>2
  <2>4. attachDetailToParent(rows, url) = [rows EXCEPT ![Min(Is)].details = @ + 1]
    BY <1>2, <2>3 DEF attachDetailToParent, SelectInSeq
  <2> DEFINE k == Min(Is)
  <2>5. rows[k].link = url /\ \A x \in DOMAIN rows : rows[x].link = url => k <= x
    BY <1>0, <2>2
  <2> HIDE DEF k, Is
  <2>6. k \in DOMAIN rows /\ attachDetailToParent(rows, url) = [rows EXCEPT ![k].details = @ + 1]
    BY <2>3, <2>4 DEF k
  <2>7. [rows[k] EXCEPT !.details = @ + 1] \in Row
    <3>1. PICK r \in Row : r = rows[k]
      BY <1>0, <2>6
    <3>2. [r EXCEPT !.details = @ + 1] \in Row
      BY <3>1 DEF Row
    <3> QED
      BY <3>1, <3>2
  <2>8. /\ [rows EXCEPT ![k].details = @ + 1] \in Seq(Row)
        /\ Len([rows EXCEPT ![k].details = @ + 1]) = Len(rows)
    BY <1>0, <2>6, <2>7
  <2> QED
    BY <2>5, <2>6, <2>8
<1> QED
  BY <1>1, <1>2

LEMMA AttachDetailOne ==
  ASSUME NEW rows \in Seq(Row), NEW url
  PROVE  \/ attachDetailToParent(rows, url) = rows /\ \A i \in DOMAIN rows : rows[i].link # url
         \/ \E i \in DOMAIN rows :
              rows[i].link = url /\ attachDetailToParent(rows, url) = [rows EXCEPT ![i].details = @ + 1]
  BY AttachDetailFacts, Zenon

(* The frame of a page that arrives. *)
LEMMA FrameType ==
  ASSUME site \in Sites, NEW p \in Pages, NEW opener \in Openers, NEW cbs \in Seq(HandlerRec)
  PROVE  [page |-> p, opener |-> opener, left |-> Calls(p, cbs)] \in Frame
<1>1. Calls(p, cbs) \subseteq CallRec
  BY CallsFacts
<1> QED
  BY <1>1 DEF Frame

LEMMA TypesStep ==
  ASSUME Types, FramesInv, HandlersInv, Next
  PROVE  Types'
<1>0. /\ site \in Sites /\ skipsDetached \in BOOLEAN
      /\ tender \in {0} \cup Tenders
      /\ callbacks \in Seq(HandlerRec)
      /\ visited \subseteq Pages
      /\ stack \in Seq(Frame)
      /\ opened \in [Tenders -> SUBSET Pages]
      /\ data \in [Tenders -> [Fields -> Seq(Values)]]
      /\ corrigenda \in [Tenders -> Seq(Row)]
      /\ result \in [Tenders -> {"none", "ok", "error"}]
      /\ handled \subseteq {"more", "summary"}
      /\ flow \in {"active", "past"}
  BY DEF Types, Row
<1>1. ASSUME Starts PROVE Types'
  <2>1. tender' \in Tenders /\ Links[tender'] \in Pages
    <3>1. Links \in Seq(Pages)
      BY CollectorAssumption
    <3>2. tender \in Nat
      BY <1>0, <3>1 DEF Tenders
    <3> QED
      BY <1>1, <3>1, <3>2 DEF Starts, Tenders
  <2>2. visited' \subseteq Pages
    BY <1>0, <1>1, <2>1 DEF Starts
  <2>3. StartFrame(Links[tender'], callbacks') \in Frame
    BY <1>0, <1>1, <2>1, FrameType DEF Starts, StartFrame, Openers
  <2>4. stack' \in Seq(Frame)
    <3>1. stack' = <<StartFrame(Links[tender'], callbacks')>> \/ stack' = <<>>
      BY <1>1 DEF Starts
    <3>2. \A f \in Frame : <<f>> \in Seq(Frame)
      OBVIOUS
    <3>3. <<>> \in Seq(Frame)
      OBVIOUS
    <3> QED
      BY <2>3, <3>1, <3>2, <3>3
  <2>5. opened' \in [Tenders -> SUBSET Pages]
    <3>1. opened' = opened \/ opened' = [opened EXCEPT ![tender'] = opened[tender'] \cup {Links[tender']}]
      BY <1>1 DEF Starts
    <3>2. opened[tender'] \cup {Links[tender']} \in SUBSET Pages
      BY <1>0, <2>1
    <3> QED
      BY <1>0, <2>1, <3>1, <3>2
  <2>6. result' \in [Tenders -> {"none", "ok", "error"}]
    BY <1>0, <1>1, <2>1 DEF Starts
  <2> QED
    BY <1>0, <1>1, <2>1, <2>2, <2>4, <2>5, <2>6 DEF Starts, Types, portal, Row
<1>2. ASSUME NEW kind \in LinkKinds, Visits(kind)
      PROVE  /\ callbacks' \in Seq(HandlerRec) /\ visited' \subseteq Pages /\ stack' \in Seq(Frame)
             /\ opened' \in [Tenders -> SUBSET Pages]
             /\ UNCHANGED <<portal, tender, data, result, flow>>
  <2>1. Owed /\ callbacks' \in Seq(HandlerRec) /\ UNCHANGED <<portal, tender, data, result, flow>>
    BY <1>2 DEF Visits, Calling, GrowsTo
  <2>2. tender \in Tenders /\ Call.link \in Pages /\ Called \in Seq(Frame)
    BY <2>1, CallFacts, CalledFacts
  <2>3. [page |-> Call.link, opener |-> kind, left |-> Calls(Call.link, callbacks')] \in Frame
    BY <1>0, <2>1, <2>2, FrameType DEF Openers
  <2>4. stack' \in Seq(Frame)
    BY <1>2, <2>2, <2>3 DEF Visits
  <2> QED
    <3>1. visited' \subseteq Pages
      BY <1>0, <1>2, <2>2 DEF Visits
    <3>2. opened' \in [Tenders -> SUBSET Pages]
      BY <1>0, <1>2, <2>2 DEF Visits
    <3> QED
      BY <2>1, <2>4, <3>1, <3>2
<1>3. ASSUME Pops
      PROVE  /\ callbacks' \in Seq(HandlerRec) /\ stack' \in Seq(Frame)
             /\ UNCHANGED <<portal, tender, visited, opened, result, handled, flow>>
  BY <1>3, CalledFacts DEF Pops, GrowsTo
<1>4. ASSUME RowAdded, Owed PROVE corrigenda' \in [Tenders -> Seq(Row)]
  <2>1. tender \in Tenders /\ Call.link \in Pages
    BY <1>4, CallFacts
  <2>2. [link |-> Call.link, details |-> 0] \in Row
    BY <2>1 DEF Row
  <2>3. Append(corrigenda[tender], [link |-> Call.link, details |-> 0]) \in Seq(Row)
    BY <1>0, <2>1, <2>2
  <2> QED
    BY <1>0, <1>4, <2>1, <2>3 DEF RowAdded
<1>5. ASSUME DetailAdded, Owed PROVE corrigenda' \in [Tenders -> Seq(Row)]
  <2>1. tender \in Tenders
    BY <1>5, CallFacts
  <2>2. attachDetailToParent(corrigenda[tender], Top.page) \in Seq(Row)
    BY <1>0, <2>1, AttachDetailFacts
  <2> QED
    BY <1>0, <1>5, <2>1, <2>2 DEF DetailAdded
<1>6. ASSUME NEW on \in Readers, Reading(on) PROVE data' \in [Tenders -> [Fields -> Seq(Values)]]
  <2>1. PICK e : ReadEffect(on, data[Handler.for], e, Top.page) /\ data' = [data EXCEPT ![Handler.for] = e]
    BY <1>6 DEF Reading
  <2> QED
    BY <1>0, <2>1 DEF ReadEffect
<1>7. ASSUME NEW kind \in {"more", "summary"}, Visits(kind), UNCHANGED corrigenda PROVE Types'
  <2>1. kind \in LinkKinds
    BY DEF LinkKinds
  <2>2. handled' \subseteq {"more", "summary"}
    BY <1>0, <1>7 DEF Visits
  <2> QED
    BY <1>0, <1>2, <1>7, <2>1, <2>2 DEF Types, portal, Row
<1>8. ASSUME Visits("corrigendum"), RowAdded, handled' = handled PROVE Types'
  <2>1. "corrigendum" \in LinkKinds /\ Owed
    BY <1>8 DEF LinkKinds, Visits, Calling
  <2> QED
    BY <1>0, <1>2, <1>4, <1>8, <2>1 DEF Types, portal, Row
<1>9. ASSUME NEW on \in Readers, Reading(on) PROVE Types'
  <2>1. Pops /\ UNCHANGED corrigenda
    BY <1>9, OtherPops DEF Reading
  <2> QED
    BY <1>0, <1>3, <1>6, <1>9, <2>1 DEF Types, portal, Row
<1>10. ASSUME Pops, UNCHANGED data, UNCHANGED corrigenda \/ RowAdded \/ DetailAdded PROVE Types'
  <2>1. corrigenda' \in [Tenders -> Seq(Row)]
    BY <1>0, <1>4, <1>5, <1>10 DEF Pops
  <2> QED
    BY <1>0, <1>3, <1>10, <2>1 DEF Types, portal, Row
<1>11. ASSUME Returns PROVE Types'
  <2>1. Front(stack) \in Seq(Frame) /\ callbacks' \in Seq(HandlerRec)
    BY <1>0, <1>11, FrontFacts DEF Returns, GrowsTo
  <2>2. result' \in [Tenders -> {"none", "ok", "error"}]
    BY <1>0, <1>11 DEF Returns
  <2> QED
    BY <1>0, <1>11, <2>1, <2>2 DEF Types, portal, Row, Returns
<1> QED
  BY <1>1, <1>7, <1>8, <1>9, <1>10, <1>11, Steps

-----------------------------------------------------------------------------
(* The pages being processed.                                              *)
LEMMA OwesKept ==
  ASSUME Types, GrowsTo(callbacks'), site' = site, NEW p, NEW c, Owes(p, c)
  PROVE  Owes(p, c)' /\ callbacks'[c.cb].on = callbacks[c.cb].on
<1>1. c.cb \in DOMAIN callbacks' /\ callbacks'[c.cb].on = callbacks[c.cb].on
  BY DEF GrowsTo, Types, Owes
<1>2. \A on : Elements(p, on)' = Elements(p, on)
  BY DEF Elements, Once
<1> QED
  BY <1>1, <1>2 DEF Owes

(* A page that arrives owes calls of the handlers attached then. *)
LEMMA CallsOwed ==
  ASSUME site \in Sites, site' = site, NEW p \in Pages, callbacks' \in Seq(HandlerRec)
  PROVE  \A c \in Calls(p, callbacks') : Owes(p, c)'
<1>1. \A on : Elements(p, on)' = Elements(p, on)
  BY DEF Elements, Once
<1> QED
  BY <1>1, CallsFacts DEF Owes

LEMMA FramesStep ==
  ASSUME Types, FramesInv, HandlersInv, Next
  PROVE  FramesInv'
<1>0. stack \in Seq(Frame) /\ Types'
  BY TypesStep DEF Types
<1>1. ASSUME Starts PROVE FramesInv'
  <2>1. /\ callbacks' \in Seq(HandlerRec) /\ site' = site /\ site \in Sites
        /\ \A i \in DOMAIN callbacks' : callbacks'[i].on \in {"more", "summary"}
        /\ Links[tender'] \in visited'
    BY <1>1 DEF Starts, portal, Types
  <2>2. tender' \in Tenders /\ Links[tender'] \in Pages
    <3>1. Links \in Seq(Pages)
      BY CollectorAssumption
    <3>2. tender \in Nat
      BY <3>1 DEF Tenders, Types
    <3> QED
      BY <1>1, <3>1, <3>2 DEF Starts, Tenders
  <2>3. \/ stack' = <<>>
        \/ /\ stack' = <<StartFrame(Links[tender'], callbacks')>>
           /\ opened' = [opened EXCEPT ![tender'] = @ \cup {Links[tender']}]
    BY <1>1 DEF Starts
  <2>4. CASE stack' = <<>>
    BY <2>4 DEF FramesInv
  <2>5. CASE /\ stack' = <<StartFrame(Links[tender'], callbacks')>>
             /\ opened' = [opened EXCEPT ![tender'] = @ \cup {Links[tender']}]
    <3>0. PICK p \in Pages : p = Links[tender']
      BY <2>2
    <3>1. /\ Len(stack') = 1 /\ DOMAIN stack' = {1}
          /\ stack'[1].page = p /\ stack'[1].opener = "start" /\ stack'[1].left = Calls(p, callbacks')
      BY <2>5, <3>0 DEF StartFrame
    <3>2. \A c \in Calls(p, callbacks') : Owes(p, c)' /\ c.cb \in DOMAIN callbacks'
      BY <2>1, CallsFacts, CallsOwed
    <3>3. p \in opened'[tender']
      BY <2>2, <2>5, <3>0 DEF Types
    <3> QED
      BY <2>1, <2>2, <3>0, <3>1, <3>2, <3>3 DEF FramesInv
  <2> QED
    BY <2>3, <2>4, <2>5
<1>2. ASSUME Owed, GrowsTo(callbacks'), site' = site, tender' = tender, visited \subseteq visited',
             opened[tender] \subseteq opened'[tender],
             \A i \in DOMAIN stack : i \in DOMAIN stack' /\ stack'[i] = Called[i]
      PROVE  /\ stack # <<>> /\ tender \in Tenders
             /\ stack'[1].page = Links[tender]
             /\ \A c \in stack'[1].left : callbacks'[c.cb].on \in {"more", "summary"}
             /\ \A i \in DOMAIN stack :
                  /\ stack'[i].page \in opened'[tender] \cap visited /\ stack'[i].page = stack[i].page
                  /\ stack'[i].opener = "start" <=> i = 1
                  /\ \A j \in DOMAIN stack : stack'[i].page = stack'[j].page => i = j
                  /\ \A c \in stack'[i].left : Owes(stack[i].page, c)'
  <2>1. /\ tender \in Tenders /\ stack # <<>>
        /\ Called \in Seq(Frame) /\ Len(Called) = Len(stack)
        /\ \A i \in DOMAIN stack :
              /\ Called[i].page = stack[i].page /\ Called[i].opener = stack[i].opener
              /\ Called[i].left \subseteq stack[i].left
    <3>1. Top = stack[Len(stack)]
      BY <1>2, CallFacts
    <3> QED
      BY <1>2, <3>1, CallFacts, CalledFacts DEF Owed
  <2>2. DOMAIN Called = DOMAIN stack /\ 1 \in DOMAIN stack
    BY <1>0, <2>1
  <2>3. \A p, c : Owes(p, c) => Owes(p, c)' /\ callbacks'[c.cb].on = callbacks[c.cb].on
    BY <1>2, OwesKept
  <2>4. /\ stack'[1].page = Links[tender]
        /\ \A c \in stack'[1].left : callbacks'[c.cb].on \in {"more", "summary"}
    BY <1>2, <2>1, <2>2, <2>3 DEF FramesInv
  <2>5. ASSUME NEW i \in DOMAIN stack
        PROVE  /\ stack'[i].page \in opened'[tender] \cap visited /\ stack'[i].page = stack[i].page
               /\ stack'[i].opener = "start" <=> i = 1
               /\ \A j \in DOMAIN stack : stack'[i].page = stack'[j].page => i = j
               /\ \A c \in stack'[i].left : Owes(stack[i].page, c)
    BY <1>2, <2>1 DEF FramesInv
  <2>6. ASSUME NEW i \in DOMAIN stack
        PROVE  \A c \in stack'[i].left : Owes(stack[i].page, c)'
    <3>1. PICK p : p = stack[i].page
      OBVIOUS
    <3>2. stack'[i].page = p
      BY <1>2, <2>1, <2>2, <3>1
    <3>3. \A c \in stack'[i].left : Owes(p, c)'
      BY <1>2, <2>2, <2>3, <2>5, <3>1
    <3> QED
      BY <3>2, <3>3
  <2> QED
    BY <2>1, <2>4, <2>5, <2>6
<1>3. ASSUME Owed, GrowsTo(callbacks'), site' = site, tender' = tender, visited \subseteq visited',
             opened[tender] \subseteq opened'[tender], stack' = Called
      PROVE  FramesInv'
  <2>1. Len(Called) = Len(stack) /\ Called \in Seq(Frame)
    BY <1>3, CalledFacts
  <2>2. DOMAIN stack' = DOMAIN stack
    BY <1>0, <1>3, <2>1
  <2> QED
    BY <1>2, <1>3, <2>2 DEF FramesInv
<1>4. ASSUME NEW kind \in LinkKinds, Visits(kind) PROVE FramesInv'
  <2>1. /\ Owed /\ GrowsTo(callbacks') /\ site' = site /\ tender' = tender
        /\ visited' = visited \cup {Call.link} /\ callbacks' \in Seq(HandlerRec)
    BY <1>4 DEF Visits, Calling, portal, GrowsTo
  <2>2. tender \in Tenders /\ Call.link \in Pages
    BY <2>1, CallFacts
  <2>3. CASE opened' = opened /\ stack' = Called
    BY <1>3, <2>1, <2>3
  <2>4. CASE /\ Call.link \notin visited
             /\ opened' = [opened EXCEPT ![tender] = @ \cup {Call.link}]
             /\ stack' = Append(Called, [page |-> Call.link, opener |-> kind,
                                         left |-> Calls(Call.link, callbacks')])
    <3>0. PICK p \in Pages : p = Call.link
      BY <2>2
    <3>1. Called \in Seq(Frame) /\ Len(Called) = Len(stack) /\ stack # <<>>
      BY <2>1, CalledFacts DEF Owed
    <3>2. /\ DOMAIN stack' = DOMAIN stack \cup {Len(stack) + 1}
          /\ \A i \in DOMAIN stack : stack'[i] = Called[i]
          /\ stack'[Len(stack) + 1] = [page |-> p, opener |-> kind, left |-> Calls(p, callbacks')]
      BY <1>0, <2>4, <3>0, <3>1
    <3>3. opened'[tender] = opened[tender] \cup {p}
      BY <2>2, <2>4, <3>0 DEF Types
    <3>4. \A c \in Calls(p, callbacks') : Owes(p, c)'
      BY <2>1, CallsOwed DEF Types
    <3>5. kind # "start"
      BY DEF LinkKinds
    <3>6. /\ stack # <<>> /\ tender \in Tenders
          /\ stack'[1].page = Links[tender]
          /\ \A c \in stack'[1].left : callbacks'[c.cb].on \in {"more", "summary"}
          /\ \A i \in DOMAIN stack :
               /\ stack'[i].page \in opened'[tender] \cap visited /\ stack'[i].page = stack[i].page
               /\ stack'[i].opener = "start" <=> i = 1
               /\ \A j \in DOMAIN stack : stack'[i].page = stack'[j].page => i = j
               /\ \A c \in stack'[i].left : Owes(stack[i].page, c)'
      BY <1>2, <2>1, <3>2, <3>3
    <3>7. ASSUME NEW i \in DOMAIN stack' PROVE \A c \in stack'[i].left : Owes(stack[i].page, c)'
      <4>1. CASE i \in DOMAIN stack
        BY <3>6, <4>1
      <4>2. CASE i = Len(stack) + 1
        <5>1. stack'[i].page = p /\ stack'[i].left = Calls(p, callbacks')
          BY <3>2, <4>2
        <5> QED
          BY <3>4, <5>1
      <4> QED
        BY <3>2, <4>1, <4>2
    <3>8. ASSUME NEW i \in DOMAIN stack'
          PROVE  /\ stack'[i].page \in opened'[tender] \cap visited'
                 /\ stack'[i].opener = "start" <=> i = 1
                 /\ \A j \in DOMAIN stack' : stack'[i].page = stack'[j].page => i = j
      <4>1. stack'[Len(stack) + 1].page \notin visited /\ Len(stack) + 1 # 1
        BY <1>0, <2>4, <3>0, <3>1, <3>2
      <4>2. stack'[Len(stack) + 1].page = p /\ stack'[Len(stack) + 1].opener = kind
        BY <3>2
      <4> QED
        BY <2>1, <3>0, <3>2, <3>3, <3>5, <3>6, <4>1, <4>2
    <3> QED
      BY <2>1, <3>6, <3>7, <3>8 DEF FramesInv
  <2> QED
    BY <1>4, <2>3, <2>4 DEF Visits
<1>5. ASSUME Pops PROVE FramesInv'
  BY <1>3, <1>5 DEF Pops, portal
<1>6. ASSUME Returns PROVE FramesInv'
  <2>1. /\ stack # <<>> /\ stack' = Front(stack) /\ GrowsTo(callbacks')
        /\ UNCHANGED <<site, tender, visited, opened>>
    BY <1>6 DEF Returns, portal
  <2>2. /\ Front(stack) \in Seq(Frame) /\ Len(Front(stack)) = Len(stack) - 1
        /\ \A i \in DOMAIN Front(stack) : i \in DOMAIN stack /\ Front(stack)[i] = stack[i]
    BY <1>0, <2>1, FrontFacts
  <2>3. \A p, c : Owes(p, c) => Owes(p, c)' /\ callbacks'[c.cb].on = callbacks[c.cb].on
    BY <2>1, OwesKept
  <2>4. ASSUME NEW i \in DOMAIN stack' PROVE \A c \in stack'[i].left : Owes(stack[i].page, c)'
    <3>1. PICK p : p = stack[i].page
      OBVIOUS
    <3>2. stack'[i] = stack[i] /\ i \in DOMAIN stack
      BY <2>1, <2>2
    <3>3. stack'[i].page = p
      BY <3>1, <3>2
    <3>4. \A c \in stack'[i].left : Owes(p, c)'
      BY <2>1, <2>3, <3>1, <3>2 DEF FramesInv
    <3> QED
      BY <3>3, <3>4
  <2>5. stack' # <<>> => 1 \in DOMAIN stack'
    BY <2>1, <2>2
  <2>6. 1 \in DOMAIN stack /\ \A c \in stack[1].left : callbacks'[c.cb].on \in {"more", "summary"}
    BY <1>0, <2>1, <2>3 DEF FramesInv
  <2> QED
    BY <2>1, <2>2, <2>4, <2>5, <2>6 DEF FramesInv
<1>7. "more" \in LinkKinds /\ "summary" \in LinkKinds /\ "corrigendum" \in LinkKinds
  BY DEF LinkKinds
<1>8. (\E on \in Readers : Reading(on)) => Pops
  <2> SUFFICES ASSUME NEW on \in Readers, Reading(on) PROVE Pops
    OBVIOUS
  <2>1. UNCHANGED flow
    BY DEF Reading
  <2> QED
    BY <2>1, OtherPops
<1> QED
  BY <1>1, <1>4, <1>5, <1>6, <1>7, <1>8, Steps

-----------------------------------------------------------------------------
(* What a step adds to opened, data and corrigenda.                        *)
LEMMA HandlersStep ==
  ASSUME Types, FramesInv, HandlersInv, Next
  PROVE  HandlersInv'
<1>1. Starts => HandlersInv'
  BY DEF Starts, HandlersInv
<1>2. GrowsTo(callbacks') /\ tender' = tender => HandlersInv'
  BY DEF GrowsTo, HandlersInv
<1>3. (\E on \in Readers : Reading(on)) => Pops
  <2> SUFFICES ASSUME NEW on \in Readers, Reading(on) PROVE Pops
    OBVIOUS
  <2>1. UNCHANGED flow
    BY DEF Reading
  <2> QED
    BY <2>1, OtherPops
<1>4. /\ \A kind : Visits(kind) => GrowsTo(callbacks') /\ tender' = tender
      /\ Pops \/ Returns => GrowsTo(callbacks') /\ tender' = tender
  BY DEF Visits, Pops, Returns
<1> QED
  BY <1>1, <1>2, <1>3, <1>4, Steps

(* At most one page, not seen before, is added to the pages of one tender. *)
LEMMA OpenedChange ==
  ASSUME Types, FramesInv, HandlersInv, OpenedInv, Next
  PROVE  /\ flow' = flow /\ site' = site /\ skipsDetached' = skipsDetached
         /\ tender' = tender \/ tender' = tender + 1
         /\ flow = "active" => visited \subseteq visited'
         /\ \/ opened' = opened
            \/ \E p \in visited' :
                 /\ tender' \in Tenders /\ opened' = [opened EXCEPT ![tender'] = @ \cup {p}]
                 /\ flow = "active" => p \notin visited
<1>1. ASSUME Starts
      PROVE  /\ flow' = flow /\ site' = site /\ tender' = tender + 1
             /\ skipsDetached' = skipsDetached
             /\ flow = "active" => visited \subseteq visited'
             /\ \/ opened' = opened
                \/ \E p \in visited' :
                     /\ tender' \in Tenders /\ opened' = [opened EXCEPT ![tender'] = @ \cup {p}]
                     /\ flow = "active" => p \notin visited
  <2>1. tender' \in Tenders
    BY <1>1, CollectorAssumption DEF Starts, Types, Tenders
  <2> QED
    BY <1>1, <2>1 DEF Starts, portal
<1>2. ASSUME NEW kind, Visits(kind)
      PROVE  /\ flow' = flow /\ site' = site /\ tender' = tender /\ visited \subseteq visited'
             /\ skipsDetached' = skipsDetached
             /\ \/ opened' = opened
                \/ \E p \in visited' :
                     /\ tender' \in Tenders /\ opened' = [opened EXCEPT ![tender'] = @ \cup {p}]
                     /\ flow = "active" => p \notin visited
  <2>1. tender \in Tenders
    BY <1>2, CallFacts DEF Visits, Calling
  <2> QED
    BY <1>2, <2>1 DEF Visits, portal
<1>3. Pops \/ Returns \/ (\E on \in Readers : Reading(on)) =>
        UNCHANGED <<flow, site, skipsDetached, tender, visited, opened>>
  BY DEF Pops, Returns, Reading, portal
<1> QED
  BY <1>1, <1>2, <1>3, Steps

(* Who changes what a tender has. *)
LEMMA DataChange ==
  ASSUME Types, FramesInv, HandlersInv, Next
  PROVE  /\ data' = data \/ \E on \in Readers : Reading(on)
         /\ \/ corrigenda' = corrigenda
            \/ Owed /\ tender' = tender /\ (RowAdded \/ DetailAdded)
         /\ \/ result' = result
            \/ \E r \in {"ok", "error"} : tender' \in Tenders /\ result' = [result EXCEPT ![tender'] = r]
<1>1. Starts => tender' \in Tenders
  BY CollectorAssumption DEF Starts, Types, Tenders
<1>2. Returns => tender \in Tenders
  BY DEF Returns, FramesInv
<1> QED
  BY <1>1, <1>2, Steps DEF Starts, Visits, Pops, Returns, Reading, Calling

LEMMA ReadingFacts ==
  ASSUME Types, FramesInv, HandlersInv, NEW on \in Readers, Reading(on)
  PROVE  /\ tender \in Tenders /\ Top.page \in Pages
         /\ Top.page \in opened[tender] /\ Top.page # Links[tender]
         /\ data[tender] \in [Fields -> Seq(Values)]
         /\ data' = [data EXCEPT ![tender] = data'[tender]]
         /\ ReadEffect(on, data[tender], data'[tender], Top.page)
<1>1. Owed /\ Handler.on = on
  BY DEF Reading, Calling
<1>2. /\ tender \in Tenders /\ Handler.for = tender /\ Top \in Frame
      /\ Len(stack) \in DOMAIN stack /\ Top = stack[Len(stack)]
      /\ Call \in Top.left
  BY <1>1, CallFacts DEF HandlersInv, Handler, Owes
<1>3. on \notin {"more", "summary"}
  BY DEF Readers
<1>4. Len(stack) # 1
  BY <1>1, <1>2, <1>3 DEF FramesInv, Owed, Handler
<1>5. Top.page # Links[tender]
  <2>1. 1 \in DOMAIN stack
    BY <1>2 DEF Types
  <2> QED
    BY <1>1, <1>2, <1>4, <2>1 DEF FramesInv, Owed
<1>6. PICK e : ReadEffect(on, data[tender], e, Top.page) /\ data' = [data EXCEPT ![tender] = e]
  BY <1>2 DEF Reading
<1>7. data'[tender] = e
  BY <1>2, <1>6 DEF Types
<1> QED
  BY <1>1, <1>2, <1>5, <1>6, <1>7 DEF FramesInv, Owed, Types, Frame

(* One value is put after the others. *)
LEMMA ConcatOne ==
  ASSUME NEW S, NEW s \in Seq(S), NEW v \in Seq(S), Len(v) = 1
  PROVE  /\ s \o v \in Seq(S) /\ Len(s \o v) = Len(s) + 1 /\ Len(s) \in Nat
         /\ \A i \in 1 .. Len(s) : (s \o v)[i] = s[i]
         /\ (s \o v)[Len(s) + 1] = v[1]
<1>1. s \o v \in Seq(S)
  OBVIOUS
<1>a. Len(s \o v) = Len(s) + 1
  <2>1. \A w \in Seq(S) : Len(s \o w) = Len(s) + Len(w)
    OBVIOUS
  <2> QED
    BY <2>1
<1>2. Len(s) \in Nat /\ \A i \in 1 .. Len(s) : (s \o v)[i] = s[i]
  OBVIOUS
<1>3. (s \o v)[Len(s) + 1] = v[1]
  OBVIOUS
<1> QED
  BY <1>1, <1>a, <1>2, <1>3

LEMMA PagesOfRead ==
  ASSUME NEW d \in [Fields -> Seq(Values)], NEW e, NEW p \in Pages, NEW on \in Readers,
         ReadEffect(on, d, e, p), NEW f \in Fields
  PROVE  PagesOf(e[f]) \subseteq PagesOf(d[f]) \cup {p}
<1>0. on \in Handlers
  BY DEF Readers, Handlers, Sections
<1>1. /\ Value(p, on) \in Seq(Values) /\ d[f] \in Seq(Values)
      /\ Len(Value(p, on)) = 1 /\ Value(p, on)[1].page = p
  <2>1. Value(p, on)[1] = [page |-> p, by |-> on]
    BY <1>0, ValueType
  <2> QED
    BY <1>0, <2>1, ValueType
<1>2. PagesOf(Value(p, on)) = {p}
  BY <1>1 DEF PagesOf
<1>3. PagesOf(d[f] \o Value(p, on)) \subseteq PagesOf(d[f]) \cup {p}
  <2> DEFINE s == d[f] \o Value(p, on)
  <2>1. /\ s \in Seq(Values) /\ Len(s) = Len(d[f]) + 1 /\ Len(d[f]) \in Nat
        /\ \A i \in 1 .. Len(d[f]) : s[i] = d[f][i]
        /\ s[Len(d[f]) + 1] = Value(p, on)[1]
    BY <1>1, ConcatOne
  <2> HIDE DEF s
  <2>2. DOMAIN s = 1 .. Len(d[f]) + 1 /\ DOMAIN d[f] = 1 .. Len(d[f])
    BY <1>1, <2>1
  <2>3. PagesOf(s) \subseteq PagesOf(d[f]) \cup {p}
    BY <1>1, <2>1, <2>2 DEF PagesOf
  <2> QED
    BY <2>3 DEF s
<1> QED
  BY <1>2, <1>3 DEF ReadEffect

LEMMA OpenedStep ==
  ASSUME Types, FramesInv, HandlersInv, OpenedInv, Next
  PROVE  OpenedInv'
<1>1. tender' \in {0} \cup Tenders /\ tender \in Int /\ tender' \in Int
  <2>1. Types'
    BY TypesStep
  <2>2. tender \in {0} \cup Tenders /\ tender' \in {0} \cup Tenders
    BY <2>1 DEF Types
  <2> QED
    BY <2>2 DEF Tenders
<1>2. ASSUME NEW t \in Tenders, t > tender' PROVE Fresh(t)'
  <2>1. t > tender /\ t # tender /\ t # tender'
    BY <1>1, <1>2, OpenedChange DEF Tenders
  <2>2. Fresh(t)
    BY <2>1 DEF OpenedInv
  <2>3. opened'[t] = opened[t]
    BY <2>1, OpenedChange DEF Types
  <2>4. data'[t] = data[t]
    BY <2>1, DataChange, ReadingFacts DEF Types
  <2>5. corrigenda'[t] = corrigenda[t]
    BY <2>1, DataChange DEF Types, RowAdded, DetailAdded
  <2>6. result'[t] = result[t]
    BY <2>1, DataChange DEF Types
  <2> QED
    BY <2>2, <2>3, <2>4, <2>5, <2>6 DEF Fresh
<1>3. ASSUME flow' = "active", NEW t \in Tenders PROVE opened'[t] \subseteq visited'
  <2>1. /\ flow = "active" /\ visited \subseteq visited' /\ opened[t] \subseteq visited
        /\ opened \in [Tenders -> SUBSET Pages]
    BY <1>3, OpenedChange DEF OpenedInv, Types
  <2>2. CASE opened' = opened
    BY <2>1, <2>2
  <2>3. ASSUME NEW p \in visited', tender' \in Tenders, opened' = [opened EXCEPT ![tender'] = @ \cup {p}]
        PROVE  opened'[t] \subseteq visited'
    BY <2>1, <2>3
  <2> QED
    BY <2>2, <2>3, OpenedChange
<1> QED
  BY <1>2, <1>3 DEF OpenedInv

(* What a tender has is from pages opened for it. *)
LEMMA OwnPagesStep ==
  ASSUME OwnInv, Next
  PROVE  OwnPages'
<1>0. Types /\ FramesInv /\ HandlersInv /\ OpenedInv /\ OwnPages /\ Types'
  BY TypesStep DEF OwnInv
<1>1. \A t \in Tenders : opened[t] \subseteq opened'[t]
  <2>1. opened \in [Tenders -> SUBSET Pages]
    BY <1>0 DEF Types
  <2>2. opened' = opened \/ \E p \in visited' : tender' \in Tenders /\ opened' = [opened EXCEPT ![tender'] = @ \cup {p}]
    BY <1>0, OpenedChange
  <2> QED
    BY <2>1, <2>2
<1>2. ASSUME NEW t \in Tenders, NEW f \in Fields
      PROVE  PagesOf(data'[t][f]) \subseteq opened'[t] \ {Links[t]}
  <2>1. PagesOf(data[t][f]) \subseteq opened[t] \ {Links[t]}
    BY <1>0 DEF OwnPages
  <2>2. CASE data' = data
    BY <1>1, <2>1, <2>2
  <2>3. ASSUME NEW on \in Readers, Reading(on)
        PROVE  PagesOf(data'[t][f]) \subseteq opened'[t] \ {Links[t]}
    <3>1. /\ tender \in Tenders /\ Top.page \in Pages
          /\ Top.page \in opened[tender] /\ Top.page # Links[tender]
          /\ data[tender] \in [Fields -> Seq(Values)]
          /\ data' = [data EXCEPT ![tender] = data'[tender]]
          /\ ReadEffect(on, data[tender], data'[tender], Top.page)
      BY <1>0, <2>3, ReadingFacts
    <3>2. CASE t = tender
      <4>1. PagesOf(data'[tender][f]) \subseteq PagesOf(data[tender][f]) \cup {Top.page}
        BY <3>1, PagesOfRead
      <4> QED
        BY <1>1, <2>1, <3>1, <3>2, <4>1
    <3>3. CASE t # tender
      BY <1>0, <1>1, <2>1, <3>1, <3>3 DEF Types
    <3> QED
      BY <3>2, <3>3
  <2> QED
    BY <1>0, <2>2, <2>3, DataChange
<1>3. ASSUME NEW t \in Tenders, NEW i \in DOMAIN corrigenda'[t], corrigenda'[t][i].details > 0
      PROVE  corrigenda'[t][i].link \in opened'[t]
  <2>0. corrigenda \in [Tenders -> Seq(Row)]
    BY <1>0 DEF Types, Row
  <2>1. \A j \in DOMAIN corrigenda[t] : corrigenda[t][j].details > 0 => corrigenda[t][j].link \in opened'[t]
    BY <1>0, <1>1 DEF OwnPages
  <2>2. CASE corrigenda'[t] = corrigenda[t]
    BY <1>3, <2>1, <2>2
  <2>3. CASE corrigenda'[t] # corrigenda[t]
    <3>1. Owed /\ tender' = tender /\ (RowAdded \/ DetailAdded)
      BY <1>0, <2>3, DataChange
    <3>2. t = tender
      BY <2>0, <2>3, <3>1 DEF RowAdded, DetailAdded
    <3>3. corrigenda[t] \in Seq(Row)
      BY <2>0
    <3>4. CASE RowAdded
      <4>1. PICK r : r = [link |-> Call.link, details |-> 0]
        OBVIOUS
      <4>2. corrigenda'[t] = Append(corrigenda[t], r) /\ r.details = 0
        BY <2>0, <3>2, <3>4, <4>1 DEF RowAdded
      <4>3. \/ i \in DOMAIN corrigenda[t] /\ corrigenda'[t][i] = corrigenda[t][i]
            \/ corrigenda'[t][i] = r
        BY <1>3, <3>3, <4>2
      <4> QED
        BY <1>3, <2>1, <4>2, <4>3
    <3>5. CASE DetailAdded
      <4>1. corrigenda'[t] = attachDetailToParent(corrigenda[t], Top.page)
        BY <2>0, <3>2, <3>5 DEF DetailAdded
      <4>2. PICK k \in DOMAIN corrigenda[t] :
              /\ corrigenda[t][k].link = Top.page
              /\ corrigenda'[t] = [corrigenda[t] EXCEPT ![k].details = @ + 1]
        <5>1. PICK rows \in Seq(Row) : rows = corrigenda[t]
          BY <3>3
        <5>2. attachDetailToParent(rows, Top.page) # rows
          BY <2>3, <4>1, <5>1
        <5>3. \E k \in DOMAIN rows :
                 /\ rows[k].link = Top.page
                 /\ attachDetailToParent(rows, Top.page) = [rows EXCEPT ![k].details = @ + 1]
          <6>1. \/ /\ attachDetailToParent(rows, Top.page) = rows
                   /\ \A k \in DOMAIN rows : rows[k].link # Top.page
                \/ \E k \in DOMAIN rows :
                     /\ rows[k].link = Top.page
                     /\ attachDetailToParent(rows, Top.page) = [rows EXCEPT ![k].details = @ + 1]
            BY AttachDetailOne
          <6> QED
            BY <5>2, <6>1
        <5> QED
          BY <4>1, <5>1, <5>3
      <4>3. \A j \in DOMAIN corrigenda[t] : corrigenda[t][j] \in Row
        BY <3>3
      <4>4. /\ DOMAIN corrigenda'[t] = DOMAIN corrigenda[t]
            /\ \A j \in DOMAIN corrigenda[t] : corrigenda'[t][j].link = corrigenda[t][j].link
            /\ \A j \in DOMAIN corrigenda[t] : j # k => corrigenda'[t][j] = corrigenda[t][j]
        BY <4>2, <4>3 DEF Row
      <4>5. Top.page \in opened[t]
        BY <1>0, <3>1, <3>2, CallFacts DEF FramesInv, Owed
      <4> QED
        BY <1>1, <1>3, <2>1, <4>2, <4>4, <4>5
    <3> QED
      BY <3>1, <3>4, <3>5
  <2> QED
    BY <2>2, <2>3
<1>4. ASSUME flow' = "active", NEW t \in Tenders, NEW u \in Tenders \ {t}
      PROVE  opened'[t] \cap opened'[u] = {}
  <2>1. /\ flow = "active" /\ opened[t] \cap opened[u] = {}
        /\ opened[t] \subseteq visited /\ opened[u] \subseteq visited
        /\ opened \in [Tenders -> SUBSET Pages]
    BY <1>0, <1>4, OpenedChange DEF OpenedInv, Types, OwnPages
  <2>2. CASE opened' = opened
    BY <2>1, <2>2
  <2>3. ASSUME NEW p \in visited', tender' \in Tenders, opened' = [opened EXCEPT ![tender'] = @ \cup {p}],
               p \notin visited
        PROVE  opened'[t] \cap opened'[u] = {}
    BY <2>1, <2>3
  <2> QED
    BY <1>0, <2>1, <2>2, <2>3, OpenedChange
<1> QED
  BY <1>2, <1>3, <1>4 DEF OwnPages

-----------------------------------------------------------------------------
(* The invariant holds initially and is kept by every step.                *)
LEMMA InitOwn == FlowInit => OwnInv
<1> SUFFICES ASSUME FlowInit PROVE OwnInv
  OBVIOUS
<1>1. Types
  <2>1. <<>> \in Seq(HandlerRec) /\ <<>> \in Seq(Frame) /\ <<>> \in Seq(Values)
        /\ <<>> \in Seq([link : Pages, details : Nat])
    OBVIOUS
  <2>2. site \in Sites /\ flow \in {"active", "past"} /\ skipsDetached \in BOOLEAN
    BY DEF FlowInit, Init
  <2> QED
    BY <2>1, <2>2 DEF FlowInit, Init, PastInit, Types
<1>2. HandlersInv /\ FramesInv
  BY DEF FlowInit, Init, HandlersInv, FramesInv
<1>3. OpenedInv
  BY DEF FlowInit, Init, OpenedInv, Fresh
<1>4. OwnPages
  BY DEF FlowInit, Init, OwnPages, PagesOf
<1> QED
  BY <1>1, <1>2, <1>3, <1>4 DEF OwnInv

LEMMA OwnStep == OwnInv /\ [Next]_allVars => OwnInv'
<1> SUFFICES ASSUME OwnInv, [Next]_allVars PROVE OwnInv'
  OBVIOUS
<1>1. CASE Next
  BY <1>1, TypesStep, FramesStep, HandlersStep, OpenedStep, OwnPagesStep DEF OwnInv
<1>2. CASE UNCHANGED allVars
  <2>1. UNCHANGED <<site, skipsDetached, tender, callbacks, visited, stack, opened, data, corrigenda,
                    result, handled, flow>>
    BY <1>2 DEF allVars, vars, portal
  <2>2. Types' /\ HandlersInv' /\ OpenedInv' /\ OwnPages'
    BY <2>1 DEF OwnInv, Types, HandlersInv, OpenedInv, Fresh, OwnPages
  <2>3. \A p, c : Owes(p, c)' = Owes(p, c)
    BY <2>1 DEF Owes, Elements, Once
  <2>4. FramesInv'
    BY <2>1, <2>3 DEF OwnInv, FramesInv
  <2> QED
    BY <2>2, <2>4 DEF OwnInv
<1> QED
  BY <1>1, <1>2

(* The extraction stays in states of this shape, whatever the portal. *)
THEOREM OwnInvariance == Spec => []OwnInv
<1> QED
  BY InitOwn, OwnStep, PTL DEF Spec

LEMMA TypesImply == OwnInv => PagesTypeOK
<1> SUFFICES ASSUME OwnInv PROVE PagesTypeOK
  OBVIOUS
<1>1. Types /\ FramesInv
  BY DEF OwnInv
<1>2. ASSUME NEW i \in DOMAIN stack
      PROVE  /\ stack[i].page \in opened[tender]
             /\ stack[i].opener \in {"start"} \cup LinkKinds
             /\ stack[i].left \subseteq [cb : DOMAIN callbacks, nth : Nat, link : Pages]
  <2>1. stack # <<>> /\ stack[i] \in Frame
    BY <1>1 DEF Types
  <2>2. stack[i].opener \in Openers /\ stack[i].left \subseteq CallRec
    BY <2>1 DEF Frame
  <2>3. stack[i].page \in opened[tender] /\ \A c \in stack[i].left : c.cb \in DOMAIN callbacks
    BY <1>1, <2>1 DEF FramesInv, Owes
  <2>4. ASSUME NEW c \in stack[i].left PROVE c \in [cb : DOMAIN callbacks, nth : Nat, link : Pages]
    <3>1. c \in [cb : Nat \ {0}, nth : Nat, link : Pages] /\ c.cb \in DOMAIN callbacks
      BY <2>2, <2>3 DEF CallRec
    <3> QED
      BY <3>1
  <2> QED
    BY <2>2, <2>3, <2>4 DEF Openers
<1>3. callbacks \in Seq([on : Handlers, for : Tenders, attached : BOOLEAN])
  BY <1>1 DEF Types, HandlerRec
<1>4. TypeOK
  BY <1>1, <1>2, <1>3 DEF TypeOK, Types
<1> QED
  BY <1>1, <1>4 DEF PagesTypeOK, Types

(* The variables have their types. *)
THEOREM PagesTypeOKAlways == Spec => []PagesTypeOK
<1> QED
  BY OwnInvariance, TypesImply, PTL

(* A tender has only what was read from pages visited for it, never from   *)
(* its start page, and no page is read for two active tenders.             *)
THEOREM OwnPagesAlways == Spec => []OwnPages
<1>1. OwnInv => OwnPages
  BY DEF OwnInv
<1> QED
  BY <1>1, OwnInvariance, PTL

-----------------------------------------------------------------------------
(***************************************************************************)
(* Rows, once for every page.                                              *)
(***************************************************************************)

(* The handler whose calls append to a field. *)
RowsBy(f) == IF f \in {"payment", "covers"} THEN f ELSE "html"
RowHandlers == {"payment", "covers", "html"}

MoreLinks(t) == Range(site[Links[t]].links["more"])
OnePage(t) == \A p, q \in MoreLinks(t) : p = q

(* The handlers attached: only the ones that follow links and those for    *)
(* the details of a corrigendum are ever detached; with the handlers of    *)
(* the details of an active tender the one that followed the link is gone. *)
AttachedInv ==
  /\ \A i \in DOMAIN callbacks : callbacks[i].on \in Readers => callbacks[i].attached
  /\ flow = "active" => \A i \in DOMAIN callbacks :
       /\ callbacks[i].on # "html"
       /\ callbacks[i].on = "more" => i = 1
       /\ callbacks[i].on \in {"payment", "covers", "corrigendum"} =>
            /\ \A f \in {"payment", "covers"} : \E j \in DOMAIN callbacks : callbacks[j].on = f
            /\ \A j \in DOMAIN callbacks : callbacks[j].on = "more" => ~callbacks[j].attached
  /\ flow = "past" => \A i \in DOMAIN callbacks :
       /\ callbacks[i].on \in {"payment", "covers"} => "more" \in handled
       /\ callbacks[i].on = "html" => "summary" \in handled

(* The handlers of an active tender's details are attached a second time   *)
(* only by a call that visits nothing and is the last that visits.         *)
OnceInv ==
  stack # <<>> =>
    /\ result[tender] = "none"
    /\ opened[tender] \subseteq visited
    /\ flow = "active" =>
         /\ \A i \in DOMAIN stack : \A c \in stack[i].left : callbacks[c.cb].on = "more" => i = 1
         /\ (\E i \in DOMAIN callbacks : callbacks[i].on \in {"payment", "covers"}) /\ OnePage(tender)
              => MoreLinks(tender) \subseteq visited
    /\ DetailsOnePage(tender) =>
         \A i, j \in DOMAIN callbacks :
           callbacks[i].on \in RowHandlers /\ callbacks[i].on = callbacks[j].on =>
             i = j \/ (flow = "active" /\ Len(stack) = 1)

(* A page that owes a call of a handler that appends owes one, and has no  *)
(* row yet.                                                                *)
RowCallsInv ==
  stack # <<>> /\ DetailsOnePage(tender) =>
    \A i \in DOMAIN stack : \A c \in stack[i].left : callbacks[c.cb].on \in RowHandlers =>
      /\ \A d \in stack[i].left : callbacks[d.cb].on = callbacks[c.cb].on => d = c
      /\ \A f \in Repeated : callbacks[c.cb].on = RowsBy(f) =>
           stack[i].page \notin PagesOf(data[tender][f])

(* A page that shows rows has them kept or owes the call that keeps them.  *)
Kept(t, f) ==
  {p \in opened[t] \ {Links[t]} :
     /\ site[p].html /\ Shows(p, f)
     /\ IF flow = "active" THEN f \in {"payment", "covers"}
        ELSE f \in {"bids", "financial", "awarded"} /\ \A q \in opened[t] : ~Lists(q, p, "more")}

OwesRow(p, f) ==
  \E i \in DOMAIN stack : stack[i].page = p /\ \E c \in stack[i].left : callbacks[c.cb].on = RowsBy(f)

RowsInv ==
  \A t \in Tenders : \A f \in Repeated :
    /\ DetailsOnePage(t) => NoDuplicates(data[t][f])
    /\ \A p \in PagesOf(data[t][f]) : site[p].html /\ Shows(p, f)
    /\ t <= tender => \A p \in Kept(t, f) : p \in PagesOf(data[t][f]) \/ (t = tender /\ OwesRow(p, f))

ExactInv == OwnInv /\ AttachedInv /\ OnceInv /\ RowCallsInv /\ RowsInv

-----------------------------------------------------------------------------
(* The steps again, with what they do to the handlers attached.            *)
FollowsDetails ==
  /\ flow = "active" /\ Visits("more")
  /\ callbacks' = Attach(Detach(callbacks, "more"), DetailHandlers, tender)
  /\ UNCHANGED <<handled, corrigenda>>

PastFollows(kind, sel) ==
  /\ flow = "past" /\ Visits(kind) /\ kind \notin handled /\ handled' = handled \cup {kind}
  /\ callbacks' = Attach(callbacks, sel, tender)
  /\ UNCHANGED corrigenda

FollowsCorrigendum ==
  /\ flow = "active" /\ Visits("corrigendum") /\ RowAdded /\ UNCHANGED handled
  /\ callbacks' = IF Call.link \notin visited /\ stack' # Called
                  THEN Attach(callbacks, <<"list_table">>, tender)
                  ELSE Detach(Attach(callbacks, <<"list_table">>, tender), "list_table")

Skips ==
  /\ Pops /\ UNCHANGED <<callbacks, data, corrigenda>>
  /\ \/ flow = "past" /\ Handler.on \in handled
     \/ ~Handler.attached

ListsRow ==
  /\ flow = "past" /\ Calling("corrigendum") /\ Pops /\ UNCHANGED data /\ RowAdded
  /\ callbacks' = Detach(callbacks, "list_table")

AddsDetail ==
  /\ flow = "active" /\ Calling("list_table") /\ Pops /\ UNCHANGED <<callbacks, data>> /\ DetailAdded

Ends ==
  /\ Returns
  /\ callbacks' = IF flow = "active" THEN afterVisit(Top.opener) ELSE callbacks
  /\ \/ Top.opener # "start" /\ result' = result
     \/ Top.opener = "start" /\ \E r \in {"ok", "error"} : result' = [result EXCEPT ![tender] = r]

(* The first handlers follow the links to the details and the summary. *)
StartsFresh ==
  /\ Starts
  /\ flow = "active" => Len(callbacks') = 1
  /\ flow = "past" => Len(callbacks') = 2 /\ callbacks'[2].on = "summary" /\ handled' = {}
  /\ callbacks'[1].on = "more"
  /\ \A i \in DOMAIN callbacks' : callbacks'[i].attached

FineStep ==
  \/ StartsFresh
  \/ FollowsDetails
  \/ PastFollows("more", DetailHandlers)
  \/ PastFollows("summary", <<"html">>)
  \/ FollowsCorrigendum
  \/ \E on \in Readers : Reading(on)
  \/ Skips
  \/ ListsRow
  \/ AddsDetail
  \/ Ends

LEMMA CalledNotArrived ==
  ASSUME Types, FramesInv, Owed, NEW f, stack' = Append(Called, f)
  PROVE  stack' # Called
<1>1. Called \in Seq(Frame)
  BY CalledFacts
<1>2. PICK s \in Seq(Frame) : s = Called
  BY <1>1
<1>3. Len(Append(s, f)) = Len(s) + 1 /\ Len(s) \in Nat
  OBVIOUS
<1> QED
  BY <1>2, <1>3

LEMMA FineSteps ==
  ASSUME Types, FramesInv, HandlersInv, Next
  PROVE  FineStep
<1>0. Owed => /\ tender \in Tenders /\ Handler.for = tender
  BY CallFacts DEF HandlersInv, Handler, Owes
<1>1. CASE flow = "active" /\ ActiveNext /\ UNCHANGED <<handled, flow>>
  <2>1. CASE ExtractSingleTender
    <3>1. Starts /\ callbacks' = Attach(<<>>, <<"more">>, tender')
      BY <1>1, <2>1, StartIsStarts DEF ExtractSingleTender, Arrives, Fails, SetupHandlers, Clone
    <3>2. tender' \in Tenders
      BY <3>1, CollectorAssumption DEF Starts, Types, Tenders
    <3>3. Len(callbacks') = 1 /\ callbacks'[1].on = "more" /\ callbacks'[1].attached
      BY <3>1, <3>2, FirstHandlers
    <3> QED
      BY <1>1, <3>1, <3>3 DEF FineStep, StartsFresh, Starts
  <2>2. CASE setupNavigationHandler
    <3>1. Visits("more") /\ UNCHANGED corrigenda
      BY <1>1, <2>2, FollowIsVisits
    <3>2. callbacks' = Attach(Detach(callbacks, "more"), DetailHandlers, tender)
      BY <1>0, <2>2 DEF setupNavigationHandler, navigationHandlers, Arrives, Fails, Calling
    <3> QED
      BY <1>1, <3>1, <3>2 DEF FineStep, FollowsDetails
  <2>3. CASE setupCorrigendumHandler
    <3>1. Visits("corrigendum") /\ RowAdded
      BY <1>1, <2>3, FollowIsVisits
    <3>2. Owed /\ Handler.for = tender
      BY <1>0, <2>3 DEF setupCorrigendumHandler, Calling
    <3>3. \/ /\ callbacks' = WithDetailHandler(tender) /\ Call.link \notin visited
             /\ \E f : stack' = Append(Called, f)
          \/ callbacks' = Detach(WithDetailHandler(tender), "list_table") /\ stack' = Called
      BY <2>3, <3>2 DEF setupCorrigendumHandler, Arrives, Fails, Refused
    <3>4. /\ (\E f : stack' = Append(Called, f)) => stack' # Called
      BY <3>2, CalledNotArrived
    <3> QED
      BY <1>1, <3>1, <3>3, <3>4 DEF FineStep, FollowsCorrigendum, WithDetailHandler
  <2>4. CASE setupCorrigendumDetailHandler
    BY <1>1, <2>4, OtherPops DEF FineStep, AddsDetail
  <2>5. CASE skipCall
    BY <1>1, <2>5, OtherPops DEF FineStep, Skips, skipCall, Skippable
  <2>6. CASE visitReturns
    <3>1. Returns
      BY <1>1, <2>6, ReturnsIsReturns
    <3> QED
      BY <1>1, <2>6, <3>1 DEF FineStep, Ends, visitReturns
  <2> QED
    BY <1>1, <2>1, <2>2, <2>3, <2>4, <2>5, <2>6, ReadIsReading DEF ActiveNext, FineStep
<1>2. CASE flow = "past" /\ PastNext /\ UNCHANGED flow
  <2>1. CASE pastExtract
    <3>1. Starts /\ callbacks' = Attach(<<>>, <<"more", "summary">>, tender') /\ handled' = {}
      BY <1>2, <2>1, StartIsStarts DEF pastExtract, Arrives, Fails, NewPastTender
    <3>2. tender' \in Tenders
      BY <3>1, CollectorAssumption DEF Starts, Types, Tenders
    <3>3. /\ Len(callbacks') = 2 /\ callbacks'[1].on = "more" /\ callbacks'[1].attached
          /\ callbacks'[2].on = "summary" /\ callbacks'[2].attached
      BY <3>1, <3>2, FirstHandlers
    <3> QED
      BY <1>2, <3>1, <3>3 DEF FineStep, StartsFresh, Starts
  <2>2. CASE \E kind \in {"more", "summary"} : alreadyHandled(kind)
    <3>1. Pops /\ UNCHANGED <<data, corrigenda>>
      BY <1>2, <2>2, OtherPops
    <3>2. Handler.on \in handled /\ callbacks' = callbacks
      BY <2>2 DEF alreadyHandled, Calling
    <3> QED
      BY <1>2, <3>1, <3>2 DEF FineStep, Skips
  <2>3. CASE setupTenderDataHandler
    <3>1. Visits("more") /\ UNCHANGED corrigenda
      BY <1>2, <2>3, FollowIsVisits
    <3>2. follow("more", DetailHandlers)
      BY <2>3 DEF setupTenderDataHandler, DetailHandlers
    <3>3. /\ callbacks' = Attach(callbacks, DetailHandlers, tender)
          /\ "more" \notin handled /\ handled' = handled \cup {"more"}
      BY <1>0, <3>2 DEF follow, FirstOf, Arrives, Fails, Calling
    <3> QED
      BY <1>2, <3>1, <3>3 DEF FineStep, PastFollows
  <2>4. CASE setupPastTenderDataHandler
    <3>1. Visits("summary") /\ UNCHANGED corrigenda
      BY <1>2, <2>4, FollowIsVisits
    <3>2. follow("summary", <<"html">>)
      BY <2>4 DEF setupPastTenderDataHandler
    <3>3. /\ callbacks' = Attach(callbacks, <<"html">>, tender)
          /\ "summary" \notin handled /\ handled' = handled \cup {"summary"}
      BY <1>0, <3>2 DEF follow, FirstOf, Arrives, Fails, Calling
    <3> QED
      BY <1>2, <3>1, <3>3 DEF FineStep, PastFollows
  <2>5. CASE \/ pastBasicDetailsHandler \/ pastPaymentHandler \/ pastCoverHandler
             \/ pastDocumentsHandler \/ pastFeeHandler \/ pastEMDHandler \/ pastDatesHandler
             \/ pastWorkHandler \/ pastAuthorityHandler \/ pastFallbackHandler \/ extractResults
    <3>1. UNCHANGED handled
      BY <2>5 DEF pastBasicDetailsHandler, pastPaymentHandler, pastCoverHandler,
             pastDocumentsHandler, pastFeeHandler, pastEMDHandler, pastDatesHandler,
             pastWorkHandler, pastAuthorityHandler, pastFallbackHandler, extractResults, pastReads
    <3> QED
      BY <1>2, <2>5, <3>1, ReadIsReading DEF FineStep
  <2>6. CASE pastCorrigendumHandler
    <3>1. callbacks' = Detach(callbacks, "list_table")
      BY <2>6 DEF pastCorrigendumHandler
    <3> QED
      BY <1>2, <2>6, <3>1, OtherPops DEF FineStep, ListsRow
  <2>7. CASE pastVisitReturns
    <3>1. Returns
      BY <1>2, <2>7, ReturnsIsReturns DEF pastVisitReturns
    <3> QED
      BY <1>2, <2>7, <3>1 DEF FineStep, Ends, pastVisitReturns
  <2> QED
    BY <1>2, <2>1, <2>2, <2>3, <2>4, <2>5, <2>6, <2>7 DEF PastNext
<1> QED
  BY <1>1, <1>2 DEF Next

-----------------------------------------------------------------------------
(* The handlers attached, step by step.                                    *)
LEMMA DetailsFacts ==
  /\ DOMAIN DetailHandlers = 1 .. 11
  /\ DetailHandlers[1] = "basic" /\ DetailHandlers[2] = "payment" /\ DetailHandlers[3] = "covers"
  /\ DetailHandlers[7] = "dates" /\ DetailHandlers[8] = "work"
  /\ DetailHandlers[9] = "corrigendum" /\ DetailHandlers[11] = "body"
  /\ \A j \in 1 .. 11 : /\ DetailHandlers[j] \in Readers \cup {"corrigendum"}
                        /\ DetailHandlers[j] # "html"
  /\ \A j, k \in 1 .. 11 : DetailHandlers[j] = DetailHandlers[k] => j = k
BY DEF DetailHandlers, Readers

(* A handler after attaching is one of before or one of the new ones. *)
LEMMA AttachCases ==
  ASSUME NEW cbs \in Seq(HandlerRec), NEW sel \in Seq(Handlers), NEW t \in Tenders,
         NEW i \in DOMAIN Attach(cbs, sel, t)
  PROVE  \/ i \in DOMAIN cbs /\ Attach(cbs, sel, t)[i] = cbs[i]
         \/ /\ i \notin DOMAIN cbs /\ i - Len(cbs) \in DOMAIN sel
            /\ Attach(cbs, sel, t)[i] = [on |-> sel[i - Len(cbs)], for |-> t, attached |-> TRUE]
<1> DEFINE new == Attach(cbs, sel, t)
<1>1. /\ new \in Seq(HandlerRec) /\ Len(new) = Len(cbs) + Len(sel)
      /\ \A j \in DOMAIN cbs : new[j] = cbs[j]
      /\ \A j \in DOMAIN sel : new[Len(cbs) + j] = [on |-> sel[j], for |-> t, attached |-> TRUE]
  BY AttachFacts
<1>2. i \in DOMAIN new
  OBVIOUS
<1> HIDE DEF new
<1>3. DOMAIN cbs = 1 .. Len(cbs) /\ DOMAIN sel = 1 .. Len(sel) /\ DOMAIN new = 1 .. Len(new)
      /\ Len(cbs) \in Nat /\ Len(sel) \in Nat
  BY <1>1
<1>4. CASE i \in DOMAIN cbs
  BY <1>1, <1>4 DEF new
<1>5. CASE i \notin DOMAIN cbs
  <2>1. i - Len(cbs) \in DOMAIN sel /\ Len(cbs) + (i - Len(cbs)) = i
    BY <1>1, <1>2, <1>3, <1>5
  <2>2. new[Len(cbs) + (i - Len(cbs))] = [on |-> sel[i - Len(cbs)], for |-> t, attached |-> TRUE]
    BY <1>1, <2>1, Zenon
  <2> QED
    BY <1>5, <2>1, <2>2 DEF new
<1> QED
  BY <1>4, <1>5

(* What a step does to the handlers: the ones of sel are attached, and of  *)
(* the others some that follow a link or read a detail are detached.       *)
Adds(sel) ==
  /\ Len(callbacks') = Len(callbacks) + Len(sel)
  /\ \A i \in DOMAIN callbacks :
       /\ i \in DOMAIN callbacks' /\ callbacks'[i].on = callbacks[i].on
       /\ callbacks'[i].attached => callbacks[i].attached
       /\ callbacks[i].attached /\ callbacks[i].on \notin {"more", "list_table"} =>
            callbacks'[i].attached
  /\ \A i \in DOMAIN callbacks' : i \notin DOMAIN callbacks =>
       /\ i - Len(callbacks) \in DOMAIN sel
       /\ callbacks'[i].on = sel[i - Len(callbacks)]
       /\ callbacks'[i].on # "list_table" => callbacks'[i].attached
  /\ \A j \in DOMAIN sel :
       /\ Len(callbacks) + j \in DOMAIN callbacks'
       /\ callbacks'[Len(callbacks) + j].on = sel[j]

LEMMA AttachAdds ==
  ASSUME Types, NEW cbs \in Seq(HandlerRec), tender \in Tenders, NEW sel \in Seq(Handlers),
         Len(cbs) = Len(callbacks),
         \A i \in DOMAIN callbacks :
           /\ cbs[i].on = callbacks[i].on
           /\ cbs[i].attached => callbacks[i].attached
           /\ callbacks[i].attached /\ callbacks[i].on \notin {"more", "list_table"} => cbs[i].attached,
         callbacks' = Attach(cbs, sel, tender)
  PROVE  Adds(sel)
<1>1. /\ callbacks' \in Seq(HandlerRec) /\ Len(callbacks') = Len(cbs) + Len(sel)
      /\ \A j \in DOMAIN cbs : callbacks'[j] = cbs[j]
      /\ \A j \in DOMAIN sel :
           callbacks'[Len(cbs) + j] = [on |-> sel[j], for |-> tender, attached |-> TRUE]
  BY AttachFacts
<1>2. \A i \in DOMAIN callbacks' :
        \/ i \in DOMAIN cbs /\ callbacks'[i] = cbs[i]
        \/ /\ i \notin DOMAIN cbs /\ i - Len(cbs) \in DOMAIN sel
           /\ callbacks'[i] = [on |-> sel[i - Len(cbs)], for |-> tender, attached |-> TRUE]
  BY AttachCases
<1>3. DOMAIN cbs = 1 .. Len(cbs) /\ DOMAIN callbacks = 1 .. Len(cbs) /\ DOMAIN sel = 1 .. Len(sel)
      /\ DOMAIN callbacks' = 1 .. Len(callbacks') /\ Len(cbs) \in Nat /\ Len(sel) \in Nat
  BY <1>1 DEF Types
<1>4. \A i \in DOMAIN callbacks : i \in DOMAIN callbacks' /\ callbacks'[i] = cbs[i]
  BY <1>1, <1>3
<1>5. ASSUME NEW i \in DOMAIN callbacks', i \notin DOMAIN callbacks
      PROVE  /\ i - Len(callbacks) \in DOMAIN sel
             /\ callbacks'[i].on = sel[i - Len(callbacks)] /\ callbacks'[i].attached
  <2>1. /\ i - Len(cbs) \in DOMAIN sel
        /\ callbacks'[i] = [on |-> sel[i - Len(cbs)], for |-> tender, attached |-> TRUE]
    BY <1>2, <1>3, <1>5
  <2> QED
    BY <2>1
<1>6. ASSUME NEW j \in DOMAIN sel
      PROVE  Len(callbacks) + j \in DOMAIN callbacks' /\ callbacks'[Len(callbacks) + j].on = sel[j]
  <2>1. Len(cbs) + j \in DOMAIN callbacks'
    BY <1>1, <1>3
  <2>2. callbacks'[Len(cbs) + j] = [on |-> sel[j], for |-> tender, attached |-> TRUE]
    BY <1>1, Zenon
  <2> QED
    BY <2>1, <2>2
<1> QED
  BY <1>1, <1>4, <1>5, <1>6 DEF Adds

LEMMA AddsNone ==
  ASSUME Types, GrowsTo(callbacks'), Len(callbacks') = Len(callbacks),
         \A i \in DOMAIN callbacks :
           /\ callbacks'[i].attached => callbacks[i].attached
           /\ callbacks[i].attached /\ callbacks[i].on \notin {"more", "list_table"} =>
                callbacks'[i].attached
  PROVE  Adds(<<>>)
<1>1. DOMAIN callbacks' = DOMAIN callbacks
  BY DEF Types, GrowsTo
<1>2. Len(<<>>) = 0 /\ DOMAIN <<>> = {} /\ Len(callbacks) \in Nat
  BY DEF Types
<1> QED
  BY <1>1, <1>2 DEF GrowsTo, Adds

(* Detaching a handler leaves the others as they are. *)
LEMMA DetachKeeps ==
  ASSUME NEW cbs \in Seq(HandlerRec), NEW sel \in Handlers
  PROVE  /\ Detach(cbs, sel) \in Seq(HandlerRec) /\ Len(Detach(cbs, sel)) = Len(cbs)
         /\ \A i \in DOMAIN cbs :
              /\ Detach(cbs, sel)[i].on = cbs[i].on
              /\ Detach(cbs, sel)[i].for = cbs[i].for
              /\ Detach(cbs, sel)[i].attached => cbs[i].attached
              /\ cbs[i].attached /\ cbs[i].on # sel => Detach(cbs, sel)[i].attached
<1> DEFINE new == Detach(cbs, sel)
<1>1. /\ new \in Seq(HandlerRec) /\ Len(new) = Len(cbs)
      /\ \/ new = cbs
         \/ \E i \in DOMAIN cbs : cbs[i].on = sel /\ new = [cbs EXCEPT ![i].attached = FALSE]
  <2>1. new \in Seq(HandlerRec) /\ Len(new) = Len(cbs)
    BY DetachFacts
  <2>2. \/ new = cbs
        \/ \E i \in DOMAIN cbs : cbs[i].on = sel /\ new = [cbs EXCEPT ![i].attached = FALSE]
    BY DetachOne
  <2> QED
    BY <2>1, <2>2
<1> HIDE DEF new
<1>2. \A i \in DOMAIN cbs : cbs[i] \in HandlerRec
  OBVIOUS
<1>3. \A i \in DOMAIN cbs : /\ new[i].on = cbs[i].on /\ new[i].for = cbs[i].for
                            /\ new[i].attached => cbs[i].attached
                            /\ cbs[i].attached /\ cbs[i].on # sel => new[i].attached
  BY <1>1, <1>2 DEF HandlerRec
<1> QED
  BY <1>1, <1>3 DEF new

LEMMA HandlersChange ==
  ASSUME Types, FramesInv, HandlersInv
  PROVE  /\ FollowsDetails => Adds(DetailHandlers)
         /\ PastFollows("more", DetailHandlers) => Adds(DetailHandlers)
         /\ PastFollows("summary", <<"html">>) => Adds(<<"html">>)
         /\ FollowsCorrigendum => Adds(<<"list_table">>)
         /\ (\E on \in Readers : Reading(on)) \/ Skips \/ ListsRow \/ AddsDetail \/ Ends => Adds(<<>>)
<1>0. callbacks \in Seq(HandlerRec) /\ GrowsTo(callbacks)
  BY GrowsSame DEF Types
<1>1. Owed => tender \in Tenders
  BY CallFacts
<1>2. ASSUME FollowsDetails PROVE Adds(DetailHandlers)
  <2>1. tender \in Tenders
    BY <1>1, <1>2 DEF FollowsDetails, Visits, Calling
  <2> DEFINE cbs == Detach(callbacks, "more")
  <2>2. /\ cbs \in Seq(HandlerRec) /\ Len(cbs) = Len(callbacks)
        /\ \A i \in DOMAIN callbacks :
              /\ cbs[i].on = callbacks[i].on
              /\ cbs[i].attached => callbacks[i].attached
              /\ callbacks[i].attached /\ callbacks[i].on # "more" => cbs[i].attached
    BY <1>0, Selectors, DetachKeeps
  <2>3. callbacks' = Attach(cbs, DetailHandlers, tender)
    BY <1>2 DEF FollowsDetails
  <2> HIDE DEF cbs
  <2> QED
    BY <2>1, <2>2, <2>3, Selectors, AttachAdds
<1>3. ASSUME PastFollows("more", DetailHandlers) PROVE Adds(DetailHandlers)
  <2>1. tender \in Tenders /\ callbacks' = Attach(callbacks, DetailHandlers, tender)
    BY <1>1, <1>3 DEF PastFollows, Visits, Calling
  <2> QED
    BY <1>0, <2>1, Selectors, AttachAdds
<1>4. ASSUME PastFollows("summary", <<"html">>) PROVE Adds(<<"html">>)
  <2>1. tender \in Tenders /\ callbacks' = Attach(callbacks, <<"html">>, tender)
    BY <1>1, <1>4 DEF PastFollows, Visits, Calling
  <2> QED
    BY <1>0, <2>1, Selectors, AttachAdds
<1>5. ASSUME FollowsCorrigendum PROVE Adds(<<"list_table">>)
  <2> DEFINE new == Attach(callbacks, <<"list_table">>, tender)
  <2>1. tender \in Tenders /\ (callbacks' = new \/ callbacks' = Detach(new, "list_table"))
    BY <1>1, <1>5 DEF FollowsCorrigendum, Visits, Calling
  <2>2. CASE callbacks' = new
    BY <1>0, <2>1, <2>2, Selectors, AttachAdds
  <2>3. CASE callbacks' = Detach(new, "list_table")
    <3>1. /\ new \in Seq(HandlerRec) /\ Len(new) = Len(callbacks) + Len(<<"list_table">>)
          /\ \A j \in DOMAIN callbacks : new[j] = callbacks[j]
          /\ \A j \in DOMAIN <<"list_table">> :
               new[Len(callbacks) + j] = [on |-> <<"list_table">>[j], for |-> tender, attached |-> TRUE]
      BY <1>0, <2>1, Selectors, AttachFacts
    <3> HIDE DEF new
    <3>2. /\ callbacks' \in Seq(HandlerRec) /\ Len(callbacks') = Len(new)
          /\ \A i \in DOMAIN new : /\ callbacks'[i].on = new[i].on
                                   /\ callbacks'[i].attached => new[i].attached
                                   /\ new[i].attached /\ new[i].on # "list_table" => callbacks'[i].attached
      <4>1. "list_table" \in Handlers
        BY Selectors
      <4>2. new \in Seq(HandlerRec)
        BY <3>1
      <4> QED
        BY <2>3, <4>1, <4>2, DetachKeeps
    <3>3. /\ Len(<<"list_table">>) = 1 /\ DOMAIN <<"list_table">> = {1} /\ <<"list_table">>[1] = "list_table"
          /\ DOMAIN callbacks = 1 .. Len(callbacks) /\ Len(callbacks) \in Nat
      BY <1>0
    <3>4. DOMAIN new = 1 .. Len(callbacks) + 1 /\ DOMAIN callbacks' = 1 .. Len(callbacks) + 1
      BY <3>1, <3>2, <3>3
    <3>5. new[Len(callbacks) + 1].on = "list_table"
      <4>1. new[Len(callbacks) + 1] = [on |-> <<"list_table">>[1], for |-> tender, attached |-> TRUE]
        BY <3>1, <3>3, Zenon
      <4> QED
        BY <3>3, <4>1
    <3>6. \A i \in DOMAIN callbacks :
            /\ i \in DOMAIN callbacks' /\ callbacks'[i].on = callbacks[i].on
            /\ callbacks'[i].attached => callbacks[i].attached
            /\ callbacks[i].attached /\ callbacks[i].on \notin {"more", "list_table"} => callbacks'[i].attached
      BY <3>1, <3>2, <3>3, <3>4
    <3>7. \A i \in DOMAIN callbacks' : i \notin DOMAIN callbacks => i = Len(callbacks) + 1
      BY <3>3, <3>4
    <3>8. callbacks'[Len(callbacks) + 1].on = "list_table"
      BY <3>2, <3>3, <3>4, <3>5
    <3>9. Len(callbacks') = Len(callbacks) + Len(<<"list_table">>)
      BY <3>1, <3>2
    <3>10. ASSUME NEW i \in DOMAIN callbacks', i \notin DOMAIN callbacks
           PROVE  /\ i - Len(callbacks) \in DOMAIN <<"list_table">>
                  /\ callbacks'[i].on = <<"list_table">>[i - Len(callbacks)]
                  /\ callbacks'[i].on # "list_table" => callbacks'[i].attached
      BY <3>3, <3>7, <3>8, <3>10
    <3>11. ASSUME NEW j \in DOMAIN <<"list_table">>
           PROVE  /\ Len(callbacks) + j \in DOMAIN callbacks'
                  /\ callbacks'[Len(callbacks) + j].on = <<"list_table">>[j]
      BY <3>3, <3>4, <3>8
    <3> QED
      BY <3>6, <3>9, <3>10, <3>11 DEF Adds
  <2> QED
    BY <2>1, <2>2, <2>3
<1>6. callbacks' = callbacks => Adds(<<>>)
  BY <1>0, AddsNone
<1>7. callbacks' = Detach(callbacks, "list_table") => Adds(<<>>)
  <2> SUFFICES ASSUME callbacks' = Detach(callbacks, "list_table") PROVE Adds(<<>>)
    OBVIOUS
  <2>1. /\ callbacks' \in Seq(HandlerRec) /\ Len(callbacks') = Len(callbacks)
        /\ \A i \in DOMAIN callbacks :
              /\ callbacks'[i].on = callbacks[i].on
              /\ callbacks'[i].attached => callbacks[i].attached
              /\ callbacks[i].attached /\ callbacks[i].on # "list_table" => callbacks'[i].attached
    BY <1>0, Selectors, DetachKeeps
  <2>2. GrowsTo(callbacks')
    BY <1>0, Selectors, GrowsDetach
  <2> QED
    BY <2>1, <2>2, AddsNone
<1>8. (\E on \in Readers : Reading(on)) \/ Skips \/ AddsDetail => callbacks' = callbacks
  BY DEF Reading, Skips, AddsDetail
<1>9. ListsRow \/ Ends => callbacks' = callbacks \/ callbacks' = Detach(callbacks, "list_table")
  BY DEF ListsRow, Ends, afterVisit
<1> QED
  BY <1>2, <1>3, <1>4, <1>5, <1>6, <1>7, <1>8, <1>9

(* The handlers of the details. *)
LEMMA AddsDetails ==
  ASSUME Types, Adds(DetailHandlers)
  PROVE  /\ \A i \in DOMAIN callbacks' : i \notin DOMAIN callbacks =>
              /\ callbacks'[i].on \in Readers \cup {"corrigendum"} /\ callbacks'[i].on # "html"
              /\ callbacks'[i].attached
              /\ i - Len(callbacks) \in 1 .. 11
              /\ callbacks'[i].on = DetailHandlers[i - Len(callbacks)]
         /\ \A j \in 1 .. 11 : /\ Len(callbacks) + j \in DOMAIN callbacks' \ DOMAIN callbacks
                               /\ callbacks'[Len(callbacks) + j].on = DetailHandlers[j]
         /\ \A f \in {"payment", "covers"} : \E j \in DOMAIN callbacks' : callbacks'[j].on = f
<1>1. ASSUME NEW i \in DOMAIN callbacks', i \notin DOMAIN callbacks
      PROVE  /\ callbacks'[i].on \in Readers \cup {"corrigendum"} /\ callbacks'[i].on # "html"
             /\ callbacks'[i].attached
             /\ i - Len(callbacks) \in 1 .. 11
             /\ callbacks'[i].on = DetailHandlers[i - Len(callbacks)]
  <2>1. PICK j \in 1 .. 11 : j = i - Len(callbacks) /\ callbacks'[i].on = DetailHandlers[j]
    BY <1>1, DetailsFacts DEF Adds
  <2>2. DetailHandlers[j] \in Readers \cup {"corrigendum"} /\ DetailHandlers[j] # "html"
    BY DetailsFacts
  <2>3. callbacks'[i].on # "list_table"
    BY <2>1, <2>2 DEF Readers
  <2>4. callbacks'[i].attached
    BY <1>1, <2>3 DEF Adds
  <2> QED
    BY <2>1, <2>2, <2>4
<1>2. ASSUME NEW j \in 1 .. 11
      PROVE  /\ Len(callbacks) + j \in DOMAIN callbacks' \ DOMAIN callbacks
             /\ callbacks'[Len(callbacks) + j].on = DetailHandlers[j]
  <2>1. Len(callbacks) + j \in DOMAIN callbacks' /\ callbacks'[Len(callbacks) + j].on = DetailHandlers[j]
    BY DetailsFacts DEF Adds
  <2>2. Len(callbacks) + j \notin DOMAIN callbacks
    BY DEF Types
  <2> QED
    BY <2>1, <2>2
<1>3. \A f \in {"payment", "covers"} : \E j \in DOMAIN callbacks' : callbacks'[j].on = f
  <2>1. 2 \in 1 .. 11 /\ 3 \in 1 .. 11
    OBVIOUS
  <2> QED
    BY <1>2, <2>1, DetailsFacts
<1> QED
  BY <1>1, <1>2, <1>3

(* Which handlers there are, and which of them are attached. *)
LEMMA AttachedStep ==
  ASSUME Types, FramesInv, HandlersInv, AttachedInv, FineStep, Types'
  PROVE  AttachedInv'
<1>0. callbacks \in Seq(HandlerRec) /\ DOMAIN callbacks = 1 .. Len(callbacks) /\ Len(callbacks) \in Nat
  BY DEF Types
<1>1. CASE StartsFresh
  <2>1. /\ \A i \in DOMAIN callbacks' : callbacks'[i].on \in {"more", "summary"} /\ callbacks'[i].attached
        /\ flow' = flow
        /\ flow = "active" => \A i \in DOMAIN callbacks' : i = 1
    <3>1. callbacks' \in Seq(HandlerRec)
      BY <1>1 DEF StartsFresh, Starts
    <3>2. Len(callbacks') = 1 => \A i \in DOMAIN callbacks' : i = 1
      BY <3>1
    <3> QED
      BY <1>1, <3>2 DEF StartsFresh, Starts
  <2> QED
    BY <2>1 DEF AttachedInv, Readers
<1>2. CASE FollowsDetails
  <2>1. Adds(DetailHandlers) /\ flow = "active" /\ flow' = flow
    BY <1>2, HandlersChange DEF FollowsDetails, Visits
  <2>2. \A i \in DOMAIN callbacks' : i \notin DOMAIN callbacks =>
          /\ callbacks'[i].on \in Readers \cup {"corrigendum"} /\ callbacks'[i].on # "html"
          /\ callbacks'[i].attached
    BY <2>1, AddsDetails
  <2>3. \A f \in {"payment", "covers"} : \E j \in DOMAIN callbacks' : callbacks'[j].on = f
    BY <2>1, AddsDetails
  <2>4. \A j \in DOMAIN callbacks : callbacks'[j].on = "more" => ~callbacks'[j].attached
    <3> DEFINE cbs == Detach(callbacks, "more")
    <3>1. /\ cbs \in Seq(HandlerRec) /\ Len(cbs) = Len(callbacks)
          /\ \/ /\ cbs = callbacks
                /\ \A i \in DOMAIN callbacks : ~ (callbacks[i].attached /\ callbacks[i].on = "more")
             \/ \E i \in DOMAIN callbacks :
                   callbacks[i].on = "more" /\ cbs = [callbacks EXCEPT ![i].attached = FALSE]
      BY <1>0, Selectors, DetachFacts
    <3>2. tender \in Tenders /\ callbacks' = Attach(cbs, DetailHandlers, tender)
      BY <1>2, CallFacts DEF FollowsDetails, Visits, Calling
    <3> HIDE DEF cbs
    <3>3. \A j \in DOMAIN cbs : callbacks'[j] = cbs[j]
      BY <3>1, <3>2, Selectors, AttachFacts
    <3>4. \A j \in DOMAIN callbacks : j \in DOMAIN cbs /\ callbacks[j] \in HandlerRec
      BY <1>0, <3>1
    <3>5. \A j \in DOMAIN callbacks : callbacks[j].on = "more" => j = 1
      BY <2>1 DEF AttachedInv
    <3>6. \A j \in DOMAIN callbacks : cbs[j].on = "more" => ~cbs[j].attached
      BY <3>1, <3>4, <3>5 DEF HandlerRec
    <3> QED
      BY <3>3, <3>4, <3>6
  <2> QED
    BY <2>1, <2>2, <2>3, <2>4 DEF AttachedInv, Adds, Readers
<1>3. CASE PastFollows("more", DetailHandlers)
  <2>1. /\ Adds(DetailHandlers) /\ flow = "past" /\ flow' = flow /\ handled' = handled \cup {"more"}
    BY <1>3, HandlersChange DEF PastFollows, Visits
  <2>2. \A i \in DOMAIN callbacks' : i \notin DOMAIN callbacks =>
          callbacks'[i].on # "html" /\ callbacks'[i].on # "list_table" /\ callbacks'[i].attached
    BY <2>1, AddsDetails DEF Readers
  <2> QED
    BY <2>1, <2>2 DEF AttachedInv, Adds, Readers
<1>4. CASE PastFollows("summary", <<"html">>)
  <2>1. /\ Adds(<<"html">>) /\ flow = "past" /\ flow' = flow /\ handled' = handled \cup {"summary"}
    BY <1>4, HandlersChange DEF PastFollows, Visits
  <2>2. \A i \in DOMAIN callbacks' : i \notin DOMAIN callbacks =>
          callbacks'[i].on = "html" /\ callbacks'[i].attached
    BY <2>1 DEF Adds
  <2> QED
    BY <2>1, <2>2 DEF AttachedInv, Adds, Readers
<1>5. CASE FollowsCorrigendum
  <2>1. Adds(<<"list_table">>) /\ flow = "active" /\ flow' = flow
    BY <1>5, HandlersChange DEF FollowsCorrigendum, Visits
  <2>2. \A i \in DOMAIN callbacks' : i \notin DOMAIN callbacks => callbacks'[i].on = "list_table"
    BY <2>1 DEF Adds
  <2>3. \A i \in DOMAIN callbacks' : callbacks'[i].on \in Readers => callbacks'[i].attached
    BY <2>1, <2>2 DEF AttachedInv, Adds, Readers
  <2>4. \A i \in DOMAIN callbacks' :
          /\ callbacks'[i].on # "html"
          /\ callbacks'[i].on = "more" => i = 1
    BY <2>1, <2>2 DEF AttachedInv, Adds
  <2>5. \A i \in DOMAIN callbacks' : callbacks'[i].on \in {"payment", "covers", "corrigendum"} =>
          i \in DOMAIN callbacks /\ callbacks[i].on = callbacks'[i].on
    BY <2>1, <2>2 DEF Adds
  <2>6. ASSUME NEW i \in DOMAIN callbacks', callbacks'[i].on \in {"payment", "covers", "corrigendum"}
        PROVE  /\ \A f \in {"payment", "covers"} : \E j \in DOMAIN callbacks' : callbacks'[j].on = f
               /\ \A j \in DOMAIN callbacks' : callbacks'[j].on = "more" => ~ callbacks'[j].attached
    <3>1. /\ \A f \in {"payment", "covers"} : \E j \in DOMAIN callbacks : callbacks[j].on = f
          /\ \A j \in DOMAIN callbacks : callbacks[j].on = "more" => ~ callbacks[j].attached
      BY <2>1, <2>5, <2>6 DEF AttachedInv
    <3>2. \A f \in {"payment", "covers"} : \E j \in DOMAIN callbacks' : callbacks'[j].on = f
      BY <2>1, <3>1 DEF Adds
    <3>3. \A j \in DOMAIN callbacks' : callbacks'[j].on = "more" => ~ callbacks'[j].attached
      BY <2>1, <2>2, <3>1 DEF Adds
    <3> QED
      BY <3>2, <3>3
  <2> QED
    BY <2>1, <2>3, <2>4, <2>6 DEF AttachedInv
<1>6. CASE (\E on \in Readers : Reading(on)) \/ Skips \/ ListsRow \/ AddsDetail \/ Ends
  <2>1. Adds(<<>>) /\ flow' = flow /\ handled' = handled
    BY <1>6, HandlersChange DEF Reading, Skips, ListsRow, AddsDetail, Ends, Pops, Returns
  <2>2. \A i \in DOMAIN callbacks' : i \in DOMAIN callbacks
    BY <2>1 DEF Adds
  <2> QED
    BY <2>1, <2>2 DEF AttachedInv, Adds, Readers
<1> QED
  BY <1>1, <1>2, <1>3, <1>4, <1>5, <1>6 DEF FineStep

-----------------------------------------------------------------------------
(* The pages being processed, step by step: the innermost makes a call,    *)
(* and another arrives inside of it or none does, or it is done.           *)
OldFrame(i) ==
  /\ i \in DOMAIN stack'
  /\ stack'[i].page = stack[i].page /\ stack'[i].opener = stack[i].opener
  /\ stack'[i].left = IF Owed /\ i = Len(stack) THEN Top.left \ {Call} ELSE stack[i].left

Stays == Owed /\ DOMAIN stack' = DOMAIN stack /\ \A i \in DOMAIN stack : OldFrame(i)

Opens ==
  /\ Owed /\ DOMAIN stack' = 1 .. Len(stack) + 1
  /\ \A i \in DOMAIN stack : OldFrame(i)
  /\ Handler.on \in LinkKinds /\ Calling(Handler.on)
  /\ Call.link \notin visited
  /\ opened' = [opened EXCEPT ![tender] = @ \cup {Call.link}]
  /\ stack'[Len(stack) + 1] =
       [page |-> Call.link, opener |-> Handler.on, left |-> Calls(Call.link, callbacks')]

Closes ==
  /\ ~Owed /\ Top.left = {} /\ stack # <<>> /\ DOMAIN stack' = 1 .. Len(stack) - 1
  /\ \A i \in DOMAIN stack' : i \in DOMAIN stack /\ OldFrame(i)

LEMMA CalledStays ==
  ASSUME Types, FramesInv, Owed, stack' = Called
  PROVE  Stays
<1>1. stack \in Seq(Frame) /\ Len(stack) \in Nat /\ DOMAIN stack = 1 .. Len(stack)
  BY DEF Types
<1>2. Called \in Seq(Frame) /\ DOMAIN Called = 1 .. Len(stack)
  BY <1>1, CalledFacts
<1>3. ASSUME NEW i \in DOMAIN stack PROVE OldFrame(i)
  BY <1>1, <1>2, CalledFacts DEF OldFrame
<1> QED
  BY <1>1, <1>2, <1>3 DEF Stays

LEMMA VisitsStack ==
  ASSUME Types, FramesInv, NEW kind \in LinkKinds, Visits(kind)
  PROVE  (Stays /\ stack' = Called /\ opened' = opened) \/ (Opens /\ Handler.on = kind)
<1>1. Owed /\ Handler.on = kind /\ Calling(kind)
  BY DEF Visits, Calling
<1>2. CASE stack' = Called /\ opened' = opened
  BY <1>1, <1>2, CalledStays
<1>3. CASE /\ Call.link \notin visited
           /\ opened' = [opened EXCEPT ![tender] = @ \cup {Call.link}]
           /\ stack' = Append(Called, [page |-> Call.link, opener |-> kind,
                                       left |-> Calls(Call.link, callbacks')])
  <2> DEFINE f == [page |-> Call.link, opener |-> kind, left |-> Calls(Call.link, callbacks')]
  <2>1. /\ Called \in Seq(Frame) /\ Len(Called) = Len(stack) /\ Len(stack) \in Nat
        /\ DOMAIN stack = 1 .. Len(stack)
    <3>1. Called \in Seq(Frame) /\ Len(Called) = Len(stack)
      BY <1>1, CalledFacts
    <3>2. Len(stack) \in Nat /\ DOMAIN stack = 1 .. Len(stack)
      BY DEF Types
    <3> QED
      BY <3>1, <3>2
  <2>2. stack' = Append(Called, f)
    BY <1>3
  <2> HIDE DEF f
  <2>3. PICK s \in Seq(Frame) : s = Called
    BY <2>1
  <2>4. /\ DOMAIN Append(s, f) = 1 .. Len(s) + 1 /\ Append(s, f)[Len(s) + 1] = f
        /\ \A i \in 1 .. Len(s) : Append(s, f)[i] = s[i]
    OBVIOUS
  <2>5. /\ DOMAIN stack' = 1 .. Len(stack) + 1 /\ stack'[Len(stack) + 1] = f
        /\ \A i \in DOMAIN stack : stack'[i] = Called[i]
    BY <2>1, <2>2, <2>3, <2>4
  <2>6. \A i \in DOMAIN stack : OldFrame(i)
    <3>1. \A i \in DOMAIN stack : i \in DOMAIN stack'
      BY <2>1, <2>5
    <3> QED
      BY <1>1, <2>5, <3>1, CalledFacts DEF OldFrame
  <2> QED
    BY <1>1, <1>3, <2>5, <2>6 DEF Opens, f
<1> QED
  BY <1>2, <1>3 DEF Visits

LEMMA StackCases ==
  ASSUME Types, FramesInv, HandlersInv, FineStep
  PROVE  \/ StartsFresh
         \/ Ends /\ Closes /\ opened' = opened
         \/ (FollowsDetails \/ PastFollows("more", DetailHandlers)
               \/ PastFollows("summary", <<"html">>) \/ FollowsCorrigendum) /\ Opens
         \/ Stays /\ opened' = opened
<1>1. CASE FollowsDetails \/ PastFollows("more", DetailHandlers)
               \/ PastFollows("summary", <<"html">>) \/ FollowsCorrigendum
  <2>1. \E kind \in {"more", "summary", "corrigendum"} : Visits(kind)
    BY <1>1 DEF FollowsDetails, PastFollows, FollowsCorrigendum
  <2> QED
    BY <1>1, <2>1, VisitsStack DEF LinkKinds
<1>2. CASE (\E on \in Readers : Reading(on)) \/ Skips \/ ListsRow \/ AddsDetail
  <2>1. Owed /\ stack' = Called /\ opened' = opened
    BY <1>2 DEF Reading, Calling, Skips, ListsRow, AddsDetail, Pops
  <2> QED
    BY <2>1, CalledStays
<1>3. CASE Ends
  <2>1. stack # <<>> /\ Top.left = {} /\ stack' = Front(stack) /\ opened' = opened
    BY <1>3 DEF Ends, Returns
  <2>2. /\ stack' \in Seq(Frame) /\ Len(stack') = Len(stack) - 1 /\ DOMAIN stack = 1 .. Len(stack)
        /\ Len(stack) \in Nat
        /\ \A i \in DOMAIN stack' : i \in DOMAIN stack /\ i < Len(stack) /\ stack'[i] = stack[i]
    BY <2>1, FrontFacts DEF Types
  <2>3. DOMAIN stack' = 1 .. Len(stack) - 1
    BY <2>2
  <2> QED
    BY <1>3, <2>1, <2>2, <2>3 DEF Closes, OldFrame, Owed
<1> QED
  BY <1>1, <1>2, <1>3 DEF FineStep

LEMMA FrameCase ==
  ASSUME Types, FramesInv, HandlersInv, FineStep, ~StartsFresh, NEW i \in DOMAIN stack'
  PROVE  \/ i \in DOMAIN stack /\ OldFrame(i)
         \/ /\ i = Len(stack) + 1 /\ i \notin DOMAIN stack /\ Opens
            /\ \/ FollowsDetails \/ PastFollows("more", DetailHandlers)
               \/ PastFollows("summary", <<"html">>) \/ FollowsCorrigendum
<1>1. DOMAIN stack = 1 .. Len(stack) /\ Len(stack) \in Nat
  BY DEF Types
<1>2. Closes \/ Stays => i \in DOMAIN stack /\ OldFrame(i)
  BY <1>1 DEF Closes, Stays
<1>3. Opens => (i \in DOMAIN stack /\ OldFrame(i)) \/ (i = Len(stack) + 1 /\ i \notin DOMAIN stack)
  BY <1>1 DEF Opens
<1> QED
  BY <1>2, <1>3, StackCases

(* A call that is still owed was owed before, by the same handler. *)
LEMMA OldCall ==
  ASSUME Types, FramesInv, HandlersInv, FineStep, ~StartsFresh, NEW i \in DOMAIN stack, OldFrame(i),
         NEW c \in stack'[i].left
  PROVE  /\ stack # <<>> /\ c \in stack[i].left /\ c.cb \in DOMAIN callbacks
         /\ Owed /\ i = Len(stack) => c # Call
         /\ c.cb \in DOMAIN callbacks' /\ callbacks'[c.cb].on = callbacks[c.cb].on
<1>1. stack # <<>> /\ c \in stack[i].left /\ (Owed /\ i = Len(stack) => c # Call)
  <2>1. Owed /\ i = Len(stack) => Top = stack[i]
    BY DEF Top, Last
  <2> QED
    BY <2>1 DEF OldFrame, Types
<1>2. c.cb \in DOMAIN callbacks
  BY <1>1 DEF FramesInv, Owes
<1>3. \E sel : Adds(sel)
  BY HandlersChange DEF FineStep
<1> QED
  BY <1>1, <1>2, <1>3 DEF Adds

-----------------------------------------------------------------------------
(* The start page's links to details, followed once.                       *)

(* The call made next is one of the innermost page. *)
LEMMA CallOf ==
  ASSUME Types, FramesInv, HandlersInv, Owed
  PROVE  /\ Call.cb \in DOMAIN callbacks /\ Handler = callbacks[Call.cb]
         /\ Len(stack) \in DOMAIN stack /\ Call \in stack[Len(stack)].left
         /\ Top = stack[Len(stack)] /\ Call.link \in Pages /\ tender \in Tenders
         /\ Call.link = Elements(Top.page, Handler.on)[Call.nth]
         /\ Call.nth \in DOMAIN Elements(Top.page, Handler.on)
         /\ Top.page \in Pages /\ Handler.on \in Handlers
         /\ Handler.on \notin {"more", "summary"} => Len(stack) # 1
<1>1. /\ Len(stack) \in DOMAIN stack /\ Call \in Top.left /\ Top = stack[Len(stack)] /\ Top \in Frame
      /\ Call.link \in Pages /\ tender \in Tenders /\ Owes(Top.page, Call) /\ Handler \in HandlerRec
  BY CallFacts
<1>2. Handler.on \notin {"more", "summary"} => Len(stack) # 1
  BY <1>1 DEF FramesInv, Owed, Handler
<1> QED
  BY <1>1, <1>2 DEF Owes, Handler, Frame, HandlerRec

LEMMA FollowedLink ==
  ASSUME Types, FramesInv, HandlersInv, Calling("more"), Len(stack) = 1
  PROVE  Call.link \in MoreLinks(tender)
<1>1. /\ Top.page = Links[tender] /\ Handler.on = "more"
      /\ Call.link = Elements(Top.page, "more")[Call.nth] /\ Call.nth \in DOMAIN Elements(Top.page, "more")
      /\ Top.page \in Pages
  BY CallOf DEF FramesInv, Calling, Owed
<1>2. Elements(Top.page, "more") = IF site[Top.page].html THEN site[Top.page].links["more"] ELSE <<>>
  BY <1>1, ElementsFacts, Selectors DEF Types, LinkKinds
<1>3. Elements(Top.page, "more") = site[Top.page].links["more"]
  BY <1>1, <1>2
<1> QED
  BY <1>1, <1>3 DEF MoreLinks, Range

LEMMA OnceStep ==
  ASSUME OwnInv, AttachedInv, OnceInv, FineStep, OwnInv', AttachedInv', stack' # <<>>
  PROVE  /\ result'[tender'] = "none"
         /\ opened'[tender'] \subseteq visited'
<1>0. Types /\ FramesInv /\ HandlersInv /\ OpenedInv
  BY DEF OwnInv
<1>1. CASE StartsFresh
  <2>1. tender' \in Tenders /\ tender' > tender
    BY <1>0, <1>1, CollectorAssumption DEF StartsFresh, Starts, Types, Tenders
  <2>2. Fresh(tender')
    <3>1. PICK t \in Tenders : t = tender'
      BY <2>1
    <3> QED
      BY <1>0, <2>1, <3>1 DEF OpenedInv
  <2> QED
    BY <1>0, <1>1, <2>1, <2>2 DEF StartsFresh, Starts, Types, Fresh
<1>2. CASE FollowsDetails \/ PastFollows("more", DetailHandlers)
               \/ PastFollows("summary", <<"html">>) \/ FollowsCorrigendum
  <2>1. \E kind : Visits(kind)
    BY <1>2 DEF FollowsDetails, PastFollows, FollowsCorrigendum
  <2>2. stack # <<>> /\ tender \in Tenders
    BY <1>0, <2>1, CallFacts DEF Visits, Calling, Owed
  <2> QED
    BY <1>0, <2>1, <2>2 DEF OnceInv, Visits, Types
<1>3. CASE (\E on \in Readers : Reading(on)) \/ Skips \/ ListsRow \/ AddsDetail
  BY <1>3 DEF OnceInv, Reading, Calling, Skips, ListsRow, AddsDetail, Pops, Owed
<1>4. CASE Ends
  <2>1. /\ stack # <<>> /\ Closes
        /\ UNCHANGED <<tender, visited, opened>>
    BY <1>0, <1>4, StackCases DEF Ends, Returns, StartsFresh, Starts, FineStep, FollowsDetails,
       PastFollows, FollowsCorrigendum, Visits, Calling, Owed, Stays
  <2>2. Top.opener # "start"
    <3>1. stack' # <<>> /\ stack' \in Seq(Frame)
      BY DEF OwnInv, Types
    <3>2. DOMAIN stack' # {}
      <4>1. \A s \in Seq(Frame) : s # <<>> => 1 \in DOMAIN s
        OBVIOUS
      <4> QED
        BY <3>1, <4>1
    <3>3. Len(stack) # 1 /\ Len(stack) \in DOMAIN stack /\ Top = stack[Len(stack)]
      BY <1>0, <2>1, <3>2 DEF Closes, Top, Last, Types
    <3> QED
      BY <1>0, <2>1, <3>3 DEF FramesInv
  <2> QED
    BY <1>4, <2>1, <2>2 DEF Ends, OnceInv
<1> QED
  BY <1>1, <1>2, <1>3, <1>4 DEF FineStep

(* The calls of the handler that follows links to details. *)
LEMMA MoreCallsStep ==
  ASSUME OwnInv, AttachedInv, OnceInv, FineStep, OwnInv', AttachedInv', stack' # <<>>,
         flow' = "active", NEW i \in DOMAIN stack', NEW c \in stack'[i].left,
         callbacks'[c.cb].on = "more"
  PROVE  i = 1
<1>0. Types /\ FramesInv /\ HandlersInv /\ flow = "active" /\ site \in Sites /\ site' = site
  BY OpenedChange DEF OwnInv, Types, FineStep, StartsFresh, Starts, FollowsDetails, PastFollows,
     FollowsCorrigendum, Visits, Reading, Skips, ListsRow, AddsDetail, Ends, Returns, Pops, portal
<1>1. CASE StartsFresh
  <2>1. stack' = <<StartFrame(Links[tender'], callbacks')>>
    BY <1>1 DEF StartsFresh, Starts
  <2> QED
    BY <2>1
<1>2. ASSUME OldFrame(i), i \in DOMAIN stack, ~StartsFresh PROVE i = 1
  <2>1. c \in stack[i].left /\ stack # <<>> /\ callbacks'[c.cb].on = callbacks[c.cb].on
    BY <1>0, <1>2, OldCall
  <2> QED
    BY <1>0, <1>2, <2>1 DEF OnceInv
<1>3. ASSUME Opens, i = Len(stack) + 1, FollowsDetails \/ FollowsCorrigendum PROVE i = 1
  <2>1. c \in Calls(Call.link, callbacks') /\ Call.link \in Pages /\ callbacks' \in Seq(HandlerRec)
    <3>1. Call.link \in Pages
      BY <1>0, <1>3, CallOf DEF Opens
    <3> QED
      BY <1>3, <3>1 DEF Opens, OwnInv, Types
  <2>2. c.cb \in DOMAIN callbacks' /\ callbacks'[c.cb].attached
    BY <1>0, <2>1, CallsFacts
  <2>3. \E j \in DOMAIN callbacks' : callbacks'[j].on \in {"payment", "covers", "corrigendum"}
    <3>1. CASE FollowsDetails
      <4>1. Adds(DetailHandlers)
        BY <1>0, <3>1, HandlersChange
      <4> QED
        BY <1>0, <4>1, AddsDetails
    <3>2. CASE FollowsCorrigendum
      <4>1. Adds(<<"list_table">>)
        BY <1>0, <3>2, HandlersChange
      <4>2. Call.cb \in DOMAIN callbacks /\ callbacks[Call.cb].on = "corrigendum"
        BY <1>0, <3>2, CallOf DEF FollowsCorrigendum, Visits, Calling
      <4> QED
        BY <4>1, <4>2 DEF Adds
    <3> QED
      BY <1>3, <3>1, <3>2
  <2> QED
    BY <2>2, <2>3 DEF AttachedInv
<1>4. CASE ~StartsFresh
  <2>1. \/ i \in DOMAIN stack /\ OldFrame(i)
        \/ i = Len(stack) + 1 /\ Opens /\ (FollowsDetails \/ FollowsCorrigendum)
    BY <1>0, <1>4, FrameCase DEF PastFollows
  <2> QED
    BY <1>2, <1>3, <1>4, <2>1
<1> QED
  BY <1>1, <1>4

LEMMA SameSite ==
  ASSUME FineStep
  PROVE  site' = site /\ skipsDetached' = skipsDetached /\ flow' = flow
BY DEF FineStep, StartsFresh, Starts, FollowsDetails, PastFollows, FollowsCorrigendum, Visits,
       Reading, Skips, ListsRow, AddsDetail, Ends, Returns, Pops, portal

LEMMA SameTender ==
  ASSUME FineStep, ~StartsFresh
  PROVE  tender' = tender /\ stack # <<>>
BY DEF FineStep, FollowsDetails, PastFollows, FollowsCorrigendum, Visits, Calling, Owed,
       Reading, Skips, ListsRow, AddsDetail, Ends, Returns, Pops

(* With the handlers of the details every link to details was followed, if *)
(* they lead to one page.                                                  *)
LEMMA MoreVisitedStep ==
  ASSUME OwnInv, AttachedInv, OnceInv, FineStep, OwnInv', stack' # <<>>, flow' = "active",
         OnePage(tender)', NEW i \in DOMAIN callbacks', callbacks'[i].on \in {"payment", "covers"}
  PROVE  MoreLinks(tender)' \subseteq visited'
<1>0. Types /\ FramesInv /\ HandlersInv /\ flow = "active"
  BY SameSite DEF OwnInv
<1>1. CASE StartsFresh
  BY <1>1 DEF StartsFresh, Starts
<1>2. ASSUME ~StartsFresh
      PROVE  /\ OnePage(tender) /\ MoreLinks(tender)' = MoreLinks(tender) /\ stack # <<>>
  <2>1. tender' = tender /\ site' = site /\ stack # <<>>
    BY <1>2, SameSite, SameTender
  <2>2. MoreLinks(tender)' = MoreLinks(tender)
    BY <2>1 DEF MoreLinks, Range
  <2> QED
    BY <2>1, <2>2 DEF OnePage
<1>3. CASE FollowsDetails
  <2>1. Calling("more") /\ visited' = visited \cup {Call.link} /\ ~StartsFresh /\ Owed
    BY <1>3 DEF FollowsDetails, Visits, StartsFresh, Starts, Calling, Owed
  <2>2. Len(stack) = 1
    <3>1. Len(stack) \in DOMAIN stack /\ Call \in stack[Len(stack)].left /\ callbacks[Call.cb].on = "more"
      BY <1>0, <2>1, CallOf DEF Calling
    <3> QED
      BY <1>0, <2>1, <3>1 DEF OnceInv, Owed
  <2>3. Call.link \in MoreLinks(tender)
    BY <1>0, <2>1, <2>2, FollowedLink
  <2> QED
    BY <1>2, <2>1, <2>3 DEF OnePage
<1>4. ASSUME ~StartsFresh, ~FollowsDetails PROVE MoreLinks(tender)' \subseteq visited'
  <2>1. \E sel : Adds(sel) /\ \A j \in DOMAIN sel : sel[j] = "list_table"
    <3>1. CASE FollowsCorrigendum
      BY <1>0, <3>1, HandlersChange
    <3>2. CASE ~FollowsCorrigendum
      BY <1>0, <1>4, <3>2, HandlersChange DEF FineStep, PastFollows
    <3> QED
      BY <3>1, <3>2
  <2>2. i \in DOMAIN callbacks /\ callbacks[i].on \in {"payment", "covers"}
    BY <2>1 DEF Adds
  <2>3. visited \subseteq visited'
    BY <1>0, <1>4 DEF FineStep, PastFollows, FollowsCorrigendum, Visits,
       Reading, Skips, ListsRow, AddsDetail, Ends, Returns, Pops
  <2> QED
    BY <1>0, <1>2, <1>4, <2>2, <2>3 DEF OnceInv
<1> QED
  BY <1>1, <1>3, <1>4

(* The handlers that append rows are there once, but for a second link to  *)
(* the details that is not visited.                                        *)
Twice(i, j) == i # j /\ callbacks[i].on \in RowHandlers /\ callbacks[i].on = callbacks[j].on

LEMMA SecondFollow ==
  ASSUME OwnInv, AttachedInv, OnceInv, FollowsDetails, DetailsOnePage(tender),
         NEW i \in DOMAIN callbacks, callbacks[i].on \in {"payment", "covers"}
  PROVE  stack' = Called /\ Len(stack) = 1
<1>0. Types /\ FramesInv /\ HandlersInv /\ flow = "active" /\ Calling("more") /\ Owed
  BY DEF OwnInv, FollowsDetails, Visits, Calling
<1>1. /\ Len(stack) \in DOMAIN stack /\ Call \in stack[Len(stack)].left /\ Handler.on = "more"
      /\ Call.cb \in DOMAIN callbacks /\ Handler = callbacks[Call.cb]
  BY <1>0, CallOf DEF Calling
<1>2. Len(stack) = 1
  BY <1>0, <1>1 DEF OnceInv, Owed
<1>3. ~Handler.attached
  BY <1>0, <1>1 DEF AttachedInv
<1>4. OnePage(tender)
  BY <1>0, <1>3 DEF Calling, Skippable, DetailsOnePage, OnePage, MoreLinks
<1>5. Call.link \in visited
  BY <1>0, <1>2, <1>4, FollowedLink DEF OnceInv, Owed
<1> QED
  BY <1>2, <1>5 DEF FollowsDetails, Visits

LEMMA HandlersOnceStep ==
  ASSUME OwnInv, AttachedInv, OnceInv, FineStep, OwnInv', stack' # <<>>,
         DetailsOnePage(tender)', NEW i \in DOMAIN callbacks', NEW j \in DOMAIN callbacks', i # j,
         callbacks'[i].on \in RowHandlers, callbacks'[i].on = callbacks'[j].on
  PROVE  flow' = "active" /\ Len(stack') = 1
<1>0. /\ Types /\ FramesInv /\ HandlersInv /\ flow' = flow /\ flow \in {"active", "past"}
      /\ DOMAIN callbacks = 1 .. Len(callbacks) /\ Len(callbacks) \in Nat
      /\ stack' \in Seq(Frame) /\ i \in Nat /\ j \in Nat
  <2>1. \A s \in Seq(HandlerRec) : \A k \in DOMAIN s : k \in Nat
    OBVIOUS
  <2>2. callbacks' \in Seq(HandlerRec) /\ stack' \in Seq(Frame)
    BY DEF OwnInv, Types
  <2> QED
    <3>1. Types /\ FramesInv /\ HandlersInv /\ flow' = flow
      BY SameSite DEF OwnInv
    <3>2. /\ flow \in {"active", "past"}
          /\ DOMAIN callbacks = 1 .. Len(callbacks) /\ Len(callbacks) \in Nat
      BY <3>1 DEF Types
    <3> QED
      BY <2>1, <2>2, <3>1, <3>2
<1>1. CASE StartsFresh
  BY <1>1 DEF StartsFresh, Starts, RowHandlers
<1>2. ASSUME ~StartsFresh
      PROVE  DetailsOnePage(tender) /\ stack # <<>>
  <2>1. tender' = tender /\ site' = site /\ stack # <<>> /\ skipsDetached' = skipsDetached
    BY <1>2, SameSite, SameTender
  <2> QED
    BY <1>0, <2>1 DEF DetailsOnePage, Range
<1>3. ASSUME NEW sel, Adds(sel), \A k, l \in DOMAIN sel : sel[k] \in RowHandlers /\ sel[k] = sel[l] => k = l
      PROVE  \/ i \in DOMAIN callbacks /\ j \in DOMAIN callbacks /\ Twice(i, j)
             \/ \E k \in DOMAIN callbacks, l \in DOMAIN sel :
                  callbacks[k].on = sel[l] /\ sel[l] \in RowHandlers
  <2>1. CASE i \in DOMAIN callbacks /\ j \in DOMAIN callbacks
    BY <1>3, <2>1 DEF Adds, Twice
  <2>2. CASE i \in DOMAIN callbacks /\ j \notin DOMAIN callbacks
    BY <1>3, <2>2 DEF Adds
  <2>3. CASE i \notin DOMAIN callbacks /\ j \in DOMAIN callbacks
    BY <1>3, <2>3 DEF Adds
  <2>4. CASE i \notin DOMAIN callbacks /\ j \notin DOMAIN callbacks
    <3>1. i - Len(callbacks) = j - Len(callbacks)
      BY <1>3, <2>4 DEF Adds
    <3> QED
      BY <1>0, <3>1
  <2> QED
    BY <2>1, <2>2, <2>3, <2>4
<1>4. ASSUME NEW k \in DOMAIN callbacks, NEW l \in DOMAIN callbacks, Twice(k, l), ~StartsFresh
      PROVE  flow = "active" /\ Len(stack) = 1
  BY <1>2, <1>4 DEF OnceInv, Twice
<1>5. \A k, l \in DOMAIN DetailHandlers : DetailHandlers[k] = DetailHandlers[l] => k = l
  BY DetailsFacts
<1>6. CASE FollowsDetails
  <2>1. Adds(DetailHandlers) /\ flow = "active" /\ ~StartsFresh
    BY <1>0, <1>6, HandlersChange DEF FollowsDetails, Visits, Calling, Owed, StartsFresh, Starts
  <2>2. PICK k \in DOMAIN callbacks : callbacks[k].on \in RowHandlers
    BY <1>3, <1>5, <2>1 DEF Twice
  <2>3. callbacks[k].on \in {"payment", "covers"}
    BY <2>1, <2>2 DEF AttachedInv, RowHandlers
  <2>4. stack' = Called /\ Len(stack) = 1 /\ Owed
    BY <1>2, <1>6, <2>1, <2>3, SecondFollow DEF FollowsDetails, Visits, Calling
  <2>5. Len(Called) = Len(stack)
    BY <1>0, <2>4, CalledFacts
  <2> QED
    BY <1>0, <2>1, <2>4, <2>5
<1>7. CASE FollowsCorrigendum
  <2>1. Adds(<<"list_table">>) /\ ~StartsFresh /\ Owed /\ Handler.on = "corrigendum"
    BY <1>0, <1>7, HandlersChange DEF FollowsCorrigendum, Visits, Calling, Owed, StartsFresh, Starts
  <2>2. Len(stack) # 1
    BY <1>0, <2>1, CallOf
  <2> QED
    BY <1>3, <1>4, <2>1, <2>2 DEF RowHandlers
<1>8. CASE PastFollows("more", DetailHandlers)
  <2>1. Adds(DetailHandlers) /\ flow = "past" /\ ~StartsFresh /\ "more" \notin handled
    BY <1>0, <1>8, HandlersChange DEF PastFollows, Visits, Calling, Owed, StartsFresh, Starts
  <2>2. \A k \in DOMAIN callbacks : callbacks[k].on \notin {"payment", "covers"}
    BY <2>1 DEF AttachedInv
  <2>3. \A l \in DOMAIN DetailHandlers : DetailHandlers[l] # "html"
    BY DetailsFacts
  <2> QED
    BY <1>3, <1>4, <1>5, <2>1, <2>2, <2>3 DEF RowHandlers
<1>9. CASE PastFollows("summary", <<"html">>)
  <2>1. Adds(<<"html">>) /\ flow = "past" /\ ~StartsFresh /\ "summary" \notin handled
    BY <1>0, <1>9, HandlersChange DEF PastFollows, Visits, Calling, Owed, StartsFresh, Starts
  <2>2. \A k \in DOMAIN callbacks : callbacks[k].on # "html"
    BY <2>1 DEF AttachedInv
  <2>3. \A k, l \in DOMAIN <<"html">> : k = l /\ <<"html">>[k] = "html"
    OBVIOUS
  <2> QED
    BY <1>3, <1>4, <2>1, <2>2, <2>3 DEF RowHandlers
<1>10. ASSUME Adds(<<>>), ~StartsFresh PROVE Twice(i, j) /\ flow = "active" /\ Len(stack) = 1
  <2>1. i \in DOMAIN callbacks /\ j \in DOMAIN callbacks /\ Twice(i, j)
    BY <1>3, <1>10
  <2> QED
    BY <1>4, <1>10, <2>1
<1>11. CASE (\E on \in Readers : Reading(on)) \/ Skips \/ ListsRow \/ AddsDetail
  <2>1. Adds(<<>>) /\ ~StartsFresh /\ stack' = Called /\ Owed
    BY <1>0, <1>11, HandlersChange DEF Reading, Calling, Skips, ListsRow, AddsDetail, Pops, Owed,
       StartsFresh, Starts
  <2>2. Len(Called) = Len(stack)
    BY <1>0, <2>1, CalledFacts
  <2> QED
    BY <1>0, <1>10, <2>1, <2>2
<1>12. CASE Ends
  <2>1. Adds(<<>>) /\ ~StartsFresh /\ stack' = Front(stack) /\ stack # <<>>
    BY <1>0, <1>12, HandlersChange DEF Ends, Returns, StartsFresh, Starts
  <2>2. Len(stack') = Len(stack) - 1
    BY <1>0, <2>1, FrontFacts DEF Types
  <2>3. Len(stack') = 0
    BY <1>10, <2>1, <2>2
  <2>4. stack' = <<>>
    BY <1>0, <2>3
  <2> QED
    BY <2>4
<1> QED
  BY <1>1, <1>6, <1>7, <1>8, <1>9, <1>11, <1>12 DEF FineStep

LEMMA OnceInvStep ==
  ASSUME OwnInv, AttachedInv, OnceInv, FineStep, OwnInv', AttachedInv'
  PROVE  OnceInv'
<1> SUFFICES ASSUME stack' # <<>>
             PROVE  /\ result'[tender'] = "none"
                    /\ opened'[tender'] \subseteq visited'
                    /\ flow' = "active" =>
                       /\ \A i \in DOMAIN stack' : \A c \in stack'[i].left :
                            callbacks'[c.cb].on = "more" => i = 1
                       /\ (\E i \in DOMAIN callbacks' : callbacks'[i].on \in {"payment", "covers"})
                            /\ OnePage(tender)' => MoreLinks(tender)' \subseteq visited'
                    /\ DetailsOnePage(tender)' =>
                         \A i, j \in DOMAIN callbacks' :
                           callbacks'[i].on \in RowHandlers /\ callbacks'[i].on = callbacks'[j].on =>
                             i = j \/ (flow' = "active" /\ Len(stack') = 1)
  BY DEF OnceInv
<1>1. result'[tender'] = "none" /\ opened'[tender'] \subseteq visited'
  BY OnceStep
<1>2. ASSUME flow' = "active" PROVE \A i \in DOMAIN stack' : \A c \in stack'[i].left :
                            callbacks'[c.cb].on = "more" => i = 1
  BY <1>2, MoreCallsStep
<1>3. ASSUME flow' = "active", NEW i \in DOMAIN callbacks', callbacks'[i].on \in {"payment", "covers"},
             OnePage(tender)'
      PROVE  MoreLinks(tender)' \subseteq visited'
  BY <1>3, MoreVisitedStep
<1>4. ASSUME DetailsOnePage(tender)', NEW i \in DOMAIN callbacks', NEW j \in DOMAIN callbacks', i # j,
             callbacks'[i].on \in RowHandlers, callbacks'[i].on = callbacks'[j].on
      PROVE  flow' = "active" /\ Len(stack') = 1
  BY <1>4, HandlersOnceStep
<1> QED
  BY <1>1, <1>2, <1>3, <1>4

-----------------------------------------------------------------------------
(* Rows: a value of the page that makes the call is put after the others.  *)
LEMMA RowAppended ==
  ASSUME NEW s \in Seq(Values), NEW p \in Pages, NEW on \in Handlers
  PROVE  /\ PagesOf(s \o Value(p, on)) = PagesOf(s) \cup {p}
         /\ NoDuplicates(s) /\ p \notin PagesOf(s) => NoDuplicates(s \o Value(p, on))
<1> DEFINE v == Value(p, on)
           r == s \o v
<1>1. v \in Seq(Values) /\ Len(v) = 1 /\ v[1].page = p
  <2>1. v[1] = [page |-> p, by |-> on]
    BY ValueType
  <2> QED
    BY <2>1, ValueType
<1> HIDE DEF v
<1>2. /\ r \in Seq(Values) /\ Len(r) = Len(s) + 1 /\ Len(s) \in Nat
      /\ \A i \in 1 .. Len(s) : r[i] = s[i]
      /\ r[Len(s) + 1] = v[1]
  BY <1>1, ConcatOne
<1> HIDE DEF r
<1>3. DOMAIN r = 1 .. Len(s) + 1 /\ DOMAIN s = 1 .. Len(s)
  BY <1>2
<1>4. PagesOf(r) = PagesOf(s) \cup {p}
  <2>1. PagesOf(r) \subseteq PagesOf(s) \cup {p}
    BY <1>1, <1>2, <1>3 DEF PagesOf
  <2>2. PagesOf(s) \subseteq PagesOf(r)
    BY <1>2, <1>3 DEF PagesOf
  <2>3. p \in PagesOf(r)
    <3>1. Len(s) + 1 \in DOMAIN r
      BY <1>2, <1>3
    <3> QED
      BY <1>1, <1>2, <3>1 DEF PagesOf
  <2> QED
    BY <2>1, <2>2, <2>3
<1>5. ASSUME NoDuplicates(s), p \notin PagesOf(s) PROVE NoDuplicates(r)
  <2> SUFFICES ASSUME NEW i \in DOMAIN r, NEW j \in DOMAIN r, r[i].page = r[j].page PROVE i = j
    BY DEF NoDuplicates
  <2>1. CASE i \in DOMAIN s /\ j \in DOMAIN s
    BY <1>2, <1>3, <1>5, <2>1 DEF NoDuplicates
  <2>2. ASSUME NEW k \in DOMAIN s PROVE r[k].page # p
    BY <1>2, <1>3, <1>5 DEF PagesOf
  <2>3. \A k \in DOMAIN r : k \notin DOMAIN s => k = Len(s) + 1 /\ r[k].page = p
    BY <1>1, <1>2, <1>3
  <2> QED
    BY <2>1, <2>2, <2>3
<1> QED
  BY <1>4, <1>5 DEF r, v

(* A call that reads appends to a field if its handler does and the page   *)
(* shows the section.                                                      *)
LEMMA RowRead ==
  ASSUME OwnInv, NEW on \in Readers, Reading(on), NEW f \in Repeated
  PROVE  \/ /\ data'[tender][f] = data[tender][f]
            /\ ~ (on = RowsBy(f) /\ Shows(Top.page, f))
         \/ /\ data'[tender][f] = data[tender][f] \o Value(Top.page, on)
            /\ on = RowsBy(f) /\ Shows(Top.page, f) /\ site[Top.page].html
<1>0. Types /\ FramesInv /\ HandlersInv /\ site \in Sites /\ Owed /\ Handler.on = on
  BY DEF OwnInv, Types, Reading, Calling
<1>1. Top.page \in Pages /\ ReadEffect(on, data[tender], data'[tender], Top.page)
  BY <1>0, ReadingFacts
<1>2. Elements(Top.page, on) # <<>> /\ on \in Handlers
  BY <1>0, CallOf
<1>3. CASE f \in {"payment", "covers"}
  <2>1. RowsBy(f) = f /\ f \notin LinkKinds \cup {"body", "html", "basic"} /\ f \in Handlers
    BY <1>3 DEF RowsBy, LinkKinds, Handlers, Sections
  <2>2. data'[tender][f] = IF on = f THEN data[tender][f] \o Value(Top.page, on) ELSE data[tender][f]
    BY <1>1, <1>3 DEF ReadEffect
  <2>3. on = f => site[Top.page].html /\ Shows(Top.page, f)
    <3>1. Elements(Top.page, f) = IF site[Top.page].html /\ Shows(Top.page, f) THEN <<Top.page>> ELSE <<>>
      BY <1>0, <1>1, <2>1, ElementsFacts
    <3> QED
      BY <1>2, <3>1
  <2> QED
    BY <2>1, <2>2, <2>3
<1>4. CASE f \in {"bids", "financial", "awarded"}
  <2>1. RowsBy(f) = "html"
    BY <1>4 DEF RowsBy
  <2>2. data'[tender][f] = IF on = "html" /\ Shows(Top.page, f)
                           THEN data[tender][f] \o Value(Top.page, on) ELSE data[tender][f]
    BY <1>1, <1>4 DEF ReadEffect
  <2>3. on = "html" => site[Top.page].html
    <3>1. "html" \notin LinkKinds \cup {"body"} /\ site[Top.page].html \in BOOLEAN
      BY <1>0, <1>1, CollectorAssumption DEF LinkKinds
    <3>2. Elements(Top.page, "html") = Once(site[Top.page].html, Top.page)
      BY <3>1 DEF Elements
    <3> QED
      BY <1>2, <3>1, <3>2 DEF Once
  <2> QED
    BY <2>1, <2>2, <2>3
<1> QED
  BY <1>3, <1>4 DEF Repeated

(* What a step does to the rows of a tender. *)
LEMMA RowChange ==
  ASSUME OwnInv, FineStep, NEW t \in Tenders, NEW f \in Repeated
  PROVE  \/ /\ data'[t][f] = data[t][f]
            /\ \A on : Reading(on) /\ t = tender => ~ (on = RowsBy(f) /\ Shows(Top.page, f))
         \/ \E on \in Readers :
              /\ Reading(on) /\ t = tender
              /\ data'[t][f] = data[t][f] \o Value(Top.page, on)
              /\ on = RowsBy(f) /\ Shows(Top.page, f) /\ site[Top.page].html
<1>0. Types /\ FramesInv /\ HandlersInv
  BY DEF OwnInv
<1>1. ASSUME NEW on \in Readers, Reading(on), t = tender
      PROVE  \/ /\ data'[t][f] = data[t][f]
                /\ ~ (on = RowsBy(f) /\ Shows(Top.page, f))
             \/ /\ data'[t][f] = data[t][f] \o Value(Top.page, on)
                /\ on = RowsBy(f) /\ Shows(Top.page, f) /\ site[Top.page].html
  BY <1>1, RowRead
<1>2. ASSUME NEW on \in Readers, Reading(on), t # tender PROVE data'[t] = data[t]
  BY <1>0, <1>2, ReadingFacts DEF Types
<1>3. CASE ~ \E on \in Readers : Reading(on)
  BY <1>3 DEF FineStep, StartsFresh, Starts, FollowsDetails, PastFollows, FollowsCorrigendum, Visits,
       Skips, ListsRow, AddsDetail, Ends, Returns, Reading
<1>4. \A on, oo : Reading(on) /\ Reading(oo) => on = oo
  BY DEF Reading, Calling
<1>5. \A on : Reading(on) => on \in Readers
  BY DEF Reading
<1> QED
  BY <1>1, <1>2, <1>3, <1>4, <1>5

LEMMA RowCallsOld ==
  ASSUME OwnInv, RowCallsInv, FineStep, ~StartsFresh, DetailsOnePage(tender),
         NEW i \in DOMAIN stack, OldFrame(i), NEW c \in stack'[i].left, callbacks'[c.cb].on \in RowHandlers
  PROVE  /\ \A d \in stack'[i].left : callbacks'[d.cb].on = callbacks'[c.cb].on => d = c
         /\ \A f \in Repeated : callbacks'[c.cb].on = RowsBy(f) =>
              stack'[i].page \notin PagesOf(data'[tender][f])
<1>0. Types /\ FramesInv /\ HandlersInv
  BY DEF OwnInv
<1>1. \A d \in stack'[i].left :
        /\ stack # <<>> /\ d \in stack[i].left
        /\ Owed /\ i = Len(stack) => d # Call
        /\ callbacks'[d.cb].on = callbacks[d.cb].on
  BY <1>0, OldCall
<1>2. \A d \in stack[i].left : callbacks[d.cb].on = callbacks[c.cb].on => d = c
  BY <1>1 DEF RowCallsInv
<1>3. ASSUME NEW f \in Repeated, callbacks[c.cb].on = RowsBy(f)
      PROVE  stack[i].page \notin PagesOf(data'[tender][f])
  <2>1. stack[i].page \notin PagesOf(data[tender][f]) /\ tender \in Tenders
    BY <1>0, <1>1, <1>3 DEF RowCallsInv, FramesInv
  <2>2. ASSUME NEW on \in Readers, Reading(on), on = RowsBy(f),
               data'[tender][f] = data[tender][f] \o Value(Top.page, on)
        PROVE  stack[i].page \notin PagesOf(data'[tender][f])
    <3>1. Owed /\ Handler.on = on
      BY <2>2 DEF Reading, Calling
    <3>2. /\ Len(stack) \in DOMAIN stack /\ Call \in stack[Len(stack)].left /\ Top = stack[Len(stack)]
          /\ Handler = callbacks[Call.cb] /\ Top.page \in Pages
      BY <1>0, <3>1, CallOf
    <3>3. i # Len(stack)
      BY <1>1, <1>2, <1>3, <2>2, <3>1, <3>2
    <3>4. stack[i].page # Top.page
      BY <1>0, <1>1, <3>2, <3>3 DEF FramesInv
    <3>5. on \in Handlers /\ data[tender][f] \in Seq(Values)
      <4>1. on \in Handlers
        BY DEF Readers, Handlers, Sections
      <4>2. f \in Fields
        BY DEF Repeated, Fields, Stages
      <4> QED
        BY <1>0, <2>1, <4>1, <4>2 DEF Types
    <3>6. PagesOf(data'[tender][f]) = PagesOf(data[tender][f]) \cup {Top.page}
      BY <2>2, <3>2, <3>5, RowAppended
    <3> QED
      BY <2>1, <3>4, <3>6
  <2> QED
    BY <2>1, <2>2, RowChange
<1>4. stack'[i].page = stack[i].page
  BY DEF OldFrame
<1> QED
  BY <1>1, <1>2, <1>3, <1>4

LEMMA RowCallsNew ==
  ASSUME OwnInv, OnceInv, FineStep, OwnInv', OnceInv', Opens, DetailsOnePage(tender)', tender' = tender,
         NEW i, i = Len(stack) + 1, stack' # <<>>,
         NEW c \in stack'[i].left, callbacks'[c.cb].on \in RowHandlers
  PROVE  /\ \A d \in stack'[i].left : callbacks'[d.cb].on = callbacks'[c.cb].on => d = c
         /\ \A f \in Repeated : stack'[i].page \notin PagesOf(data'[tender][f])
<1>0. /\ Types /\ FramesInv /\ HandlersInv /\ OwnPages /\ site \in Sites
      /\ callbacks' \in Seq(HandlerRec) /\ stack' \in Seq(Frame)
  BY DEF OwnInv, Types
<1>1. /\ Call.link \in Pages /\ tender \in Tenders /\ Len(stack) \in Nat \ {0} /\ Call.link \notin visited
      /\ stack'[i].page = Call.link /\ stack'[i].left = Calls(Call.link, callbacks')
      /\ DOMAIN stack' = 1 .. Len(stack) + 1 /\ stack # <<>>
  BY <1>0, CallFacts DEF Opens, Owed
<1>2. ASSUME NEW d \in Calls(Call.link, callbacks'), callbacks'[d.cb].on = callbacks'[c.cb].on PROVE d = c
  <2>1. /\ c \in CallRec /\ c.cb \in DOMAIN callbacks' /\ c.nth \in DOMAIN Elements(Call.link, callbacks'[c.cb].on)
        /\ c.link = Elements(Call.link, callbacks'[c.cb].on)[c.nth]
        /\ d \in CallRec /\ d.cb \in DOMAIN callbacks' /\ d.nth \in DOMAIN Elements(Call.link, callbacks'[c.cb].on)
        /\ d.link = Elements(Call.link, callbacks'[c.cb].on)[d.nth]
    BY <1>0, <1>1, <1>2, CallsFacts
  <2>2. Len(stack') # 1
    BY <1>0, <1>1
  <2>3. d.cb = c.cb
    BY <1>2, <2>1, <2>2 DEF OnceInv
  <2>4. Elements(Call.link, callbacks'[c.cb].on) \in {<<>>, <<Call.link>>}
    <3>1. callbacks'[c.cb].on \in Handlers /\ callbacks'[c.cb].on \notin LinkKinds
      BY <1>0, <2>1 DEF RowHandlers, LinkKinds, Handlers, Sections
    <3> QED
      BY <1>0, <1>1, <3>1, ElementsFacts
  <2>5. d.nth = c.nth
    BY <2>1, <2>4
  <2> QED
    BY <2>1, <2>3, <2>5 DEF CallRec
<1>3. ASSUME NEW f \in Repeated PROVE Call.link \notin PagesOf(data'[tender][f])
  <2>1. data'[tender][f] = data[tender][f]
    <3>1. stack' # Called
      <4>1. Called \in Seq(Frame) /\ Len(Called) = Len(stack)
        BY <1>0, CalledFacts DEF Opens
      <4>2. Len(stack') = Len(stack) + 1
        BY <1>0, <1>1
      <4> QED
        BY <1>1, <4>1, <4>2
    <3>2. \A on : ~Reading(on)
      BY <3>1 DEF Reading
    <3> QED
      BY <1>1, <3>2, RowChange
  <2>2. f \in Fields
    BY DEF Repeated, Fields, Stages
  <2>3. PagesOf(data[tender][f]) \subseteq opened[tender]
    BY <1>0, <1>1, <2>2 DEF OwnPages
  <2> QED
    BY <1>1, <2>1, <2>3 DEF OnceInv
<1> QED
  BY <1>1, <1>2, <1>3

LEMMA RowCallsStep ==
  ASSUME OwnInv, OnceInv, RowCallsInv, FineStep, OwnInv', OnceInv'
  PROVE  RowCallsInv'
<1> SUFFICES ASSUME stack' # <<>>, DetailsOnePage(tender)', NEW i \in DOMAIN stack',
                    NEW c \in stack'[i].left, callbacks'[c.cb].on \in RowHandlers
             PROVE  /\ \A d \in stack'[i].left : callbacks'[d.cb].on = callbacks'[c.cb].on => d = c
                    /\ \A f \in Repeated : callbacks'[c.cb].on = RowsBy(f) =>
                         stack'[i].page \notin PagesOf(data'[tender'][f])
  BY DEF RowCallsInv, RowsBy, PagesOf
<1>0. Types /\ FramesInv /\ HandlersInv
  BY DEF OwnInv
<1>1. CASE StartsFresh
  <2>1. /\ stack' = <<StartFrame(Links[tender'], callbacks')>>
        /\ \A j \in DOMAIN callbacks' : callbacks'[j].on \in {"more", "summary"}
    BY <1>1 DEF StartsFresh, Starts
  <2>2. i = 1 /\ stack'[1].left = Calls(Links[tender'], callbacks')
    BY <2>1 DEF StartFrame
  <2>3. c.cb \in DOMAIN callbacks'
    BY DEF OwnInv, FramesInv, Owes
  <2> QED
    BY <2>1, <2>3 DEF RowHandlers
<1>2. CASE ~StartsFresh
  <2>1. tender' = tender /\ site' = site /\ stack # <<>> /\ skipsDetached' = skipsDetached /\ flow' = flow
    BY <1>2, SameSite, SameTender
  <2>2. DetailsOnePage(tender)
    BY <2>1 DEF DetailsOnePage, Range
  <2>3. CASE i \in DOMAIN stack /\ OldFrame(i)
    BY <1>2, <2>1, <2>2, <2>3, RowCallsOld
  <2>4. CASE i = Len(stack) + 1 /\ Opens
    BY <2>1, <2>4, RowCallsNew
  <2> QED
    BY <1>0, <1>2, <2>3, <2>4, FrameCase
<1> QED
  BY <1>1, <1>2

(* What is kept of a tender grows with the pages opened for it. *)
LEMMA KeptOld ==
  ASSUME OwnInv, FineStep, NEW t \in Tenders, NEW f \in Repeated, NEW p \in Kept(t, f)'
  PROVE  p \in opened[t] => p \in Kept(t, f)
<1>1. site' = site /\ flow' = flow
  BY SameSite
<1>2. opened[t] \subseteq opened'[t]
  <2>1. \/ opened' = opened
        \/ \E u \in Tenders : \E q : opened' = [opened EXCEPT ![u] = @ \cup {q}]
    <3>1. Types /\ FramesInv /\ HandlersInv
      BY DEF OwnInv
    <3>2. StartsFresh => tender' \in Tenders
      BY <3>1, CollectorAssumption DEF StartsFresh, Starts, Types, Tenders
    <3>3. Opens => tender \in Tenders
      BY <3>1, CallFacts DEF Opens
    <3> QED
      BY <3>1, <3>2, <3>3, StackCases DEF StartsFresh, Starts, Opens
  <2> QED
    BY <2>1 DEF OwnInv, Types
<1> QED
  BY <1>1, <1>2 DEF Kept, Shows, Lists

LEMMA RowsKept ==
  ASSUME OwnInv, FineStep, NEW t \in Tenders, NEW f \in Repeated
  PROVE  PagesOf(data[t][f]) \subseteq PagesOf(data'[t][f])
<1>1. ASSUME NEW on \in Readers, Reading(on), t = tender,
             data'[t][f] = data[t][f] \o Value(Top.page, on)
      PROVE  PagesOf(data[t][f]) \subseteq PagesOf(data'[t][f])
  <2>1. Types /\ FramesInv /\ HandlersInv
    BY DEF OwnInv
  <2>2. Top.page \in Pages
    BY <1>1, <2>1, ReadingFacts
  <2>3. on \in Handlers /\ f \in Fields
    BY DEF Readers, Handlers, Sections, Repeated, Fields, Stages
  <2>4. data[t][f] \in Seq(Values)
    BY <2>1, <2>3 DEF Types
  <2> QED
    BY <1>1, <2>2, <2>3, <2>4, RowAppended
<1> QED
  BY <1>1, RowChange

(* The call of a handler that appends is made by reading. *)
LEMMA RowCallMade ==
  ASSUME OwnInv, AttachedInv, FineStep, ~StartsFresh, Owed, Handler.on \in RowHandlers
  PROVE  Reading(Handler.on)
<1>0. Types /\ FramesInv /\ HandlersInv
  BY DEF OwnInv
<1>1. Handler.on \in Readers /\ Handler.on \notin {"more", "summary", "corrigendum", "list_table"}
      /\ Handler.on \notin handled
  BY <1>0 DEF RowHandlers, Readers, Types
<1>2. Handler.attached
  BY <1>0, <1>1, CallOf DEF AttachedInv
<1>3. ~Ends
  <2>1. Top.left # {}
    BY DEF Owed
  <2> QED
    BY <2>1 DEF Ends, Returns
<1>4. \A on : Reading(on) => Handler.on = on
  BY DEF Reading, Calling
<1> QED
  BY <1>1, <1>2, <1>3, <1>4 DEF FineStep, FollowsDetails, PastFollows, FollowsCorrigendum, Visits,
     Calling, Skips, ListsRow, AddsDetail

(* A page that is kept and was opened before has its rows or owes them. *)
LEMMA KeptOldStep ==
  ASSUME OwnInv, AttachedInv, RowsInv, FineStep, ~StartsFresh, NEW f \in Repeated,
         NEW p \in Kept(tender, f)', p \in opened[tender], tender \in Tenders
  PROVE  p \in PagesOf(data'[tender][f]) \/ OwesRow(p, f)'
<1>0. Types /\ FramesInv /\ HandlersInv
  BY DEF OwnInv
<1>1. p \in Kept(tender, f)
  <2>1. PICK t \in Tenders : t = tender
    OBVIOUS
  <2>2. tender' = tender
    BY SameTender
  <2>3. p \in Kept(t, f)'
    BY <2>1, <2>2 DEF Kept, Shows, Lists
  <2> QED
    BY <2>1, <2>3, KeptOld
<1>2. p \in PagesOf(data[tender][f]) => p \in PagesOf(data'[tender][f])
  BY RowsKept
<1>3. ASSUME NEW i \in DOMAIN stack, stack[i].page = p, NEW c \in stack[i].left,
             callbacks[c.cb].on = RowsBy(f)
      PROVE  p \in PagesOf(data'[tender][f]) \/ OwesRow(p, f)'
  <2>0. RowsBy(f) \in RowHandlers
    BY DEF RowsBy, RowHandlers, Repeated
  <2>1. CASE Owed /\ i = Len(stack) /\ c = Call
    <3>1. /\ Handler.on = RowsBy(f) /\ Top.page = p /\ Top.page \in Pages
      BY <1>0, <1>3, <2>1, CallOf
    <3>2. Reading(RowsBy(f)) /\ Shows(Top.page, f)
      <4>1. Shows(p, f)
        BY <1>1 DEF Kept
      <4> QED
        BY <2>0, <2>1, <3>1, <4>1, RowCallMade
    <3>3. data'[tender][f] = data[tender][f] \o Value(Top.page, RowsBy(f))
      BY <3>2, RowChange
    <3>4. RowsBy(f) \in Handlers /\ f \in Fields
      BY DEF RowsBy, Handlers, Sections, Repeated, Fields, Stages
    <3>5. data[tender][f] \in Seq(Values)
      BY <1>0, <3>4 DEF Types
    <3> QED
      BY <3>1, <3>3, <3>4, <3>5, RowAppended
  <2>2. CASE ~(Owed /\ i = Len(stack) /\ c = Call)
    <3>1. OldFrame(i) \/ (Closes /\ i = Len(stack))
      <4>1. DOMAIN stack = 1 .. Len(stack) /\ Len(stack) \in Nat
        BY <1>0 DEF Types
      <4> QED
        BY <1>0, <4>1, StackCases DEF Opens, Closes, Stays
    <3>2. ~(Closes /\ i = Len(stack))
      <4>1. i = Len(stack) => Top = stack[i]
        BY DEF Top, Last
      <4> QED
        BY <4>1, <1>3 DEF Closes
    <3>3. i \in DOMAIN stack' /\ stack'[i].page = p /\ c \in stack'[i].left
      <4>1. i = Len(stack) => Top = stack[i]
        BY DEF Top, Last
      <4> QED
        BY <1>3, <2>2, <3>1, <3>2, <4>1 DEF OldFrame
    <3>4. callbacks'[c.cb].on = RowsBy(f)
      BY <1>0, <1>3, <3>1, <3>2, <3>3, OldCall
    <3>5. OwesRow(p, f)'
      BY <3>3, <3>4 DEF OwesRow, RowsBy
    <3> QED
      BY <3>5
  <2> QED
    BY <2>1, <2>2
<1>4. p \in PagesOf(data[tender][f]) \/ OwesRow(p, f)
  <2>1. tender <= tender
    BY DEF Tenders
  <2> QED
    BY <1>1, <2>1 DEF RowsInv
<1> QED
  BY <1>2, <1>3, <1>4 DEF OwesRow

(* The handlers that are attached when a page arrives. *)
LEMMA OpensHandlers ==
  ASSUME OwnInv, AttachedInv, FineStep, ~StartsFresh, AttachedInv', Opens, NEW f \in Repeated,
         \/ flow = "active" /\ f \in {"payment", "covers"}
         \/ flow = "past" /\ f \in {"bids", "financial", "awarded"} /\ Handler.on # "more"
  PROVE  \E j \in DOMAIN callbacks' : callbacks'[j].on = RowsBy(f) /\ callbacks'[j].attached
<1>0. Types /\ FramesInv /\ HandlersInv /\ Owed /\ flow' = flow
  BY SameSite DEF OwnInv, Opens
<1>1. \/ FollowsDetails \/ PastFollows("more", DetailHandlers)
      \/ PastFollows("summary", <<"html">>) \/ FollowsCorrigendum
  <2>1. DOMAIN stack = 1 .. Len(stack) /\ Len(stack) \in Nat
    BY <1>0 DEF Types
  <2>2. Len(stack) + 1 \in 1 .. Len(stack) + 1 /\ Len(stack) + 1 \notin 1 .. Len(stack)
        /\ Len(stack) + 1 \notin 1 .. Len(stack) - 1
    BY <2>1
  <2> QED
    BY <1>0, <2>1, <2>2, StackCases DEF Opens, Closes, Stays
<1>2. RowsBy(f) \in Readers
  BY DEF RowsBy, Readers
<1>3. (\E j \in DOMAIN callbacks' : callbacks'[j].on = RowsBy(f)) =>
        \E j \in DOMAIN callbacks' : callbacks'[j].on = RowsBy(f) /\ callbacks'[j].attached
  BY <1>2 DEF AttachedInv
<1>4. CASE FollowsDetails
  <2>1. Adds(DetailHandlers) /\ flow = "active"
    BY <1>0, <1>4, HandlersChange DEF FollowsDetails
  <2> QED
    BY <1>0, <1>3, <2>1, AddsDetails DEF RowsBy
<1>5. CASE FollowsCorrigendum
  <2>1. Adds(<<"list_table">>) /\ flow = "active"
    BY <1>0, <1>5, HandlersChange DEF FollowsCorrigendum
  <2>2. Call.cb \in DOMAIN callbacks /\ callbacks[Call.cb].on = "corrigendum"
    BY <1>0, <1>5, CallOf DEF FollowsCorrigendum, Visits, Calling
  <2>3. \E j \in DOMAIN callbacks' : callbacks'[j].on \in {"payment", "covers", "corrigendum"}
    BY <2>1, <2>2 DEF Adds
  <2> QED
    BY <1>0, <1>3, <2>1, <2>3 DEF AttachedInv, RowsBy
<1>6. CASE PastFollows("summary", <<"html">>)
  <2>1. Adds(<<"html">>) /\ flow = "past"
    BY <1>0, <1>6, HandlersChange DEF PastFollows
  <2>2. 1 \in DOMAIN <<"html">> /\ <<"html">>[1] = "html"
    OBVIOUS
  <2>3. \E j \in DOMAIN callbacks' : callbacks'[j].on = "html"
    BY <2>1, <2>2 DEF Adds
  <2> QED
    BY <1>3, <2>1, <2>3 DEF RowsBy
<1>7. CASE PastFollows("more", DetailHandlers)
  BY <1>7 DEF PastFollows, Visits, Calling
<1> QED
  BY <1>1, <1>4, <1>5, <1>6, <1>7

LEMMA KeptNewStep ==
  ASSUME OwnInv, AttachedInv, FineStep, ~StartsFresh, AttachedInv', OwnInv', NEW f \in Repeated,
         NEW p \in Kept(tender, f)', p \notin opened[tender], tender \in Tenders
  PROVE  OwesRow(p, f)'
<1>0. /\ Types /\ FramesInv /\ HandlersInv /\ flow' = flow /\ site' = site /\ tender' = tender
      /\ site \in Sites /\ flow \in {"active", "past"} /\ callbacks' \in Seq(HandlerRec)
  BY SameSite, SameTender DEF OwnInv, Types
<1>1. /\ p \in opened'[tender] /\ site[p].html /\ Shows(p, f)
      /\ flow = "active" => f \in {"payment", "covers"}
      /\ flow = "past" => /\ f \in {"bids", "financial", "awarded"}
                          /\ \A q \in opened'[tender] : ~Lists(q, p, "more")
  BY <1>0 DEF Kept, Shows, Lists
<1>2. Opens
  <2>1. opened' # opened
    BY <1>1
  <2> QED
    BY <1>0, <2>1, StackCases
<1>3. /\ p = Call.link /\ p \in Pages /\ Owed
      /\ Len(stack) + 1 \in DOMAIN stack'
      /\ stack'[Len(stack) + 1].page = p
      /\ stack'[Len(stack) + 1].left = Calls(p, callbacks')
  <2>1. p = Call.link
    BY <1>0, <1>1, <1>2 DEF Opens, Types
  <2>2. Owed /\ Len(stack) \in Nat
    BY <1>0, <1>2 DEF Opens, Types
  <2> QED
    BY <1>0, <1>2, <2>1, <2>2, CallOf DEF Opens
<1>4. flow = "past" => Handler.on # "more"
  <2> SUFFICES ASSUME flow = "past", Handler.on = "more" PROVE FALSE
    OBVIOUS
  <2>1. /\ Top.page \in Pages /\ Call.link = Elements(Top.page, "more")[Call.nth]
        /\ Call.nth \in DOMAIN Elements(Top.page, "more")
        /\ Len(stack) \in DOMAIN stack /\ Top = stack[Len(stack)]
    BY <1>0, <1>3, CallOf
  <2>2. Elements(Top.page, "more") = IF site[Top.page].html THEN site[Top.page].links["more"] ELSE <<>>
    BY <1>0, <2>1, ElementsFacts, Selectors DEF LinkKinds
  <2>3. Lists(Top.page, p, "more")
    BY <1>3, <2>1, <2>2 DEF Lists, Range
  <2>4. Top.page \in opened[tender]
    BY <1>0, <1>3, <2>1 DEF FramesInv, Owed
  <2>5. Top.page \in opened'[tender]
    BY <1>0, <1>2, <2>4 DEF Opens, Types
  <2> QED
    BY <1>1, <2>3, <2>5
<1>5. PICK j \in DOMAIN callbacks' : callbacks'[j].on = RowsBy(f) /\ callbacks'[j].attached
  BY <1>0, <1>1, <1>2, <1>4, OpensHandlers
<1>6. Elements(p, RowsBy(f)) = <<p>>
  <2>1. CASE f \in {"payment", "covers"}
    <3>1. RowsBy(f) = f /\ f \in Handlers /\ f \notin LinkKinds \cup {"body", "html", "basic"}
      BY <2>1 DEF RowsBy, Handlers, LinkKinds, Sections
    <3> QED
      BY <1>0, <1>1, <1>3, <3>1, ElementsFacts
  <2>2. CASE f \notin {"payment", "covers"}
    <3>1. RowsBy(f) = "html" /\ "html" \in Handlers
      BY <2>2 DEF RowsBy, Handlers
    <3> QED
      BY <1>0, <1>1, <1>3, <3>1, ElementsFacts
  <2> QED
    BY <2>1, <2>2
<1>7. [cb |-> j, nth |-> 1, link |-> Elements(p, callbacks'[j].on)[1]] \in Calls(p, callbacks')
  <2>1. 1 \in DOMAIN Elements(p, callbacks'[j].on)
    BY <1>5, <1>6
  <2> QED
    BY <1>0, <1>3, <1>5, <2>1, CallsFacts
<1>8. OwesRow(p, f)'
  <2> DEFINE c == [cb |-> j, nth |-> 1, link |-> Elements(p, callbacks'[j].on)[1]]
  <2>1. c.cb = j /\ c \in stack'[Len(stack) + 1].left
    BY <1>3, <1>7
  <2> HIDE DEF c
  <2> QED
    BY <1>3, <1>5, <2>1 DEF OwesRow, RowsBy
<1> QED
  BY <1>8

LEMMA RowsStep ==
  ASSUME ExactInv, FineStep, OwnInv', AttachedInv'
  PROVE  RowsInv'
<1>0. /\ OwnInv /\ AttachedInv /\ OnceInv /\ RowCallsInv /\ RowsInv
      /\ Types /\ FramesInv /\ HandlersInv
      /\ site' = site /\ flow' = flow /\ skipsDetached' = skipsDetached
  BY SameSite DEF ExactInv, OwnInv
<1> SUFFICES ASSUME NEW t \in Tenders, NEW f \in Repeated
             PROVE  /\ DetailsOnePage(t)' => NoDuplicates(data'[t][f])
                    /\ \A p \in PagesOf(data'[t][f]) : site'[p].html /\ Shows(p, f)'
                    /\ t <= tender' => \A p \in Kept(t, f)' :
                         p \in PagesOf(data'[t][f]) \/ (t = tender' /\ OwesRow(p, f)')
  BY DEF RowsInv, NoDuplicates, PagesOf
<1>1. ASSUME DetailsOnePage(t)' PROVE NoDuplicates(data'[t][f])
  <2>1. DetailsOnePage(t)
    BY <1>0, <1>1 DEF DetailsOnePage, Range
  <2>2. NoDuplicates(data[t][f])
    BY <1>0, <2>1 DEF RowsInv
  <2>3. ASSUME NEW on \in Readers, Reading(on), t = tender, on = RowsBy(f),
               data'[t][f] = data[t][f] \o Value(Top.page, on)
        PROVE  NoDuplicates(data'[t][f])
    <3>1. Owed /\ Handler.on = on
      BY <2>3 DEF Reading, Calling
    <3>2. /\ Len(stack) \in DOMAIN stack /\ Call \in stack[Len(stack)].left /\ Top = stack[Len(stack)]
          /\ Handler = callbacks[Call.cb] /\ Top.page \in Pages
      BY <1>0, <3>1, CallOf
    <3>3. on \in RowHandlers /\ on \in Handlers /\ f \in Fields
      BY <2>3 DEF RowsBy, RowHandlers, Handlers, Sections, Repeated, Fields, Stages
    <3>4. Top.page \notin PagesOf(data[t][f])
      BY <1>0, <2>1, <2>3, <3>1, <3>2, <3>3 DEF RowCallsInv, Owed
    <3>5. data[t][f] \in Seq(Values)
      BY <1>0, <3>3 DEF Types
    <3> QED
      BY <2>2, <2>3, <3>2, <3>3, <3>4, <3>5, RowAppended
  <2> QED
    BY <1>0, <2>2, <2>3, RowChange
<1>2. ASSUME NEW p \in PagesOf(data'[t][f]) PROVE site[p].html /\ Shows(p, f)
  <2>1. p \in PagesOf(data[t][f]) => site[p].html /\ Shows(p, f)
    BY <1>0 DEF RowsInv
  <2>2. ASSUME NEW on \in Readers, Reading(on), t = tender, Shows(Top.page, f), site[Top.page].html,
               data'[t][f] = data[t][f] \o Value(Top.page, on)
        PROVE  p \in PagesOf(data[t][f]) \/ p = Top.page
    <3>1. Top.page \in Pages
      BY <1>0, <2>2, ReadingFacts
    <3>2. on \in Handlers /\ f \in Fields
      BY DEF Readers, Handlers, Sections, Repeated, Fields, Stages
    <3>3. data[t][f] \in Seq(Values)
      BY <1>0, <3>2 DEF Types
    <3> QED
      BY <2>2, <3>1, <3>2, <3>3, RowAppended
  <2> QED
    BY <1>0, <2>1, <2>2, RowChange
<1>3. \A p : Shows(p, f)' = Shows(p, f)
  BY <1>0 DEF Shows
<1>4. ASSUME t <= tender', NEW p \in Kept(t, f)'
      PROVE  p \in PagesOf(data'[t][f]) \/ (t = tender' /\ OwesRow(p, f)')
  <2>1. p \in PagesOf(data[t][f]) => p \in PagesOf(data'[t][f])
    BY <1>0, RowsKept
  <2>2. CASE StartsFresh
    <3>1. tender' \in Tenders /\ tender' = tender + 1 /\ tender \in Int /\ stack = <<>>
      BY <1>0, <2>2, CollectorAssumption DEF StartsFresh, Starts, Types, Tenders
    <3>2. CASE t = tender'
      <4>1. Fresh(t)
        BY <1>0, <3>1, <3>2 DEF OwnInv, OpenedInv
      <4>2. opened'[t] \subseteq {Links[t]}
        BY <1>0, <2>2, <3>2, <4>1 DEF Fresh, StartsFresh, Starts, Types
      <4> QED
        BY <4>2 DEF Kept
    <3>3. CASE t # tender'
      <4>1. t <= tender
        BY <1>4, <3>1, <3>3 DEF Tenders
      <4>2. opened'[t] = opened[t]
        BY <1>0, <2>2, <3>3 DEF StartsFresh, Starts, Types
      <4>3. p \in Kept(t, f)
        BY <1>0, <4>2, KeptOld DEF Kept
      <4>4. ~OwesRow(p, f)
        BY <3>1 DEF OwesRow
      <4> QED
        BY <1>0, <2>1, <4>1, <4>3, <4>4 DEF RowsInv
    <3> QED
      BY <3>2, <3>3
  <2>3. CASE ~StartsFresh
    <3>1. tender' = tender
      BY <2>3, SameTender
    <3>2. CASE t # tender
      <4>1. opened'[t] = opened[t]
        <5>1. opened' = opened \/ opened' = [opened EXCEPT ![tender] = @ \cup {Call.link}]
          BY <1>0, <2>3, StackCases DEF Opens
        <5> QED
          BY <1>0, <3>2, <5>1 DEF Types
      <4>2. p \in Kept(t, f)
        BY <1>0, <4>1, KeptOld DEF Kept
      <4> QED
        BY <1>0, <1>4, <2>1, <3>1, <3>2, <4>2 DEF RowsInv
    <3>3. CASE t = tender
      <4>1. p \in Kept(tender, f)'
        BY <1>4, <3>1, <3>3 DEF Kept, Shows, Lists
      <4> QED
        BY <1>0, <2>3, <3>1, <3>3, <4>1, KeptOldStep, KeptNewStep
    <3> QED
      BY <3>2, <3>3
  <2> QED
    BY <2>2, <2>3
<1> QED
  BY <1>0, <1>1, <1>2, <1>3, <1>4 DEF Shows

-----------------------------------------------------------------------------
LEMMA InitExact == FlowInit => ExactInv
<1> SUFFICES ASSUME FlowInit PROVE ExactInv
  OBVIOUS
<1>1. OwnInv
  BY InitOwn
<1>2. /\ callbacks = <<>> /\ stack = <<>> /\ tender = 0
      /\ \A t \in Tenders : \A f \in Fields : data[t][f] = <<>>
  BY DEF FlowInit, Init
<1>3. DOMAIN callbacks = {}
  BY <1>2
<1>4. AttachedInv /\ OnceInv /\ RowCallsInv
  BY <1>2, <1>3 DEF AttachedInv, OnceInv, RowCallsInv
<1>5. RowsInv
  <2>1. \A t \in Tenders : \A f \in Repeated : data[t][f] = <<>>
    BY <1>2 DEF Repeated, Fields, Stages
  <2>2. \A t \in Tenders : ~(t <= tender)
    BY <1>2 DEF Tenders
  <2> QED
    BY <2>1, <2>2 DEF RowsInv, NoDuplicates, PagesOf
<1> QED
  BY <1>1, <1>4, <1>5 DEF ExactInv

LEMMA ExactStep == ExactInv /\ [Next]_allVars => ExactInv'
<1> SUFFICES ASSUME ExactInv, [Next]_allVars PROVE ExactInv'
  OBVIOUS
<1>0. OwnInv /\ OwnInv' /\ Types' /\ Types /\ FramesInv /\ HandlersInv
      /\ AttachedInv /\ OnceInv /\ RowCallsInv /\ RowsInv
  BY OwnStep DEF ExactInv, OwnInv
<1>1. CASE Next
  <2>1. FineStep
    BY <1>0, <1>1, FineSteps
  <2>2. AttachedInv'
    BY <1>0, <2>1, AttachedStep
  <2>3. OnceInv'
    BY <1>0, <2>1, <2>2, OnceInvStep
  <2>4. RowCallsInv'
    BY <1>0, <2>1, <2>3, RowCallsStep
  <2>5. RowsInv'
    BY <1>0, <2>1, <2>2, RowsStep
  <2> QED
    BY <1>0, <2>2, <2>3, <2>4, <2>5 DEF ExactInv
<1>2. CASE UNCHANGED allVars
  <2>1. UNCHANGED <<site, skipsDetached, tender, callbacks, visited, stack, opened, data, corrigenda,
                    result, handled, flow>>
    BY <1>2 DEF allVars, vars, portal
  <2>2. AttachedInv'
    BY <1>0, <2>1 DEF AttachedInv
  <2>a. \A t : /\ MoreLinks(t)' = MoreLinks(t) /\ (OnePage(t)' <=> OnePage(t))
               /\ DetailsOnePage(t)' <=> DetailsOnePage(t)
    BY <2>1 DEF DetailsOnePage, OnePage, MoreLinks, Range
  <2>3. OnceInv'
    BY <1>0, <2>1, <2>a DEF OnceInv
  <2>4. RowCallsInv'
    BY <1>0, <2>1, <2>a DEF RowCallsInv
  <2>b. \A t, f : Kept(t, f)' = Kept(t, f)
    BY <2>1 DEF Kept, Shows, Lists, Range
  <2>c. \A p, f : (OwesRow(p, f)' <=> OwesRow(p, f)) /\ (Shows(p, f)' <=> Shows(p, f))
    BY <2>1 DEF OwesRow, Shows
  <2>5. RowsInv'
    BY <1>0, <2>1, <2>a, <2>b, <2>c DEF RowsInv
  <2> QED
    BY <1>0, <2>2, <2>3, <2>4, <2>5 DEF ExactInv
<1> QED
  BY <1>1, <1>2

(* The handlers that append are called once for a page that has something  *)
(* for them, as long as the links of a start page lead to one page.        *)
THEOREM ExactInvariance == Spec => []ExactInv
<1> QED
  BY InitExact, ExactStep, PTL DEF Spec

(* A tender whose extraction is over is not under way. *)
LEMMA OverFacts ==
  ASSUME ExactInv, NEW t \in Tenders, Over(t)
  PROVE  t <= tender /\ (t = tender => stack = <<>>)
<1>1. OwnInv /\ OnceInv /\ Types
  BY DEF ExactInv, OwnInv
<1>2. t <= tender
  <2>1. ~(t > tender)
    BY <1>1 DEF OwnInv, OpenedInv, Fresh, Over
  <2> QED
    BY <1>1, <2>1 DEF Types, Tenders
<1> QED
  BY <1>1, <1>2 DEF OnceInv, Over

(* When an extraction is over, what is appended page by page is there once *)
(* for every page that shows it.                                           *)
THEOREM RowsExactAlways == Spec => []RowsExact
<1>1. ExactInv => RowsExact
  <2> SUFFICES ASSUME ExactInv, NEW t \in Tenders, Over(t)
               PROVE  /\ \A f \in Repeated :
                           /\ DetailsOnePage(t) => NoDuplicates(data[t][f])
                           /\ \A p \in PagesOf(data[t][f]) : site[p].html /\ Shows(p, f)
                      /\ flow = "active" => \A f \in {"payment", "covers"} :
                           {p \in opened[t] \ {Links[t]} : site[p].html /\ Shows(p, f)}
                             \subseteq PagesOf(data[t][f])
                      /\ flow = "past" => \A f \in {"bids", "financial", "awarded"} :
                           {p \in opened[t] \ {Links[t]} :
                              /\ site[p].html /\ Shows(p, f)
                              /\ \A q \in opened[t] : ~Lists(q, p, "more")} \subseteq PagesOf(data[t][f])
    BY DEF RowsExact
  <2>1. t <= tender /\ (t = tender => stack = <<>>) /\ RowsInv
    BY OverFacts DEF ExactInv
  <2>2. \A f \in Repeated : Kept(t, f) \subseteq PagesOf(data[t][f])
    BY <2>1 DEF RowsInv, OwesRow
  <2>3. \A f \in Repeated : /\ DetailsOnePage(t) => NoDuplicates(data[t][f])
                            /\ \A p \in PagesOf(data[t][f]) : site[p].html /\ Shows(p, f)
    BY <2>1 DEF RowsInv
  <2>4. ASSUME flow = "active", NEW f \in {"payment", "covers"}
        PROVE  {p \in opened[t] \ {Links[t]} : site[p].html /\ Shows(p, f)} \subseteq Kept(t, f)
    BY <2>4 DEF Kept
  <2>5. ASSUME flow = "past", NEW f \in {"bids", "financial", "awarded"}
        PROVE  {p \in opened[t] \ {Links[t]} :
                  /\ site[p].html /\ Shows(p, f)
                  /\ \A q \in opened[t] : ~Lists(q, p, "more")} \subseteq Kept(t, f)
    BY <2>5 DEF Kept
  <2>6. {"payment", "covers", "bids", "financial", "awarded"} = Repeated
    BY DEF Repeated
  <2>7. ASSUME flow = "active", NEW f \in {"payment", "covers"}
        PROVE  {p \in opened[t] \ {Links[t]} : site[p].html /\ Shows(p, f)} \subseteq PagesOf(data[t][f])
    <3>1. f \in Repeated
      BY <2>6
    <3> QED
      BY <2>2, <2>4, <2>7, <3>1
  <2>8. ASSUME flow = "past", NEW f \in {"bids", "financial", "awarded"}
        PROVE  {p \in opened[t] \ {Links[t]} :
                  /\ site[p].html /\ Shows(p, f)
                  /\ \A q \in opened[t] : ~Lists(q, p, "more")} \subseteq PagesOf(data[t][f])
    <3>1. f \in Repeated
      BY <2>6
    <3> QED
      BY <2>2, <2>5, <2>8, <3>1
  <2> QED
    BY <2>3, <2>7, <2>8
<1> QED
  BY <1>1, ExactInvariance, PTL

-----------------------------------------------------------------------------
(***************************************************************************)
(* The page with the details decides.                                      *)
(***************************************************************************)

(* The page that the first link to details of the start page leads to. *)
LeadsTo(t, d) ==
  Lists(Links[t], d, "more") /\ Head(site[Links[t]].links["more"]) = d /\ d # Links[t]

Decides(t, d) ==
  /\ LeadsTo(t, d) /\ site[d].html
  /\ flow = "past" => site[d].links["summary"] = <<>>

(* What page d says of field g, and the handler that reads it first. *)
Says(d, g, by) ==
  \/ g \in {"basic", "dates", "work"} /\ by = g /\ Shows(d, g)
  \/ g = "id" /\ by = "body" /\ Shows(d, "text")
  \/ g = "id" /\ by = "basic" /\ Shows(d, "id") /\ ~Shows(d, "text")

(* It owes the call before it visits any corrigendum: no other page has    *)
(* had a say yet.                                                          *)
OwesFirst(d, g, by) ==
  /\ Len(stack) = 2 /\ stack[2].page = d /\ data[tender][g] = <<>>
  /\ flow = "past" => "more" \in handled
  /\ \E c \in stack[2].left :
       /\ callbacks[c.cb].on = by
       /\ \A e \in stack[2].left : callbacks[e.cb].on = "corrigendum" => by = "body" \/ c.cb < e.cb

SaidInv ==
  \A t \in Tenders : t <= tender =>
    \A d \in opened[t] : Decides(t, d) =>
      \A g \in Fields : \A by \in Handlers : Says(d, g, by) =>
        data[t][g] = Value(d, by) \/ (t = tender /\ OwesFirst(d, g, by))

(* The first link of the start page is not followed yet. *)
Untouched ==
  /\ opened[tender] = {Links[tender]} /\ \A g \in Fields : data[tender][g] = <<>>
  /\ Len(stack) = 1
  /\ flow = "past" => handled = {}
  /\ Len(callbacks) \in {1, 2} /\ callbacks[1].on = "more" /\ callbacks[1].attached
  /\ \A i \in DOMAIN callbacks : callbacks[i].on \in {"more", "summary"}
  /\ stack[1].left = {} \/ \E c \in stack[1].left : c.cb = 1 /\ c.nth = 1

StartInv ==
  stack # <<>> => \A d \in Pages : LeadsTo(tender, d) => d \in visited \/ Untouched

DecideInv == ExactInv /\ SaidInv /\ StartInv

LEMMA LeadsFacts ==
  ASSUME site \in Sites, NEW t \in Tenders, NEW d, LeadsTo(t, d)
  PROVE  /\ d \in Pages /\ Links[t] \in Pages
         /\ site[Links[t]].links["more"] \in Seq(Pages)
         /\ 1 \in DOMAIN site[Links[t]].links["more"]
         /\ site[Links[t]].links["more"][1] = d
<1>1. Links[t] \in Pages
  BY CollectorAssumption DEF Tenders
<1>2. site[Links[t]].links["more"] \in Seq(Pages)
  BY <1>1, CollectorAssumption DEF LinkKinds
<1>3. PICK s \in Seq(Pages) : s = site[Links[t]].links["more"]
  BY <1>2
<1>4. \E i \in DOMAIN s : s[i] = d
  BY <1>3 DEF LeadsTo, Lists, Range
<1>5. 1 \in DOMAIN s /\ s[1] \in Pages
  BY <1>3, <1>4
<1>6. Head(s) = s[1]
  BY <1>3, <1>5
<1> QED
  BY <1>1, <1>2, <1>3, <1>5, <1>6 DEF LeadsTo

(* The start page arrives: it owes the call for its first link. *)
LEMMA StartUntouched ==
  ASSUME OwnInv, StartsFresh, FineStep, OwnInv', stack' # <<>>, NEW d, LeadsTo(tender, d)'
  PROVE  Untouched'
<1>0. /\ Types /\ OpenedInv /\ site' = site /\ flow' = flow /\ flow \in {"active", "past"} /\ site \in Sites
      /\ callbacks' \in Seq(HandlerRec)
  BY SameSite DEF OwnInv, Types
<1>1. tender' \in Tenders /\ tender' > tender
  BY <1>0, CollectorAssumption DEF StartsFresh, Starts, Types, Tenders
<1>2. PICK t \in Tenders : t = tender'
  BY <1>1
<1>3. Fresh(t) /\ LeadsTo(t, d) /\ Links[t] \in Pages
  <2>1. Fresh(t)
    BY <1>0, <1>1, <1>2 DEF OpenedInv
  <2>2. LeadsTo(t, d)
    BY <1>0, <1>2 DEF LeadsTo, Lists
  <2> QED
    BY <1>0, <2>1, <2>2, LeadsFacts
<1> DEFINE p == Links[t]
<1>4. /\ opened'[t] = {p} /\ data'[t] = data[t] /\ stack' = <<StartFrame(p, callbacks')>>
      /\ \A i \in DOMAIN callbacks' : callbacks'[i].on \in {"more", "summary"} /\ callbacks'[i].attached
      /\ Len(callbacks') \in {1, 2} /\ callbacks'[1].on = "more"
      /\ flow = "past" => handled' = {}
  BY <1>0, <1>2, <1>3 DEF StartsFresh, Starts, Fresh, Types
<1>5. Len(stack') = 1 /\ stack'[1].left = Calls(p, callbacks')
  BY <1>4 DEF StartFrame
<1>6. 1 \in DOMAIN callbacks'
  BY <1>0, <1>4
<1>8. ASSUME ~site[p].html PROVE Calls(p, callbacks') = {}
  <2>1. ASSUME NEW c \in Calls(p, callbacks') PROVE FALSE
    <3>1. c.cb \in DOMAIN callbacks' /\ c.nth \in DOMAIN Elements(p, callbacks'[c.cb].on)
      BY <1>0, <1>3, CallsFacts
    <3>2. callbacks'[c.cb].on \in LinkKinds /\ callbacks'[c.cb].on \in Handlers
      BY <1>4, <3>1 DEF LinkKinds, Handlers
    <3>3. Elements(p, callbacks'[c.cb].on) = <<>>
      BY <1>0, <1>3, <1>8, <3>2, ElementsFacts
    <3> QED
      BY <3>1, <3>3
  <2> QED
    BY <2>1
<1>9. stack'[1].left = {} \/ \E c \in stack'[1].left : c.cb = 1 /\ c.nth = 1
  <2>1. CASE site[p].html
    <3>1. [cb |-> 1, nth |-> 1, link |-> Elements(p, callbacks'[1].on)[1]] \in stack'[1].left
      <4>1. Elements(p, "more") = site[p].links["more"] /\ 1 \in DOMAIN Elements(p, "more")
        BY <1>0, <1>3, <2>1, ElementsFacts, LeadsFacts, Selectors DEF LinkKinds
      <4> QED
        BY <1>0, <1>3, <1>4, <1>5, <1>6, <4>1, CallsFacts
    <3>2. PICK c \in stack'[1].left : c = [cb |-> 1, nth |-> 1, link |-> Elements(p, callbacks'[1].on)[1]]
      BY <3>1
    <3> QED
      BY <3>2
  <2>2. CASE ~site[p].html
    BY <1>5, <1>8, <2>2
  <2> QED
    BY <2>1, <2>2
<1>10. \A g \in Fields : data'[t][g] = <<>>
  BY <1>3, <1>4 DEF Fresh
<1> QED
  BY <1>0, <1>2, <1>4, <1>5, <1>6, <1>9, <1>10 DEF Untouched

(* The first call of the start page is the one for its first link. *)
LEMMA FirstFollowed ==
  ASSUME OwnInv, Untouched, stack # <<>>, FineStep, ~StartsFresh, NEW d, LeadsTo(tender, d)
  PROVE  \/ stack' = <<>> /\ opened' = opened
         \/ Call.link = d /\ Owed /\ (FollowsDetails \/ PastFollows("more", DetailHandlers))
<1>0. Types /\ FramesInv /\ HandlersInv /\ site \in Sites /\ tender \in Tenders /\ stack \in Seq(Frame)
  BY DEF OwnInv, Types, FramesInv
<1>1. Top = stack[1] /\ 1 \in DOMAIN stack /\ Len(stack) = 1
  BY <1>0 DEF Untouched, Top, Last
<1>2. CASE stack[1].left = {}
  <2>1. ~Owed
    BY <1>1, <1>2 DEF Owed
  <2>2. Closes /\ opened' = opened
    BY <1>0, <2>1, StackCases DEF Opens, Stays
  <2>3. DOMAIN stack' = 1 .. 0
    BY <1>1, <2>2 DEF Closes
  <2>4. stack' \in Seq(Frame)
    <3>1. Ends
      BY <1>0, <2>1, StackCases DEF Opens, Stays
    <3>2. stack' = Front(stack)
      BY <3>1 DEF Ends, Returns
    <3> QED
      BY <1>0, <3>2, FrontFacts
  <2>5. stack' = <<>>
    BY <2>3, <2>4
  <2> QED
    BY <2>2, <2>5
<1>3. ASSUME NEW c \in stack[1].left, c.cb = 1, c.nth = 1
      PROVE  Call.link = d /\ Owed /\ (FollowsDetails \/ PastFollows("more", DetailHandlers))
  <2>1. Owed
    BY <1>1, <1>3 DEF Owed
  <2>2. /\ Call \in stack[1].left /\ Call \in CallRec /\ Owes(Top.page, Call)
        /\ c # Call => Precedes(Call, c)
        /\ Top.page = Links[tender]
    BY <1>0, <1>1, <1>3, <2>1, CallFacts DEF FramesInv
  <2>3. Call.cb \in DOMAIN callbacks /\ Call.nth \in DOMAIN Elements(Top.page, callbacks[Call.cb].on)
    BY <2>2 DEF Owes
  <2>4. callbacks[Call.cb].on \in {"more", "summary"} /\ callbacks[1].on = "more"
    BY <2>3 DEF Untouched
  <2>5. Call.nth # 0 /\ Call.nth \in Nat /\ Call.cb \in Nat \ {0}
    <3>1. callbacks[Call.cb].on \in Handlers /\ Top.page \in Pages
      BY <1>0, <2>1, <2>4, CallOf, Selectors
    <3>2. Elements(Top.page, callbacks[Call.cb].on) \in Seq(Pages)
      BY <1>0, <3>1, ElementsFacts
    <3> QED
      BY <2>2, <2>3, <3>2 DEF CallRec
  <2>6. c = Call
    BY <1>3, <2>2, <2>4, <2>5 DEF Precedes, OfBody
  <2>7. Handler = callbacks[1] /\ Handler.on = "more" /\ Handler.attached
    BY <1>3, <2>6 DEF Handler, Untouched
  <2>8. Call.link = d
    <3>1. Elements(Top.page, "more") = IF site[Top.page].html THEN site[Top.page].links["more"] ELSE <<>>
      BY <1>0, <2>1, CallOf, ElementsFacts, Selectors DEF LinkKinds
    <3>2. Call.link = Elements(Top.page, "more")[1] /\ 1 \in DOMAIN Elements(Top.page, "more")
      BY <1>0, <1>3, <2>1, <2>6, <2>7, CallOf
    <3> QED
      BY <1>0, <2>2, <3>1, <3>2, LeadsFacts
  <2>9. FollowsDetails \/ PastFollows("more", DetailHandlers)
    <3>1. ~Ends
      BY <2>1 DEF Ends, Returns, Owed
    <3>2. \A on \in Readers : ~Reading(on)
      BY <2>7 DEF Reading, Calling, Readers
    <3>3. ~Skips
      BY <2>7 DEF Skips, Untouched
    <3> QED
      BY <2>7, <3>1, <3>2, <3>3 DEF FineStep, PastFollows, FollowsCorrigendum, Visits, Calling, ListsRow,
         AddsDetail
  <2> QED
    BY <2>1, <2>8, <2>9
<1> QED
  BY <1>2, <1>3 DEF Untouched

LEMMA StartStep ==
  ASSUME DecideInv, FineStep, OwnInv'
  PROVE  StartInv'
<1> SUFFICES ASSUME stack' # <<>>, NEW d \in Pages, LeadsTo(tender, d)' PROVE d \in visited' \/ Untouched'
  BY DEF StartInv
<1>0. OwnInv /\ Types /\ FramesInv /\ HandlersInv /\ OpenedInv /\ StartInv
  BY DEF DecideInv, ExactInv, OwnInv
<1>1. CASE StartsFresh
  BY <1>0, <1>1, StartUntouched
<1>2. CASE ~StartsFresh
  <2>1. stack # <<>> /\ LeadsTo(tender, d)
    <3>1. site' = site /\ tender' = tender /\ stack # <<>>
      BY <1>2, SameSite, SameTender
    <3> QED
      BY <3>1 DEF LeadsTo, Lists
  <2>2. visited \subseteq visited'
    BY <1>2 DEF FineStep, FollowsDetails, PastFollows, FollowsCorrigendum, Visits, Reading, Skips, ListsRow,
       AddsDetail, Ends, Returns, Pops
  <2>3. CASE d \in visited
    BY <2>2, <2>3
  <2>4. CASE Untouched
    <3>1. Call.link = d /\ (FollowsDetails \/ PastFollows("more", DetailHandlers))
      BY <1>0, <1>2, <2>1, <2>4, FirstFollowed
    <3> QED
      BY <3>1 DEF FollowsDetails, PastFollows, Visits
  <2> QED
    BY <1>0, <2>1, <2>3, <2>4 DEF StartInv
<1> QED
  BY <1>1, <1>2

(* Which handlers say what. *)
LEMMA SaysFacts ==
  ASSUME NEW d, NEW g, NEW by, Says(d, g, by)
  PROVE  /\ g \in {"basic", "dates", "work", "id"} /\ g \in Fields
         /\ by \in {"basic", "dates", "work", "body"} /\ by \in Readers /\ by \in Handlers
         /\ by \notin LinkKinds \cup {"list_table"}
         /\ Sets(by, g, d)
         /\ \A on \in Readers : Sets(on, g, d) => on = by \/ (by = "body" /\ on = "basic")
BY DEF Says, Sets, Fields, Readers, Handlers, Sections, LinkKinds

(* The page of the details arrives: it owes what it has to say. *)
LEMMA ArrivalOwes ==
  ASSUME OwnInv, Untouched, FineStep, ~StartsFresh, OwnInv', Opens,
         FollowsDetails \/ PastFollows("more", DetailHandlers),
         NEW d, Call.link = d, Decides(tender, d), NEW g, NEW by, Says(d, g, by)
  PROVE  OwesFirst(d, g, by)'
<1>0. /\ Types /\ FramesInv /\ HandlersInv /\ site \in Sites /\ tender' = tender /\ site' = site
      /\ flow' = flow
      /\ callbacks \in Seq(HandlerRec) /\ callbacks' \in Seq(HandlerRec) /\ stack' \in Seq(Frame) /\ Owed
  BY SameSite, SameTender DEF OwnInv, Types, Opens
<1>1. /\ d \in Pages /\ tender \in Tenders /\ Adds(DetailHandlers)
      /\ data' = data /\ (flow = "past" => handled' = handled \cup {"more"})
  <2>1. d \in Pages /\ tender \in Tenders
    BY <1>0, CallOf
  <2>2. Adds(DetailHandlers)
    BY <1>0, HandlersChange
  <2> QED
    BY <2>1, <2>2 DEF FollowsDetails, PastFollows, Visits
<1>2. Len(stack) = 1 /\ DOMAIN stack' = 1 .. 2 /\ stack'[2].page = d /\ stack'[2].left = Calls(d, callbacks')
  BY <1>0 DEF Untouched, Opens
<1>3. Len(stack') = 2
  BY <1>0, <1>2
<1>4. data'[tender][g] = <<>>
  BY <1>1, SaysFacts DEF Untouched
<1>5. PICK k \in 1 .. 11 : DetailHandlers[k] = by /\ (k < 9 \/ by = "body")
  <2>1. by = "basic" \/ by = "dates" \/ by = "work" \/ by = "body"
    BY SaysFacts
  <2> QED
    BY <2>1, DetailsFacts
<1>6. /\ Len(callbacks) + k \in DOMAIN callbacks' \ DOMAIN callbacks
      /\ callbacks'[Len(callbacks) + k].on = by
      /\ callbacks'[Len(callbacks) + k].attached
  BY <1>0, <1>1, <1>5, AddsDetails
<1>7. Elements(d, by) = <<d>>
  <2>1. site[d].html
    BY DEF Decides
  <2>2. CASE by = "body"
    BY <1>0, <1>1, <2>2, ElementsFacts, SaysFacts
  <2>3. CASE by = "basic"
    <3>1. Shows(d, "basic") \/ Shows(d, "id")
      BY <2>3 DEF Says
    <3> QED
      BY <1>0, <1>1, <2>1, <2>3, <3>1, ElementsFacts, SaysFacts
  <2>4. CASE by \in {"dates", "work"}
    <3>1. Shows(d, by) /\ by \notin LinkKinds \cup {"body", "html", "basic"}
      BY <2>4 DEF Says, LinkKinds
    <3>2. Elements(d, by) = IF site[d].html /\ Shows(d, by) THEN <<d>> ELSE <<>>
      BY <1>0, <1>1, <3>1, ElementsFacts, SaysFacts
    <3> QED
      BY <2>1, <3>1, <3>2
  <2> QED
    BY <2>2, <2>3, <2>4, SaysFacts
<1> DEFINE i == Len(callbacks) + k
           c == [cb |-> i, nth |-> 1, link |-> Elements(d, callbacks'[i].on)[1]]
<1>8. c \in Calls(d, callbacks')
  <2>1. 1 \in DOMAIN Elements(d, callbacks'[i].on)
    BY <1>6, <1>7
  <2> QED
    BY <1>0, <1>1, <1>6, <2>1, CallsFacts
<1>9. ASSUME NEW e \in Calls(d, callbacks'), callbacks'[e.cb].on = "corrigendum" PROVE by = "body" \/ i < e.cb
  <2>1. e.cb \in DOMAIN callbacks'
    BY <1>0, <1>1, CallsFacts
  <2>2. e.cb \notin DOMAIN callbacks
    BY <1>1, <1>9, <2>1 DEF Untouched, Adds
  <2>3. PICK l \in 1 .. 11 : l = e.cb - Len(callbacks) /\ DetailHandlers[l] = "corrigendum"
    <3>1. PICK j \in DOMAIN callbacks' : j = e.cb
      BY <2>1
    <3>2. j - Len(callbacks) \in 1 .. 11 /\ callbacks'[j].on = DetailHandlers[j - Len(callbacks)]
      BY <1>0, <1>1, <2>2, <3>1, AddsDetails
    <3> QED
      BY <1>9, <3>1, <3>2
  <2>4. l = 9
    BY <2>3, DetailsFacts
  <2>5. e.cb \in Nat /\ Len(callbacks) \in Nat
    BY <1>0, <2>1
  <2> QED
    BY <1>5, <2>3, <2>4, <2>5
<1>10. c \in stack'[2].left /\ c.cb = i /\ callbacks'[i].on = by
  BY <1>2, <1>6, <1>8
<1> HIDE DEF c, i
<1>11. flow' = "past" => "more" \in handled'
  BY <1>0, <1>1
<1> QED
  BY <1>0, <1>2, <1>3, <1>4, <1>9, <1>10, <1>11 DEF OwesFirst

(* A call of the page of the details leaves what it has to say owed, or    *)
(* says it.                                                                *)
LEMMA OwesStep ==
  ASSUME OwnInv, AttachedInv, OnceInv, FineStep, ~StartsFresh,
         NEW d, Decides(tender, d), NEW g, NEW by, Says(d, g, by), OwesFirst(d, g, by)
  PROVE  opened' = opened /\ (data'[tender][g] = Value(d, by) \/ OwesFirst(d, g, by)')
<1>0. Types /\ FramesInv /\ HandlersInv /\ site \in Sites /\ stack \in Seq(Frame) /\ handled \subseteq {"more", "summary"}
  BY DEF OwnInv, Types
<1>1. PICK c \in stack[2].left :
        /\ callbacks[c.cb].on = by
        /\ \A e \in stack[2].left : callbacks[e.cb].on = "corrigendum" => by = "body" \/ c.cb < e.cb
  BY DEF OwesFirst
<1>2. /\ Len(stack) = 2 /\ 2 \in DOMAIN stack /\ stack # <<>> /\ Top = stack[2] /\ Top.page = d
      /\ Owed /\ data[tender][g] = <<>>
  <2>1. Len(stack) = 2 /\ 2 \in DOMAIN stack /\ stack # <<>> /\ stack[2].page = d /\ data[tender][g] = <<>>
    BY <1>0 DEF OwesFirst
  <2>2. Top = stack[2]
    BY <2>1 DEF Top, Last
  <2> QED
    BY <1>1, <2>1, <2>2 DEF Owed
<1>3. /\ Call \in stack[2].left /\ Handler = callbacks[Call.cb] /\ Call.cb \in DOMAIN callbacks
      /\ d \in Pages /\ tender \in Tenders /\ Handler.on \in Handlers
      /\ Call.nth \in DOMAIN Elements(d, Handler.on)
      /\ c # Call => Precedes(Call, c)
  BY <1>0, <1>1, <1>2, CallOf, CallFacts
<1>4. Handler.on # by => ~(Handler.on = "corrigendum") /\ (by = "body" => FALSE)
  <2> SUFFICES ASSUME Handler.on # by PROVE Handler.on # "corrigendum" /\ by # "body"
    OBVIOUS
  <2>1. Precedes(Call, c)
    BY <1>1, <1>3
  <2>2. by # "body"
    BY <1>1, <1>3, <2>1 DEF Precedes, OfBody
  <2>3. Handler.on # "corrigendum"
    <3> SUFFICES ASSUME Handler.on = "corrigendum" PROVE FALSE
      OBVIOUS
    <3>1. c.cb < Call.cb /\ c \in CallRec /\ Call \in CallRec
      <4>1. c.cb < Call.cb
        BY <1>1, <1>3, <2>2
      <4>2. stack[2] \in Frame
        <5>1. \A s \in Seq(Frame) : \A i \in DOMAIN s : s[i] \in Frame
          OBVIOUS
        <5> QED
          BY <1>0, <1>2, <5>1
      <4> QED
        BY <1>1, <1>3, <4>1, <4>2 DEF Frame
    <3>2. Call.cb < c.cb \/ Call.cb = c.cb
      BY <1>1, <1>3, <2>1, <2>2 DEF Precedes, OfBody
    <3> QED
      BY <3>1, <3>2 DEF CallRec
  <2> QED
    BY <2>2, <2>3
<1>5. by \notin LinkKinds \cup {"list_table"} /\ by \in Readers
  BY SaysFacts
<1>6. ~FollowsCorrigendum /\ ~ListsRow /\ ~Ends
  BY <1>2, <1>4, <1>5 DEF FollowsCorrigendum, ListsRow, Visits, Calling, Ends, Returns, LinkKinds, Owed
<1>7. ~FollowsDetails
  BY <1>2, <1>3 DEF FollowsDetails, Visits, Calling, OnceInv
<1>8. ~PastFollows("more", DetailHandlers)
  BY DEF PastFollows, OwesFirst
<1>9. ~PastFollows("summary", <<"html">>)
  <2> SUFFICES ASSUME PastFollows("summary", <<"html">>) PROVE FALSE
    OBVIOUS
  <2>1. Handler.on = "summary" /\ flow = "past"
    BY DEF PastFollows, Visits, Calling
  <2>2. Elements(d, "summary") = IF site[d].html THEN site[d].links["summary"] ELSE <<>>
    BY <1>0, <1>3, ElementsFacts, Selectors DEF LinkKinds
  <2>3. Elements(d, "summary") = <<>>
    BY <2>1, <2>2 DEF Decides
  <2> QED
    BY <1>3, <2>1, <2>3
<1>10. (\E on \in Readers : Reading(on)) \/ Skips \/ AddsDetail
  BY <1>6, <1>7, <1>8, <1>9 DEF FineStep
<1>11. /\ stack' = Called /\ callbacks' = callbacks /\ handled' = handled /\ opened' = opened
       /\ tender' = tender /\ flow' = flow
  BY <1>10 DEF Reading, Skips, AddsDetail, Pops
<1>12. /\ Len(stack') = 2 /\ stack'[2].page = d /\ stack'[2].left = stack[2].left \ {Call}
  BY <1>0, <1>2, <1>11, CalledFacts
<1>13. ASSUME NEW on \in Readers, Reading(on)
       PROVE  /\ on = Handler.on
              /\ data'[tender][g] = IF Sets(on, g, d) THEN Value(d, on) ELSE <<>>
  <2>1. on = Handler.on
    BY <1>13 DEF Reading, Calling
  <2>2. ReadEffect(on, data[tender], data'[tender], d)
    BY <1>0, <1>2, <1>13, ReadingFacts
  <2>3. g \in {"basic", "dates", "work", "id"}
    BY SaysFacts
  <2>4. data'[tender][g] = IF Sets(on, g, d) THEN KeepFirst(data[tender][g], d, on) ELSE data[tender][g]
    BY <2>2, <2>3 DEF ReadEffect
  <2> QED
    BY <1>2, <2>1, <2>4 DEF KeepFirst
<1>14. CASE Handler.on = by
  <2>1. Handler.attached /\ Handler.on \notin handled
    BY <1>0, <1>3, <1>5, <1>14 DEF AttachedInv, LinkKinds
  <2>2. Reading(by)
    BY <1>5, <1>10, <1>14, <2>1 DEF Skips, AddsDetail, Calling, Reading
  <2>3. data'[tender][g] = Value(d, by)
    BY <1>5, <1>13, <2>2, SaysFacts
  <2> QED
    BY <1>11, <2>3
<1>15. CASE Handler.on # by
  <2>1. data'[tender][g] = <<>>
    <3>1. CASE \E on \in Readers : Reading(on)
      <4>1. PICK on \in Readers : Reading(on)
        BY <3>1
      <4>2. ~Sets(on, g, d)
        BY <1>4, <1>13, <1>15, <4>1, SaysFacts
      <4> QED
        BY <1>13, <4>1, <4>2
    <3>2. CASE Skips \/ AddsDetail
      BY <1>2, <3>2 DEF Skips, AddsDetail
    <3> QED
      BY <1>10, <3>1, <3>2
  <2>2. c \in stack'[2].left
    BY <1>1, <1>3, <1>12, <1>15
  <2>3. OwesFirst(d, g, by)'
    BY <1>1, <1>11, <1>12, <2>1, <2>2 DEF OwesFirst
  <2> QED
    BY <1>11, <2>3
<1> QED
  BY <1>14, <1>15

(* What was said stays: a value that there is is not replaced. *)
LEMMA SaidKept ==
  ASSUME OwnInv, FineStep, NEW t \in Tenders, NEW g, NEW d, NEW by, Says(d, g, by),
         data[t][g] = Value(d, by)
  PROVE  data'[t][g] = Value(d, by)
<1>0. Types /\ FramesInv /\ HandlersInv
  BY DEF OwnInv
<1>1. ASSUME NEW on \in Readers, Reading(on) PROVE data'[t][g] = data[t][g]
  <2>1. CASE t = tender
    <3>1. ReadEffect(on, data[tender], data'[tender], Top.page) /\ g \in {"basic", "dates", "work", "id"}
      BY <1>0, <1>1, ReadingFacts, SaysFacts
    <3>2. Value(d, by) # <<>>
      BY DEF Value
    <3> QED
      BY <2>1, <3>1, <3>2 DEF ReadEffect, KeepFirst
  <2>2. CASE t # tender
    BY <1>0, <1>1, <2>2, ReadingFacts DEF Types
  <2> QED
    BY <2>1, <2>2
<1>2. CASE ~ \E on \in Readers : Reading(on)
  BY <1>2 DEF FineStep, StartsFresh, Starts, FollowsDetails, PastFollows, FollowsCorrigendum, Visits,
       Skips, ListsRow, AddsDetail, Ends, Returns
<1> QED
  BY <1>1, <1>2

LEMMA SaidStep ==
  ASSUME DecideInv, FineStep, OwnInv'
  PROVE  SaidInv'
<1>0. /\ OwnInv /\ AttachedInv /\ OnceInv /\ Types /\ FramesInv /\ HandlersInv /\ OpenedInv /\ StartInv /\ SaidInv
      /\ site' = site /\ flow' = flow /\ site \in Sites
  BY SameSite DEF DecideInv, ExactInv, OwnInv, Types
<1> SUFFICES ASSUME NEW t \in Tenders, t <= tender', NEW d \in opened'[t], Decides(t, d)',
                    NEW g \in Fields, NEW by \in Handlers, Says(d, g, by)'
             PROVE  data'[t][g] = Value(d, by) \/ (t = tender' /\ OwesFirst(d, g, by)')
  BY DEF SaidInv, Value
<1>1. Decides(t, d) /\ Says(d, g, by)
  BY <1>0 DEF Decides, LeadsTo, Lists, Says, Shows
<1>2. ASSUME d \in opened[t], t <= tender, data[t][g] = Value(d, by) \/ (t = tender /\ OwesFirst(d, g, by))
      PROVE  data'[t][g] = Value(d, by) \/ (t = tender' /\ OwesFirst(d, g, by)')
  <2>1. CASE data[t][g] = Value(d, by)
    BY <1>0, <1>1, <2>1, SaidKept
  <2>2. CASE t = tender /\ OwesFirst(d, g, by)
    <3>1. ~StartsFresh
      <4>1. StartsFresh => stack = <<>>
        BY DEF StartsFresh, Starts
      <4>2. Len(<<>>) # 2
        OBVIOUS
      <4> QED
        BY <2>2, <4>1, <4>2 DEF OwesFirst
    <3>2. tender' = tender
      BY <3>1, SameTender
    <3> QED
      BY <1>0, <1>1, <2>2, <3>1, <3>2, OwesStep
  <2> QED
    BY <1>2, <2>1, <2>2
<1>3. CASE StartsFresh
  <2>1. tender' \in Tenders /\ tender' = tender + 1 /\ tender \in Int
    BY <1>0, <1>3, CollectorAssumption DEF StartsFresh, Starts, Types, Tenders
  <2>2. CASE t = tender'
    <3>1. Fresh(t)
      BY <1>0, <2>1, <2>2 DEF OpenedInv
    <3>2. opened'[t] \subseteq {Links[t]}
      BY <1>0, <1>3, <2>2, <3>1 DEF Fresh, StartsFresh, Starts, Types
    <3> QED
      BY <1>1, <3>2 DEF Decides, LeadsTo
  <2>3. CASE t # tender'
    <3>1. t <= tender
      BY <2>1, <2>3 DEF Tenders
    <3>2. opened'[t] = opened[t]
      BY <1>0, <1>3, <2>3 DEF StartsFresh, Starts, Types
    <3> QED
      BY <1>0, <1>1, <1>2, <3>1, <3>2 DEF SaidInv
  <2> QED
    BY <2>2, <2>3
<1>4. CASE ~StartsFresh
  <2>1. tender' = tender /\ stack # <<>>
    BY <1>4, SameTender
  <2>2. CASE d \in opened[t]
    BY <1>0, <1>1, <1>2, <2>1, <2>2 DEF SaidInv
  <2>3. CASE d \notin opened[t]
    <3>1. Opens /\ d = Call.link /\ t = tender
      <4>1. opened' # opened
        BY <2>3
      <4>2. Opens
        BY <1>0, <1>4, <4>1, StackCases
      <4> QED
        BY <1>0, <2>3, <4>2 DEF Opens, Types
    <3>2. d \notin visited /\ d \in Pages
      BY <1>0, <3>1, CallOf DEF Opens
    <3>3. Untouched /\ LeadsTo(tender, d)
      BY <1>0, <1>1, <2>1, <3>1, <3>2 DEF StartInv, Decides
    <3>4. FollowsDetails \/ PastFollows("more", DetailHandlers)
      <4>1. opened' # opened
        BY <2>3
      <4> QED
        BY <1>0, <1>4, <2>1, <3>3, <4>1, FirstFollowed
    <3>5. OwesFirst(d, g, by)'
      BY <1>0, <1>1, <1>4, <3>1, <3>3, <3>4, ArrivalOwes
    <3> QED
      BY <2>1, <3>1, <3>5
  <2> QED
    BY <2>2, <2>3
<1> QED
  BY <1>3, <1>4

LEMMA InitDecide == FlowInit => DecideInv
<1> SUFFICES ASSUME FlowInit PROVE DecideInv
  OBVIOUS
<1>1. stack = <<>> /\ \A t \in Tenders : opened[t] = {}
  BY DEF FlowInit, Init
<1> QED
  BY <1>1, InitExact DEF DecideInv, SaidInv, StartInv

LEMMA DecideStep == DecideInv /\ [Next]_allVars => DecideInv'
<1> SUFFICES ASSUME DecideInv, [Next]_allVars PROVE DecideInv'
  OBVIOUS
<1>0. /\ ExactInv' /\ OwnInv' /\ SaidInv /\ StartInv /\ Types /\ FramesInv /\ HandlersInv
  BY ExactStep DEF DecideInv, ExactInv, OwnInv
<1>1. CASE Next
  <2>1. FineStep
    BY <1>0, <1>1, FineSteps
  <2> QED
    BY <1>0, <2>1, StartStep, SaidStep DEF DecideInv
<1>2. CASE UNCHANGED allVars
  <2>1. UNCHANGED <<site, skipsDetached, tender, callbacks, visited, stack, opened, data, corrigenda,
                    result, handled, flow>>
    BY <1>2 DEF allVars, vars, portal
  <2>2. \A t, d : (LeadsTo(t, d)' <=> LeadsTo(t, d)) /\ (Decides(t, d)' <=> Decides(t, d))
    BY <2>1 DEF LeadsTo, Lists, Decides, Range
  <2>3. \A d, g, by : (Says(d, g, by)' <=> Says(d, g, by)) /\ (OwesFirst(d, g, by)' <=> OwesFirst(d, g, by))
    BY <2>1 DEF Says, Shows, OwesFirst
  <2>4. SaidInv'
    BY <1>0, <2>1, <2>2, <2>3 DEF SaidInv, Value
  <2>5. StartInv'
    BY <1>0, <2>1, <2>2 DEF StartInv, Untouched
  <2> QED
    BY <1>0, <2>4, <2>5 DEF DecideInv
<1> QED
  BY <1>1, <1>2

(* The page of the details is the first one read of a tender, and says     *)
(* what it has to say before any corrigendum is visited.                   *)
THEOREM DecideInvariance == Spec => []DecideInv
<1> QED
  BY InitDecide, DecideStep, PTL DEF Spec

(* When an extraction is over, the page with the details has decided on    *)
(* the basic details, the dates, the work item and the ID.                 *)
THEOREM DetailsDecideAlways == Spec => []DetailsDecide
<1>1. DecideInv => DetailsDecide
  <2> SUFFICES ASSUME DecideInv, NEW t \in Tenders, Over(t), NEW d \in opened[t] \ {Links[t]},
                      Lists(Links[t], d, "more"), Head(site[Links[t]].links["more"]) = d,
                      site[d].html, flow = "past" => site[d].links["summary"] = <<>>
               PROVE  /\ \A f \in {"basic", "dates", "work"} : Shows(d, f) => data[t][f] = Value(d, f)
                      /\ Shows(d, "text") => data[t]["id"] = Value(d, "body")
                      /\ Shows(d, "id") /\ ~Shows(d, "text") => data[t]["id"] = Value(d, "basic")
    BY DEF DetailsDecide
  <2>1. t <= tender /\ (t = tender => stack = <<>>) /\ SaidInv
    BY OverFacts DEF DecideInv
  <2>2. Decides(t, d)
    BY DEF Decides, LeadsTo
  <2>3. ASSUME NEW g, NEW by, Says(d, g, by) PROVE data[t][g] = Value(d, by)
    <3>1. g \in Fields /\ by \in Handlers
      BY <2>3, SaysFacts
    <3>2. ~(t = tender /\ OwesFirst(d, g, by))
      <4>1. Len(<<>>) # 2
        OBVIOUS
      <4> QED
        BY <2>1, <4>1 DEF OwesFirst
    <3> QED
      BY <2>1, <2>2, <2>3, <3>1, <3>2 DEF SaidInv
  <2>4. \A f \in {"basic", "dates", "work"} : Shows(d, f) => Says(d, f, f)
    BY DEF Says
  <2>5. Shows(d, "text") => Says(d, "id", "body")
    BY DEF Says
  <2>6. Shows(d, "id") /\ ~Shows(d, "text") => Says(d, "id", "basic")
    BY DEF Says
  <2> QED
    BY <2>3, <2>4, <2>5, <2>6
<1> QED
  BY <1>1, DecideInvariance, PTL

-----------------------------------------------------------------------------
(***************************************************************************)
(* Details of corrigenda, once.                                            *)
(***************************************************************************)

(* Sets of the same finite size. *)
Even(S, T) == IsFiniteSet(S) /\ IsFiniteSet(T) /\ Cardinality(S) = Cardinality(T)

LEMMA EvenAdd ==
  ASSUME NEW S, NEW T, Even(S, T), NEW x, x \notin S, NEW y, y \notin T
  PROVE  Even(S \cup {x}, T \cup {y})
<1>1. IsFiniteSet(S \cup {x}) /\ Cardinality(S \cup {x}) = Cardinality(S) + 1
  BY FS_AddElement DEF Even
<1>2. IsFiniteSet(T \cup {y}) /\ Cardinality(T \cup {y}) = Cardinality(T) + 1
  BY FS_AddElement DEF Even
<1> QED
  BY <1>1, <1>2 DEF Even

LEMMA EvenRemove ==
  ASSUME NEW S, NEW T, Even(S, T), NEW x \in S, NEW y \in T
  PROVE  Even(S \ {x}, T \ {y})
<1>1. IsFiniteSet(S \ {x}) /\ Cardinality(S \ {x}) = Cardinality(S) - 1
  BY FS_RemoveElement DEF Even
<1>2. IsFiniteSet(T \ {y}) /\ Cardinality(T \ {y}) = Cardinality(T) - 1
  BY FS_RemoveElement DEF Even
<1> QED
  BY <1>1, <1>2 DEF Even

LEMMA EvenSwap ==
  ASSUME NEW S, NEW T, Even(S, T), NEW x, x \notin S, NEW m \in S \cup {x}
  PROVE  Even((S \cup {x}) \ {m}, T)
<1>1. IsFiniteSet(S \cup {x}) /\ Cardinality(S \cup {x}) = Cardinality(S) + 1
  BY FS_AddElement DEF Even
<1>2. IsFiniteSet((S \cup {x}) \ {m}) /\ Cardinality((S \cup {x}) \ {m}) = Cardinality(S \cup {x}) - 1
  BY <1>1, FS_RemoveElement
<1>3. Cardinality(S) \in Nat
  BY FS_CardinalityType DEF Even
<1> QED
  BY <1>1, <1>2, <1>3 DEF Even

LEMMA EvenSmall ==
  /\ Even({}, {})
  /\ \A S : Even(S, {}) => S = {}
  /\ \A S, T : Even(S, T) /\ T # {} => S # {}
  /\ \A S, y : Even(S, {y}) => \E x : S = {x}
<1>1. IsFiniteSet({}) /\ Cardinality({}) = 0
  BY FS_EmptySet
<1>2. ASSUME NEW S, IsFiniteSet(S), Cardinality(S) = 0 PROVE S = {}
  BY <1>2, FS_EmptySet
<1>3. ASSUME NEW y PROVE Cardinality({y}) = 1
  BY FS_Singleton
<1>4. ASSUME NEW S, IsFiniteSet(S), Cardinality(S) = 1 PROVE \E x : S = {x}
  BY <1>4, FS_Singleton
<1> QED
  BY <1>1, <1>2, <1>3, <1>4 DEF Even

(* The handlers for details that are attached. *)
Listening(cbs) == {i \in DOMAIN cbs : cbs[i].attached /\ cbs[i].on = "list_table"}

LEMMA ListeningAttach ==
  ASSUME NEW cbs \in Seq(HandlerRec), NEW t \in Tenders
  PROVE  /\ Listening(Attach(cbs, <<"list_table">>, t)) = Listening(cbs) \cup {Len(cbs) + 1}
         /\ Len(cbs) + 1 \notin Listening(cbs)
         /\ Listening(Attach(cbs, DetailHandlers, t)) = Listening(cbs)
<1>1. DOMAIN cbs = 1 .. Len(cbs) /\ Len(cbs) \in Nat
  OBVIOUS
<1>2. Listening(Attach(cbs, <<"list_table">>, t)) = Listening(cbs) \cup {Len(cbs) + 1}
  <2> DEFINE new == Attach(cbs, <<"list_table">>, t)
  <2>1. /\ new \in Seq(HandlerRec) /\ Len(new) = Len(cbs) + Len(<<"list_table">>)
        /\ \A i \in DOMAIN cbs : new[i] = cbs[i]
        /\ \A i \in DOMAIN <<"list_table">> :
             new[Len(cbs) + i] = [on |-> <<"list_table">>[i], for |-> t, attached |-> TRUE]
    BY AttachFacts, Selectors
  <2> HIDE DEF new
  <2>2. Len(<<"list_table">>) = 1 /\ DOMAIN <<"list_table">> = {1} /\ <<"list_table">>[1] = "list_table"
    OBVIOUS
  <2>3. new[Len(cbs) + 1] = [on |-> <<"list_table">>[1], for |-> t, attached |-> TRUE]
    BY <2>1, <2>2, Zenon
  <2>4. new[Len(cbs) + 1].on = "list_table" /\ new[Len(cbs) + 1].attached
    BY <2>2, <2>3
  <2>5. DOMAIN new = 1 .. Len(cbs) + 1
    BY <2>1, <2>2
  <2>6. Listening(new) = Listening(cbs) \cup {Len(cbs) + 1}
    BY <1>1, <2>1, <2>4, <2>5 DEF Listening
  <2> QED
    BY <2>6 DEF new
<1>3. Listening(Attach(cbs, DetailHandlers, t)) = Listening(cbs)
  <2> DEFINE new == Attach(cbs, DetailHandlers, t)
  <2>1. /\ new \in Seq(HandlerRec) /\ Len(new) = Len(cbs) + Len(DetailHandlers)
        /\ \A i \in DOMAIN cbs : new[i] = cbs[i]
    BY AttachFacts, Selectors
  <2>2. ASSUME NEW i \in DOMAIN new, i \notin DOMAIN cbs PROVE new[i].on # "list_table"
    <3>1. /\ i - Len(cbs) \in DOMAIN DetailHandlers
          /\ new[i] = [on |-> DetailHandlers[i - Len(cbs)], for |-> t, attached |-> TRUE]
      BY <2>2, Selectors, AttachCases
    <3>2. new[i].on = DetailHandlers[i - Len(cbs)]
      BY <3>1
    <3> HIDE DEF new
    <3>3. PICK k \in DOMAIN DetailHandlers : k = i - Len(cbs)
      BY <3>1
    <3>4. DetailHandlers[k] \in Readers \cup {"corrigendum"}
      BY <3>3, DetailsFacts
    <3> QED
      BY <3>2, <3>3, <3>4 DEF Readers
  <2> HIDE DEF new
  <2>3. \A i \in DOMAIN cbs : i \in DOMAIN new
    BY <2>1, Selectors
  <2>4. Listening(new) = Listening(cbs)
    BY <2>1, <2>2, <2>3 DEF Listening
  <2> QED
    BY <2>4 DEF new
<1> QED
  BY <1>1, <1>2, <1>3 DEF Listening

LEMMA ListeningDetach ==
  ASSUME NEW cbs \in Seq(HandlerRec)
  PROVE  /\ Listening(Detach(cbs, "more")) = Listening(cbs)
         /\ \/ Listening(cbs) = {} /\ Listening(Detach(cbs, "list_table")) = {}
            \/ \E m \in Listening(cbs) : Listening(Detach(cbs, "list_table")) = Listening(cbs) \ {m}
<1>0. \A i \in DOMAIN cbs : cbs[i] \in HandlerRec
  OBVIOUS
<1>1. Listening(Detach(cbs, "more")) = Listening(cbs)
  <2> DEFINE new == Detach(cbs, "more")
  <2>1. /\ Len(new) = Len(cbs) /\ new \in Seq(HandlerRec)
        /\ new = cbs \/ \E i \in DOMAIN cbs : cbs[i].on = "more" /\ new = [cbs EXCEPT ![i].attached = FALSE]
    <3>1. "more" \in Handlers
      BY Selectors
    <3>2. Len(new) = Len(cbs) /\ new \in Seq(HandlerRec)
      BY <3>1, DetachFacts
    <3>3. new = cbs \/ \E i \in DOMAIN cbs : cbs[i].on = "more" /\ new = [cbs EXCEPT ![i].attached = FALSE]
      BY <3>1, DetachOne
    <3> QED
      BY <3>2, <3>3
  <2> HIDE DEF new
  <2>2. DOMAIN new = DOMAIN cbs
    BY <2>1
  <2>3. Listening(new) = Listening(cbs)
    BY <1>0, <2>1, <2>2 DEF Listening, HandlerRec
  <2> QED
    BY <2>3 DEF new
<1>2. \/ Listening(cbs) = {} /\ Listening(Detach(cbs, "list_table")) = {}
      \/ \E m \in Listening(cbs) : Listening(Detach(cbs, "list_table")) = Listening(cbs) \ {m}
  <2> DEFINE new == Detach(cbs, "list_table")
  <2>0. "list_table" \in Handlers
    BY Selectors
  <2>1. /\ Len(new) = Len(cbs) /\ new \in Seq(HandlerRec)
        /\ \/ new = cbs /\ \A i \in DOMAIN cbs : ~ (cbs[i].attached /\ cbs[i].on = "list_table")
           \/ \E i \in DOMAIN cbs : /\ cbs[i].attached /\ cbs[i].on = "list_table"
                                    /\ new = [cbs EXCEPT ![i].attached = FALSE]
    <3>1. Len(new) = Len(cbs) /\ new \in Seq(HandlerRec)
      BY <2>0, DetachFacts
    <3>2. \/ new = cbs /\ \A i \in DOMAIN cbs : ~ (cbs[i].attached /\ cbs[i].on = "list_table")
          \/ \E i \in DOMAIN cbs : /\ cbs[i].attached /\ cbs[i].on = "list_table"
                                   /\ new = [cbs EXCEPT ![i].attached = FALSE]
      BY <2>0, DetachFacts
    <3> QED
      BY <3>1, <3>2
  <2> HIDE DEF new
  <2>2. DOMAIN new = DOMAIN cbs
    BY <2>1
  <2>3. ASSUME NEW i \in DOMAIN cbs, cbs[i].attached, cbs[i].on = "list_table",
               new = [cbs EXCEPT ![i].attached = FALSE]
        PROVE  i \in Listening(cbs) /\ Listening(new) = Listening(cbs) \ {i}
    BY <1>0, <2>2, <2>3 DEF Listening, HandlerRec
  <2>4. (\A i \in DOMAIN cbs : ~ (cbs[i].attached /\ cbs[i].on = "list_table")) => Listening(cbs) = {}
    BY DEF Listening
  <2>5. \/ Listening(cbs) = {} /\ Listening(new) = {}
        \/ \E m \in Listening(cbs) : Listening(new) = Listening(cbs) \ {m}
    BY <2>1, <2>3, <2>4
  <2> QED
    BY <2>5 DEF new
<1> QED
  BY <1>1, <1>2

(* The pages of corrigenda being processed. *)
Inside == {i \in DOMAIN stack : stack[i].opener = "corrigendum"}

(* One handler for details is attached for each of them. *)
CountInv == flow = "active" => Even(Listening(callbacks), Inside)

(* The page of the details is only processed right inside the start page. *)
DetailsFrame ==
  stack # <<>> => \A d \in Pages : LeadsTo(tender, d) =>
    \A i \in DOMAIN stack : stack[i].page = d => i = 2 /\ stack[i].opener = "more"

(* A page whose details are kept once: only the page of the details lists  *)
(* it, and it lists no corrigenda itself.                                  *)
OnceFor(t, c) ==
  /\ c # Links[t] /\ Elements(c, "list_table") # <<>> /\ site[c].links["corrigendum"] = <<>>
  /\ \A p \in opened[t] \ {Links[t]} : Lists(p, c, "corrigendum") => LeadsTo(t, p)

(* The rows of c among rows s; the first of them has the details if c is   *)
(* one of the pages given, the others have none.                           *)
Of(s, c) == {i \in DOMAIN s : s[i].link = c}
FirstHas(s, c, pages) ==
  \A i \in Of(s, c) :
    s[i].details = IF c \in pages /\ \A j \in 1 .. i - 1 : s[j].link # c THEN 1 ELSE 0

OwesDetails(i) == {k \in stack[i].left : callbacks[k.cb].on = "list_table"}

(* It has no row; if it was opened, the page of the details is done.       *)
Unlisted(t, c) ==
  /\ Of(corrigenda[t], c) = {}
  /\ t = tender /\ c \in opened[t] => \A d \in Pages : LeadsTo(t, d) /\ d # c =>
       d \in visited /\ \A i \in DOMAIN stack : stack[i].page # d

(* It is being processed and owes the call for its details. *)
Pending(t, c) ==
  /\ t = tender /\ Len(stack) = 3 /\ stack[3].page = c
  /\ \E i \in DOMAIN corrigenda[t] : Of(corrigenda[t], c) = {i} /\ corrigenda[t][i].details = 0
  /\ \E k \in stack[3].left : OwesDetails(3) = {k} /\ callbacks[k.cb].attached

(* It will not be opened any more, and its details are with its first row. *)
Settled(t, c) ==
  /\ Of(corrigenda[t], c) # {} /\ FirstHas(corrigenda[t], c, opened[t])
  /\ t = tender => c \in visited /\ \A i \in DOMAIN stack : stack[i].page = c => OwesDetails(i) = {}

DetailsInv ==
  flow = "active" => \A t \in Tenders : t <= tender => \A c \in Pages : OnceFor(t, c) =>
    Unlisted(t, c) \/ Pending(t, c) \/ Settled(t, c)

(* The page of a corrigendum arrives or is done, nothing else changes them. *)
LEMMA InsideChange ==
  ASSUME Types, FramesInv
  PROVE  /\ Stays => Inside' = Inside
         /\ Opens => /\ Len(stack) + 1 \notin Inside
                     /\ Inside' = IF Handler.on = "corrigendum" THEN Inside \cup {Len(stack) + 1} ELSE Inside
         /\ Closes => /\ Top.opener = "corrigendum" => Len(stack) \in Inside
                      /\ Inside' = IF Top.opener = "corrigendum" THEN Inside \ {Len(stack)} ELSE Inside
<1>0. DOMAIN stack = 1 .. Len(stack) /\ Len(stack) \in Nat
  BY DEF Types
<1>1. Stays => Inside' = Inside
  BY DEF Stays, Inside, OldFrame
<1>2. ASSUME Opens
      PROVE  /\ Len(stack) + 1 \notin Inside
             /\ Inside' = IF Handler.on = "corrigendum" THEN Inside \cup {Len(stack) + 1} ELSE Inside
  <2>1. stack'[Len(stack) + 1].opener = Handler.on
    BY <1>2 DEF Opens
  <2>2. DOMAIN stack' = 1 .. Len(stack) + 1 /\ \A i \in DOMAIN stack : stack'[i].opener = stack[i].opener
    BY <1>2 DEF Opens, OldFrame
  <2> QED
    BY <1>0, <2>1, <2>2 DEF Inside
<1>3. ASSUME Closes
      PROVE  /\ Top.opener = "corrigendum" => Len(stack) \in Inside
             /\ Inside' = IF Top.opener = "corrigendum" THEN Inside \ {Len(stack)} ELSE Inside
  <2>1. stack # <<>> /\ DOMAIN stack' = 1 .. Len(stack) - 1
        /\ \A i \in DOMAIN stack' : stack'[i].opener = stack[i].opener
    BY <1>3 DEF Closes, OldFrame
  <2>2. Top = stack[Len(stack)] /\ Len(stack) \in DOMAIN stack
    BY <1>0, <2>1 DEF Top, Last, Types
  <2> QED
    BY <1>0, <2>1, <2>2 DEF Inside
<1> QED
  BY <1>1, <1>2, <1>3

(* What the steps do to the handlers for details. *)
LEMMA ListeningChange ==
  ASSUME Types, FramesInv, HandlersInv, flow = "active"
  PROVE  /\ FollowsDetails => Listening(callbacks') = Listening(callbacks)
         /\ FollowsCorrigendum /\ Opens =>
              /\ Len(callbacks) + 1 \notin Listening(callbacks)
              /\ Listening(callbacks') = Listening(callbacks) \cup {Len(callbacks) + 1}
         /\ FollowsCorrigendum /\ stack' = Called =>
              /\ Len(callbacks) + 1 \notin Listening(callbacks)
              /\ \E m \in Listening(callbacks) \cup {Len(callbacks) + 1} :
                   Listening(callbacks') = (Listening(callbacks) \cup {Len(callbacks) + 1}) \ {m}
         /\ (\E on \in Readers : Reading(on)) \/ Skips \/ AddsDetail => callbacks' = callbacks
         /\ Ends /\ Top.opener # "corrigendum" => callbacks' = callbacks
         /\ Ends /\ Top.opener = "corrigendum" =>
              \/ Listening(callbacks) = {} /\ Listening(callbacks') = {}
              \/ \E m \in Listening(callbacks) : Listening(callbacks') = Listening(callbacks) \ {m}
<1>0. callbacks \in Seq(HandlerRec)
  BY DEF Types
<1>1. ASSUME FollowsDetails PROVE Listening(callbacks') = Listening(callbacks)
  <2>1. tender \in Tenders /\ "more" \in Handlers
    BY <1>1, Selectors, CallFacts DEF FollowsDetails, Visits, Calling
  <2>2. Detach(callbacks, "more") \in Seq(HandlerRec)
    BY <1>0, <2>1, DetachFacts
  <2>3. Listening(Attach(Detach(callbacks, "more"), DetailHandlers, tender)) = Listening(Detach(callbacks, "more"))
    BY <2>1, <2>2, ListeningAttach
  <2>4. Listening(Detach(callbacks, "more")) = Listening(callbacks)
    BY <1>0, ListeningDetach
  <2> QED
    BY <1>1, <2>3, <2>4 DEF FollowsDetails
<1>2. ASSUME FollowsCorrigendum
      PROVE  /\ tender \in Tenders /\ Attach(callbacks, <<"list_table">>, tender) \in Seq(HandlerRec)
             /\ Listening(Attach(callbacks, <<"list_table">>, tender)) = Listening(callbacks) \cup {Len(callbacks) + 1}
             /\ Len(callbacks) + 1 \notin Listening(callbacks)
             /\ Owed
  <2>1. tender \in Tenders /\ Owed
    BY <1>2, CallFacts DEF FollowsCorrigendum, Visits, Calling
  <2>2. <<"list_table">> \in Seq(Handlers)
    BY Selectors
  <2>3. Attach(callbacks, <<"list_table">>, tender) \in Seq(HandlerRec)
    BY <1>0, <2>1, <2>2, AttachFacts
  <2> QED
    BY <1>0, <2>1, <2>3, ListeningAttach
<1>3. ASSUME FollowsCorrigendum, Opens
      PROVE  callbacks' = Attach(callbacks, <<"list_table">>, tender)
  <2>1. Len(Called) = Len(stack) /\ Called \in Seq(Frame) /\ stack \in Seq(Frame)
    BY <1>2, <1>3, CalledFacts DEF Types
  <2>2. stack' # Called
    BY <1>3, <2>1 DEF Opens
  <2> QED
    BY <1>3, <2>2 DEF FollowsCorrigendum, Opens
<1>4. ASSUME FollowsCorrigendum, stack' = Called
      PROVE  \E m \in Listening(callbacks) \cup {Len(callbacks) + 1} :
               Listening(callbacks') = (Listening(callbacks) \cup {Len(callbacks) + 1}) \ {m}
  <2>1. callbacks' = Detach(Attach(callbacks, <<"list_table">>, tender), "list_table")
    BY <1>4 DEF FollowsCorrigendum
  <2>2. PICK cbs \in Seq(HandlerRec) : cbs = Attach(callbacks, <<"list_table">>, tender)
    BY <1>2, <1>4
  <2>3. Listening(cbs) = Listening(callbacks) \cup {Len(callbacks) + 1}
    BY <1>2, <1>4, <2>2
  <2>4. \/ Listening(cbs) = {}
        \/ \E m \in Listening(cbs) : Listening(Detach(cbs, "list_table")) = Listening(cbs) \ {m}
    BY <2>2, ListeningDetach
  <2> QED
    BY <2>1, <2>2, <2>3, <2>4
<1>5. (\E on \in Readers : Reading(on)) \/ Skips \/ AddsDetail => callbacks' = callbacks
  BY DEF Reading, Skips, AddsDetail
<1>6. Ends /\ Top.opener # "corrigendum" => callbacks' = callbacks
  BY DEF Ends, afterVisit
<1>7. ASSUME Ends, Top.opener = "corrigendum"
      PROVE  \/ Listening(callbacks) = {} /\ Listening(callbacks') = {}
             \/ \E m \in Listening(callbacks) : Listening(callbacks') = Listening(callbacks) \ {m}
  <2>1. callbacks' = Detach(callbacks, "list_table")
    BY <1>7 DEF Ends, afterVisit
  <2> QED
    BY <1>0, <2>1, ListeningDetach
<1> QED
  BY <1>1, <1>2, <1>3, <1>4, <1>5, <1>6, <1>7

LEMMA CountStep ==
  ASSUME OwnInv, CountInv, FineStep, OwnInv'
  PROVE  CountInv'
<1> SUFFICES ASSUME flow' = "active" PROVE Even(Listening(callbacks'), Inside')
  BY DEF CountInv
<1>0. Types /\ FramesInv /\ HandlersInv /\ Types' /\ flow = "active" /\ Even(Listening(callbacks), Inside)
  BY SameSite DEF OwnInv, CountInv
<1>1. CASE StartsFresh
  <2>1. Listening(callbacks') = {}
    BY <1>1 DEF StartsFresh, Starts, Listening
  <2>2. Inside' = {}
    <3>1. stack' = <<>> \/ \E f : stack' = <<f>> /\ f.opener = "start"
      BY <1>1 DEF StartsFresh, Starts, StartFrame
    <3> QED
      BY <3>1 DEF Inside
  <2> QED
    BY <2>1, <2>2, EvenSmall
<1>2. CASE Ends /\ ~StartsFresh
  <2>1. Closes
    BY <1>0, <1>2, StackCases DEF Ends, Returns, Opens, Stays, Owed, FollowsDetails
  <2>2. CASE Top.opener # "corrigendum"
    BY <1>0, <1>2, <2>1, <2>2, InsideChange, ListeningChange
  <2>3. CASE Top.opener = "corrigendum"
    <3>1. Len(stack) \in Inside /\ Inside' = Inside \ {Len(stack)}
      BY <1>0, <2>1, <2>3, InsideChange
    <3>2. Listening(callbacks) # {}
      BY <1>0, <3>1, EvenSmall
    <3>3. PICK m \in Listening(callbacks) : Listening(callbacks') = Listening(callbacks) \ {m}
      BY <1>0, <1>2, <2>3, <3>2, ListeningChange
    <3> QED
      BY <1>0, <3>1, <3>3, EvenRemove
  <2> QED
    BY <2>2, <2>3
<1>3. CASE FollowsDetails
  <2>1. Stays \/ (Opens /\ Handler.on = "more")
    BY <1>0, <1>3, VisitsStack DEF FollowsDetails, LinkKinds
  <2>2. Inside' = Inside
    BY <1>0, <2>1, InsideChange
  <2> QED
    BY <1>0, <1>3, <2>2, ListeningChange
<1>4. CASE FollowsCorrigendum
  <2>1. (Stays /\ stack' = Called) \/ (Opens /\ Handler.on = "corrigendum")
    BY <1>0, <1>4, VisitsStack DEF FollowsCorrigendum, LinkKinds
  <2>2. CASE Stays /\ stack' = Called
    <3>1. Inside' = Inside
      BY <1>0, <2>2, InsideChange
    <3>2. Len(callbacks) + 1 \notin Listening(callbacks)
      BY <1>0, <1>4, <2>2, ListeningChange
    <3>3. PICK m \in Listening(callbacks) \cup {Len(callbacks) + 1} :
            Listening(callbacks') = (Listening(callbacks) \cup {Len(callbacks) + 1}) \ {m}
      BY <1>0, <1>4, <2>2, ListeningChange
    <3>4. Even((Listening(callbacks) \cup {Len(callbacks) + 1}) \ {m}, Inside)
      BY <1>0, <3>2, EvenSwap
    <3> QED
      BY <3>1, <3>3, <3>4
  <2>3. CASE Opens /\ Handler.on = "corrigendum"
    <3>1. Len(stack) + 1 \notin Inside /\ Inside' = Inside \cup {Len(stack) + 1}
      BY <1>0, <2>3, InsideChange
    <3>2. /\ Len(callbacks) + 1 \notin Listening(callbacks)
          /\ Listening(callbacks') = Listening(callbacks) \cup {Len(callbacks) + 1}
      BY <1>0, <1>4, <2>3, ListeningChange
    <3> QED
      BY <1>0, <3>1, <3>2, EvenAdd
  <2> QED
    BY <2>1, <2>2, <2>3
<1>5. CASE ((\E on \in Readers : Reading(on)) \/ Skips \/ AddsDetail) /\ ~StartsFresh
  <2>1. Stays
    <3>1. Owed /\ stack' = Called
      BY <1>5 DEF Reading, Calling, Skips, AddsDetail, Pops
    <3> QED
      BY <1>0, <3>1, CalledStays
  <2> QED
    BY <1>0, <1>5, <2>1, InsideChange, ListeningChange
<1> QED
  BY <1>0, <1>1, <1>2, <1>3, <1>4, <1>5 DEF FineStep, PastFollows, ListsRow

LEMMA DetailsFrameStep ==
  ASSUME DecideInv, DetailsFrame, FineStep, OwnInv'
  PROVE  DetailsFrame'
<1> SUFFICES ASSUME stack' # <<>>, NEW d \in Pages, LeadsTo(tender, d)',
                    NEW i \in DOMAIN stack', stack'[i].page = d
             PROVE  i = 2 /\ stack'[i].opener = "more"
  BY DEF DetailsFrame
<1>0. OwnInv /\ Types /\ FramesInv /\ HandlersInv /\ OpenedInv /\ StartInv
  BY DEF DecideInv, ExactInv, OwnInv
<1>1. CASE StartsFresh
  <2>1. stack' = <<StartFrame(Links[tender'], callbacks')>>
    BY <1>1 DEF StartsFresh, Starts
  <2>2. stack'[i].page = Links[tender']
    BY <2>1 DEF StartFrame
  <2> QED
    BY <2>2 DEF LeadsTo
<1>2. CASE ~StartsFresh
  <2>1. stack # <<>> /\ LeadsTo(tender, d)
    <3>1. site' = site /\ tender' = tender /\ stack # <<>>
      BY <1>2, SameSite, SameTender
    <3> QED
      BY <3>1 DEF LeadsTo, Lists
  <2>2. CASE i \in DOMAIN stack /\ OldFrame(i)
    BY <2>1, <2>2 DEF OldFrame, DetailsFrame
  <2>3. CASE i = Len(stack) + 1 /\ Opens
    <3>1. Call.link = d /\ d \notin visited /\ stack'[i].opener = Handler.on
      BY <2>3 DEF Opens
    <3>2. Untouched
      BY <1>0, <2>1, <3>1 DEF StartInv
    <3>3. FollowsDetails \/ PastFollows("more", DetailHandlers)
      BY <1>0, <1>2, <2>1, <3>2, <2>3, FirstFollowed DEF Opens
    <3>4. Handler.on = "more"
      BY <3>3 DEF FollowsDetails, PastFollows, Visits, Calling
    <3> QED
      BY <2>3, <3>1, <3>2, <3>4 DEF Untouched
  <2> QED
    BY <1>0, <1>2, <2>2, <2>3, FrameCase
<1> QED
  BY <1>1, <1>2

NewRow(q) == [link |-> q, details |-> 0]

LEMMA OwnRowAdded ==
  ASSUME NEW s \in Seq(Row), NEW c \in Pages
  PROVE  /\ Of(Append(s, NewRow(c)), c) = Of(s, c) \cup {Len(s) + 1}
         /\ Len(s) + 1 \in DOMAIN Append(s, NewRow(c))
         /\ Append(s, NewRow(c))[Len(s) + 1].details = 0
<1> DEFINE new == Append(s, NewRow(c))
<1>1. /\ DOMAIN s = 1 .. Len(s) /\ Len(s) \in Nat /\ DOMAIN new = 1 .. Len(s) + 1
      /\ \A i \in DOMAIN s : new[i] = s[i] /\ i \in DOMAIN new
      /\ new[Len(s) + 1] = [link |-> c, details |-> 0]
  BY DEF NewRow
<1>2. new[Len(s) + 1].link = c /\ new[Len(s) + 1].details = 0
  BY <1>1
<1> QED
  BY <1>1, <1>2 DEF Of

LEMMA FirstHasKept ==
  ASSUME NEW s \in Seq(Row), NEW q \in Pages, NEW c \in Pages, NEW P, FirstHas(s, c, P),
         q = c => Of(s, c) # {} \/ c \notin P
  PROVE  FirstHas(Append(s, NewRow(q)), c, P)
<1> DEFINE new == Append(s, NewRow(q))
<1>1. /\ DOMAIN s = 1 .. Len(s) /\ Len(s) \in Nat /\ DOMAIN new = 1 .. Len(s) + 1
      /\ \A i \in DOMAIN s : new[i] = s[i] /\ i \in DOMAIN new
      /\ new[Len(s) + 1] = [link |-> q, details |-> 0]
  BY DEF NewRow
<1>2. new[Len(s) + 1].link = q /\ new[Len(s) + 1].details = 0
  BY <1>1
<1> HIDE DEF new
<1>3. (q # c => Of(new, c) = Of(s, c)) /\ (q = c => Of(new, c) = Of(s, c) \cup {Len(s) + 1})
  BY <1>1, <1>2 DEF Of
<1>4. \A i \in Of(s, c) : i \in DOMAIN s /\ new[i] = s[i]
  BY <1>1 DEF Of
<1>5. ASSUME NEW i \in Of(new, c)
      PROVE  new[i].details = IF c \in P /\ \A j \in 1 .. i - 1 : new[j].link # c THEN 1 ELSE 0
  <2>1. CASE i \in Of(s, c)
    <3>1. new[i] = s[i] /\ \A j \in 1 .. i - 1 : new[j] = s[j]
      BY <1>1, <1>4, <2>1
    <3> QED
      BY <1>5, <2>1, <3>1 DEF FirstHas
  <2>2. CASE i \notin Of(s, c)
    <3>1. i = Len(s) + 1 /\ q = c /\ new[i].details = 0
      BY <1>2, <1>3, <1>5, <2>2
    <3>2. c \in P => \E j \in 1 .. i - 1 : new[j].link = c
      BY <1>1, <1>5, <3>1 DEF Of
    <3> QED
      BY <3>1, <3>2
  <2> QED
    BY <2>1, <2>2
<1>6. FirstHas(new, c, P)
  BY <1>5 DEF FirstHas
<1> QED
  BY <1>6 DEF new

LEMMA OtherRowAdded ==
  ASSUME NEW s \in Seq(Row), NEW q \in Pages, NEW c \in Pages, q # c
  PROVE  /\ Of(Append(s, NewRow(q)), c) = Of(s, c)
         /\ \A i \in Of(s, c) : Append(s, NewRow(q))[i] = s[i]
<1> DEFINE new == Append(s, NewRow(q))
<1>1. /\ DOMAIN s = 1 .. Len(s) /\ Len(s) \in Nat /\ DOMAIN new = 1 .. Len(s) + 1
      /\ \A i \in DOMAIN s : new[i] = s[i] /\ i \in DOMAIN new
      /\ new[Len(s) + 1].link = q
  BY DEF NewRow
<1> QED
  BY <1>1 DEF Of

LEMMA DetailAddedFacts ==
  ASSUME NEW s \in Seq(Row), NEW q, NEW c, NEW new, new = attachDetailToParent(s, q)
  PROVE  /\ Of(new, c) = Of(s, c)
         /\ q # c => /\ \A i \in Of(s, c) : new[i] = s[i]
                     /\ \A P : FirstHas(s, c, P) => FirstHas(new, c, P)
         /\ q = c => \A i \in DOMAIN s : Of(s, c) = {i} /\ s[i].details = 0 => \A P : c \in P => FirstHas(new, c, P)
<1>1. /\ new \in Seq(Row) /\ Len(new) = Len(s)
      /\ \/ new = s /\ \A i \in DOMAIN s : s[i].link # q
         \/ \E i \in DOMAIN s : s[i].link = q /\ new = [s EXCEPT ![i].details = @ + 1]
  <2>1. new \in Seq(Row) /\ Len(new) = Len(s)
    BY AttachDetailFacts
  <2>2. \/ new = s /\ \A i \in DOMAIN s : s[i].link # q
        \/ \E i \in DOMAIN s : s[i].link = q /\ new = [s EXCEPT ![i].details = @ + 1]
    <3>1. \/ attachDetailToParent(s, q) = s /\ \A i \in DOMAIN s : s[i].link # q
          \/ \E i \in DOMAIN s :
               s[i].link = q /\ attachDetailToParent(s, q) = [s EXCEPT ![i].details = @ + 1]
      BY AttachDetailOne
    <3> QED
      BY <3>1
  <2> QED
    BY <2>1, <2>2
<1>2. \A i \in DOMAIN s : s[i] \in Row
  OBVIOUS
<1>3. DOMAIN new = DOMAIN s /\ DOMAIN s = 1 .. Len(s) /\ Len(s) \in Nat
  BY <1>1
<1>4. ASSUME NEW i \in DOMAIN s
      PROVE  /\ new[i].link = s[i].link
             /\ s[i].link # q => new[i] = s[i]
  BY <1>1, <1>2 DEF Row
<1>5. Of(new, c) = Of(s, c)
  BY <1>3, <1>4 DEF Of
<1>6. ASSUME q # c
      PROVE  /\ \A i \in Of(s, c) : new[i] = s[i]
             /\ \A P : FirstHas(s, c, P) => FirstHas(new, c, P)
  <2>1. \A i \in Of(s, c) : i \in DOMAIN s /\ new[i] = s[i]
    BY <1>4, <1>6 DEF Of
  <2>2. \A i \in DOMAIN s : \A j \in 1 .. i - 1 : j \in DOMAIN s /\ new[j].link = s[j].link
    BY <1>3, <1>4
  <2>3. ASSUME NEW P, FirstHas(s, c, P), NEW i \in Of(s, c)
        PROVE  new[i].details = IF c \in P /\ \A j \in 1 .. i - 1 : new[j].link # c THEN 1 ELSE 0
    <3>1. s[i].details = IF c \in P /\ \A j \in 1 .. i - 1 : s[j].link # c THEN 1 ELSE 0
      BY <2>3 DEF FirstHas
    <3>2. new[i] = s[i] /\ \A j \in 1 .. i - 1 : new[j].link = s[j].link
      BY <2>1, <2>2, <2>3
    <3> QED
      BY <3>1, <3>2
  <2> QED
    BY <1>5, <2>1, <2>3 DEF FirstHas
<1>7. ASSUME q = c, NEW i \in DOMAIN s, Of(s, c) = {i}, s[i].details = 0 PROVE \A P : c \in P => FirstHas(new, c, P)
  <2>1. PICK k \in DOMAIN s : s[k].link = q /\ new = [s EXCEPT ![k].details = @ + 1]
    BY <1>1, <1>7 DEF Of
  <2>2. k = i
    BY <1>7, <2>1 DEF Of
  <2>3. new[i].details = 1
    BY <1>2, <1>7, <2>1, <2>2 DEF Row
  <2>4. \A j \in 1 .. i - 1 : new[j].link # c
    <3>1. \A j \in 1 .. i - 1 : j \in DOMAIN s /\ j # i
      BY <1>3
    <3> QED
      BY <1>4, <1>7, <3>1 DEF Of
  <2> QED
    BY <1>5, <1>7, <2>3, <2>4 DEF FirstHas
<1> QED
  BY <1>5, <1>6, <1>7

(* What a step opens and visits, and the rows it touches. *)
LEMMA StepGrows ==
  ASSUME OwnInv, FineStep, flow = "active"
  PROVE  /\ visited \subseteq visited'
         /\ \A t \in Tenders : opened[t] \subseteq opened'[t]
         /\ \A t \in Tenders : t # tender' => opened'[t] = opened[t] /\ corrigenda'[t] = corrigenda[t]
<1>0. Types /\ FramesInv /\ HandlersInv
  BY DEF OwnInv
<1>1. visited \subseteq visited'
  BY DEF FineStep, StartsFresh, Starts, FollowsDetails, PastFollows, FollowsCorrigendum, Visits, Reading, Skips,
     ListsRow, AddsDetail, Ends, Returns, Pops
<1>2. opened' = opened \/ \E p : opened' = [opened EXCEPT ![tender'] = @ \cup {p}]
  BY DEF FineStep, StartsFresh, Starts, FollowsDetails, PastFollows, FollowsCorrigendum, Visits, Reading, Skips,
     ListsRow, AddsDetail, Ends, Returns, Pops
<1>3. corrigenda' = corrigenda \/ \E rows : corrigenda' = [corrigenda EXCEPT ![tender'] = rows]
  BY DEF FineStep, StartsFresh, Starts, FollowsDetails, PastFollows, FollowsCorrigendum, Visits, Reading, Skips,
     ListsRow, AddsDetail, Ends, Returns, Pops, RowAdded, DetailAdded
<1> QED
  BY <1>0, <1>1, <1>2, <1>3 DEF Types

LEMMA OnceForKept ==
  ASSUME OwnInv, FineStep, flow = "active", NEW t \in Tenders, NEW c \in Pages, OnceFor(t, c)'
  PROVE  OnceFor(t, c) /\ Elements(c, "list_table") = <<c>>
<1>1. site' = site /\ opened[t] \subseteq opened'[t] /\ site \in Sites
  BY SameSite, StepGrows DEF OwnInv, Types
<1>2. "list_table" \in Handlers /\ "list_table" \notin LinkKinds
  BY Selectors DEF LinkKinds
<1>3. Elements(c, "list_table") \in {<<>>, <<c>>}
  BY <1>1, <1>2, ElementsFacts
<1>4. Elements(c, "list_table")' = Elements(c, "list_table")
  BY <1>1 DEF Elements
<1> QED
  BY <1>1, <1>3, <1>4 DEF OnceFor, LeadsTo, Lists

(* The rows of a page, where no row of it is added and no detail comes     *)
(* from it.                                                                *)
LEMMA RowsSame ==
  ASSUME OwnInv, FineStep, ~StartsFresh, flow = "active", NEW c \in Pages,
         ~(FollowsCorrigendum /\ Call.link = c), ~(AddsDetail /\ Top.page = c)
  PROVE  /\ Of(corrigenda'[tender], c) = Of(corrigenda[tender], c)
         /\ \A i \in Of(corrigenda[tender], c) : corrigenda'[tender][i] = corrigenda[tender][i]
         /\ \A P : FirstHas(corrigenda[tender], c, P) => FirstHas(corrigenda'[tender], c, P)
<1>0. Types /\ FramesInv /\ HandlersInv
  BY DEF OwnInv
<1>1. ASSUME FollowsCorrigendum \/ AddsDetail
      PROVE  tender \in Tenders /\ corrigenda[tender] \in Seq(Row) /\ Call.link \in Pages
  BY <1>0, <1>1, CallFacts DEF FollowsCorrigendum, AddsDetail, Visits, Calling, Types, Row
<1>2. CASE FollowsCorrigendum
  <2>1. corrigenda'[tender] = Append(corrigenda[tender], [link |-> Call.link, details |-> 0])
    BY <1>0, <1>1, <1>2 DEF FollowsCorrigendum, RowAdded, Types
  <2>2. Call.link # c
    BY <1>2
  <2>3. PICK s \in Seq(Row) : s = corrigenda[tender]
    BY <1>1, <1>2
  <2>7. PICK new : new = corrigenda'[tender]
    OBVIOUS
  <2>4. PICK q \in Pages : q = Call.link
    BY <1>1, <1>2
  <2>5. q # c /\ new = Append(s, NewRow(q))
    BY <2>1, <2>2, <2>3, <2>4, <2>7 DEF NewRow
  <2>6. Of(new, c) = Of(s, c)
    <3>1. Of(Append(s, NewRow(q)), c) = Of(s, c)
      BY <2>5, OtherRowAdded
    <3> QED
      BY <2>5, <3>1
  <2>9. ASSUME NEW i \in Of(s, c) PROVE new[i] = s[i]
    <3>1. Append(s, NewRow(q))[i] = s[i]
      BY <2>5, <2>9, OtherRowAdded
    <3> QED
      BY <2>5, <3>1
  <2>8. ASSUME NEW P, FirstHas(s, c, P) PROVE FirstHas(new, c, P)
    <3>1. FirstHas(Append(s, NewRow(q)), c, P)
      BY <2>5, <2>8, FirstHasKept
    <3> QED
      BY <2>5, <3>1
  <2> QED
    BY <2>3, <2>6, <2>7, <2>8, <2>9
<1>3. CASE AddsDetail
  <2>1. corrigenda'[tender] = attachDetailToParent(corrigenda[tender], Top.page)
    BY <1>0, <1>1, <1>3 DEF AddsDetail, DetailAdded, Types
  <2>2. PICK s \in Seq(Row) : s = corrigenda[tender]
    BY <1>1, <1>3
  <2>3. PICK new : new = corrigenda'[tender]
    OBVIOUS
  <2>4. PICK q : q = Top.page
    OBVIOUS
  <2>5. q # c /\ new = attachDetailToParent(s, q)
    BY <1>3, <2>1, <2>2, <2>3, <2>4
  <2>6. /\ Of(new, c) = Of(s, c) /\ \A i \in Of(s, c) : new[i] = s[i]
        /\ \A P : FirstHas(s, c, P) => FirstHas(new, c, P)
    BY <2>5, DetailAddedFacts
  <2> QED
    BY <2>2, <2>3, <2>6
<1>4. CASE ~FollowsCorrigendum /\ ~AddsDetail
  <2>1. corrigenda' = corrigenda
    BY <1>4 DEF FineStep, FollowsDetails, PastFollows, Reading, Skips, ListsRow, Ends, Returns, Pops
  <2> QED
    BY <2>1
<1> QED
  BY <1>2, <1>3, <1>4

(* The page of the details is the one that lists it. *)
LEMMA ListedBy ==
  ASSUME OwnInv, FollowsCorrigendum, OnceFor(tender, Call.link)
  PROVE  /\ LeadsTo(tender, Top.page) /\ Top.page \in Pages /\ Top.page # Call.link
         /\ stack # <<>> /\ Len(stack) \in DOMAIN stack /\ Top = stack[Len(stack)]
<1>0. Types /\ FramesInv /\ HandlersInv /\ site \in Sites /\ Owed /\ Handler.on = "corrigendum" /\ stack # <<>>
  BY DEF OwnInv, Types, FollowsCorrigendum, Visits, Calling, Owed
<1>1. /\ Len(stack) \in DOMAIN stack /\ Top = stack[Len(stack)] /\ tender \in Tenders
      /\ Call.link = Elements(Top.page, "corrigendum")[Call.nth]
      /\ Call.nth \in DOMAIN Elements(Top.page, "corrigendum")
      /\ Top.page \in Pages /\ Len(stack) # 1
  BY <1>0, CallOf
<1>2. Elements(Top.page, "corrigendum") = IF site[Top.page].html THEN site[Top.page].links["corrigendum"] ELSE <<>>
  BY <1>0, <1>1, ElementsFacts, Selectors DEF LinkKinds
<1>3. Call.nth \in DOMAIN site[Top.page].links["corrigendum"]
      /\ Call.link = site[Top.page].links["corrigendum"][Call.nth]
  BY <1>1, <1>2
<1>4. Lists(Top.page, Call.link, "corrigendum")
  BY <1>3 DEF Lists, Range
<1>5. Top.page \in opened[tender] /\ Top.page # Links[tender]
  <2>1. 1 \in DOMAIN stack
    BY <1>0, <1>1 DEF Types
  <2> QED
    BY <1>0, <1>1, <2>1 DEF FramesInv
<1>6. Top.page # Call.link
  <2>1. site[Call.link].links["corrigendum"] = <<>>
    BY DEF OnceFor
  <2> QED
    BY <1>3, <2>1
<1> QED
  BY <1>0, <1>1, <1>4, <1>5, <1>6 DEF OnceFor

(* A page that has no row keeps none until the page of the details lists it. *)
LEMMA UnlistedKept ==
  ASSUME DecideInv, FineStep, ~StartsFresh, flow = "active", OwnInv', tender \in Tenders,
         NEW c \in Pages, Unlisted(tender, c), ~(FollowsCorrigendum /\ Call.link = c)
  PROVE  Unlisted(tender, c)'
<1>0. OwnInv /\ Types /\ FramesInv /\ HandlersInv /\ OpenedInv /\ StartInv /\ OnceInv
  BY DEF DecideInv, ExactInv, OwnInv
<1>1. tender' = tender /\ site' = site /\ stack # <<>>
  BY SameSite, SameTender
<1>2. Of(corrigenda'[tender], c) = {}
  <2>1. Of(corrigenda[tender], c) = {}
    BY DEF Unlisted
  <2>2. CASE AddsDetail
    <3>1. corrigenda[tender] \in Seq(Row)
      BY <1>0 DEF Types, Row
    <3>2. corrigenda'[tender] = attachDetailToParent(corrigenda[tender], Top.page)
      BY <1>0, <2>2 DEF AddsDetail, DetailAdded, Types
    <3> QED
      BY <2>1, <3>1, <3>2, DetailAddedFacts
  <2>3. CASE ~AddsDetail
    BY <1>0, <2>1, <2>3, RowsSame
  <2> QED
    BY <2>2, <2>3
<1>3. ASSUME c \in opened'[tender], NEW d \in Pages, LeadsTo(tender, d), d # c
      PROVE  d \in visited' /\ \A i \in DOMAIN stack' : stack'[i].page # d
  <2>1. CASE c \in opened[tender]
    <3>1. d \in visited /\ \A i \in DOMAIN stack : stack[i].page # d
      BY <1>3, <2>1 DEF Unlisted
    <3>2. visited \subseteq visited'
      BY <1>0, StepGrows
    <3>3. ASSUME NEW i \in DOMAIN stack' PROVE stack'[i].page # d
      <4>1. CASE i \in DOMAIN stack /\ OldFrame(i)
        BY <3>1, <4>1 DEF OldFrame
      <4>2. CASE i = Len(stack) + 1 /\ Opens
        BY <3>1, <4>2 DEF Opens
      <4> QED
        BY <1>0, <4>1, <4>2, FrameCase
    <3> QED
      BY <3>1, <3>2, <3>3
  <2>2. CASE c \notin opened[tender]
    <3>1. opened' # opened
      BY <1>3, <2>2
    <3>2. Opens /\ FollowsDetails
      <4>1. flow # "past"
        OBVIOUS
      <4>2. Opens /\ (FollowsDetails \/ FollowsCorrigendum)
        BY <1>0, <3>1, <4>1, StackCases DEF PastFollows
      <4>3. Call.link = c
        BY <1>0, <1>3, <2>2, <4>2 DEF Opens, Types
      <4> QED
        BY <4>2, <4>3
    <3>3. Call.link = c /\ Handler.on = "more" /\ Owed
      BY <1>0, <1>3, <2>2, <3>2 DEF Opens, Types, FollowsDetails, Visits, Calling
    <3>4. Len(stack) = 1
      <4>1. Len(stack) \in DOMAIN stack /\ Call \in stack[Len(stack)].left /\ Handler = callbacks[Call.cb]
        BY <1>0, <3>3, CallOf
      <4> QED
        BY <1>0, <1>1, <3>3, <4>1 DEF OnceInv
    <3>5. d \in visited
      <4> SUFFICES ASSUME d \notin visited PROVE FALSE
        OBVIOUS
      <4>1. Untouched
        BY <1>0, <1>1, <1>3 DEF StartInv
      <4>2. Call.link = d
        BY <1>0, <1>1, <1>3, <3>1, <4>1, FirstFollowed
      <4> QED
        BY <1>3, <3>3, <4>2
    <3>6. ASSUME NEW i \in DOMAIN stack' PROVE stack'[i].page # d
      <4>1. CASE i \in DOMAIN stack /\ OldFrame(i)
        <5>1. i = 1 /\ stack[1].page = Links[tender]
          BY <1>0, <1>1, <3>4, <4>1 DEF Types, FramesInv
        <5> QED
          BY <1>3, <4>1, <5>1 DEF OldFrame, LeadsTo
      <4>2. CASE i = Len(stack) + 1 /\ Opens
        BY <1>3, <3>3, <4>2 DEF Opens
      <4> QED
        BY <1>0, <4>1, <4>2, FrameCase
    <3>7. visited \subseteq visited'
      BY <1>0, StepGrows
    <3> QED
      BY <3>5, <3>6, <3>7
  <2> QED
    BY <2>1, <2>2
<1>4. \A d : LeadsTo(tender, d)' <=> LeadsTo(tender, d)
  BY <1>1 DEF LeadsTo, Lists
<1> QED
  BY <1>1, <1>2, <1>3, <1>4 DEF Unlisted

(* The one handler for details that is attached for the page of a          *)
(* corrigendum right inside the page of the details makes it owe one call. *)
LEMMA OneDetailOwed ==
  ASSUME Types', site' = site, CountInv', flow' = "active", Len(stack') = 3, stack'[1].opener # "corrigendum",
         stack'[2].opener # "corrigendum", stack'[3].opener = "corrigendum",
         NEW c \in Pages, stack'[3].page = c, stack'[3].left = Calls(c, callbacks'),
         Elements(c, "list_table") = <<c>>
  PROVE  \E k \in stack'[3].left : OwesDetails(3)' = {k} /\ callbacks'[k.cb].attached
<1>0. callbacks' \in Seq(HandlerRec) /\ site \in Sites /\ stack' \in Seq(Frame)
  BY DEF Types
<1>1. Inside' = {3}
  <2>1. DOMAIN stack' = {1, 2, 3}
    BY <1>0
  <2> QED
    BY <2>1 DEF Inside
<1>2. PICK m : Listening(callbacks') = {m}
  BY <1>1, EvenSmall DEF CountInv
<1>3. /\ m \in DOMAIN callbacks' /\ callbacks'[m].attached /\ callbacks'[m].on = "list_table"
      /\ \A i \in DOMAIN callbacks' : callbacks'[i].attached /\ callbacks'[i].on = "list_table" => i = m
  BY <1>2 DEF Listening
<1>4. DOMAIN <<c>> = {1} /\ <<c>>[1] = c
  OBVIOUS
<1> DEFINE k == [cb |-> m, nth |-> 1, link |-> c]
<1>5. k \in Calls(c, callbacks')
  <2>1. 1 \in DOMAIN Elements(c, callbacks'[m].on) /\ Elements(c, callbacks'[m].on)[1] = c
    BY <1>3, <1>4
  <2> QED
    BY <1>0, <1>3, <2>1, CallsFacts
<1>6. ASSUME NEW e \in Calls(c, callbacks'), callbacks'[e.cb].on = "list_table" PROVE e = k
  <2>1. /\ e \in CallRec /\ e.cb \in DOMAIN callbacks' /\ callbacks'[e.cb].attached
        /\ e.nth \in DOMAIN Elements(c, callbacks'[e.cb].on)
        /\ e.link = Elements(c, callbacks'[e.cb].on)[e.nth]
    BY <1>0, <1>6, CallsFacts
  <2>2. e.cb = m
    BY <1>3, <1>6, <2>1
  <2>3. e.nth = 1 /\ e.link = c
    BY <1>4, <1>6, <2>1
  <2> QED
    BY <2>1, <2>2, <2>3 DEF CallRec
<1>7. OwesDetails(3)' = {k}
  BY <1>3, <1>5, <1>6 DEF OwesDetails
<1> QED
  BY <1>3, <1>5, <1>7

(* The page of the details lists it for the first time: it arrives or it   *)
(* does not.                                                               *)
LEMMA FirstListed ==
  ASSUME DecideInv, DetailsFrame, FineStep, ~StartsFresh, flow = "active", OwnInv', CountInv', tender \in Tenders,
         NEW c \in Pages, OnceFor(tender, c), Elements(c, "list_table") = <<c>>, Unlisted(tender, c),
         FollowsCorrigendum, Call.link = c
  PROVE  Pending(tender, c)' \/ Settled(tender, c)'
<1>0. /\ OwnInv /\ Types /\ FramesInv /\ HandlersInv /\ tender' = tender /\ site' = site /\ Types' /\ flow' = "active"
      /\ stack \in Seq(Frame) /\ stack' \in Seq(Frame)
  BY SameSite, SameTender DEF DecideInv, ExactInv, OwnInv, Types
<1>1. /\ LeadsTo(tender, Top.page) /\ Top.page \in Pages /\ Top.page # c
      /\ stack # <<>> /\ Len(stack) \in DOMAIN stack /\ Top = stack[Len(stack)]
  BY <1>0, ListedBy
<1>2. c \notin opened[tender]
  BY <1>1 DEF Unlisted
<1>3. /\ Of(corrigenda'[tender], c) = {Len(corrigenda[tender]) + 1}
      /\ Len(corrigenda[tender]) + 1 \in DOMAIN corrigenda'[tender]
      /\ corrigenda'[tender][Len(corrigenda[tender]) + 1].details = 0
      /\ FirstHas(corrigenda'[tender], c, opened[tender])
  <2>1. PICK s \in Seq(Row) : s = corrigenda[tender]
    BY <1>0 DEF Types, Row
  <2>2. PICK new : new = corrigenda'[tender]
    OBVIOUS
  <2>3. new = Append(s, NewRow(c)) /\ Of(s, c) = {}
    BY <1>0, <2>1, <2>2 DEF FollowsCorrigendum, RowAdded, NewRow, Types, Unlisted
  <2>4. /\ Of(new, c) = Of(s, c) \cup {Len(s) + 1} /\ Len(s) + 1 \in DOMAIN new
        /\ new[Len(s) + 1].details = 0
    <3>1. /\ Of(Append(s, NewRow(c)), c) = Of(s, c) \cup {Len(s) + 1}
          /\ Len(s) + 1 \in DOMAIN Append(s, NewRow(c)) /\ Append(s, NewRow(c))[Len(s) + 1].details = 0
      BY OwnRowAdded
    <3> QED
      BY <2>3, <3>1
  <2>5. PICK P : P = opened[tender]
    OBVIOUS
  <2>6. FirstHas(s, c, P) /\ c \notin P
    BY <1>2, <2>3, <2>5 DEF FirstHas
  <2>7. FirstHas(new, c, P)
    <3>1. FirstHas(Append(s, NewRow(c)), c, P)
      BY <2>6, FirstHasKept
    <3> QED
      BY <2>3, <3>1
  <2> QED
    BY <2>1, <2>2, <2>3, <2>4, <2>5, <2>7
<1>4. (Stays /\ opened' = opened) \/ (Opens /\ Handler.on = "corrigendum")
  BY <1>0, VisitsStack DEF FollowsCorrigendum, LinkKinds
<1>5. CASE Stays /\ opened' = opened
  <2>1. c \in visited'
    BY DEF FollowsCorrigendum, Visits
  <2>2. \A i \in DOMAIN stack' : stack'[i].page # c
    BY <1>0, <1>1, <1>2, <1>5 DEF Stays, OldFrame, FramesInv
  <2>3. Settled(tender, c)'
    BY <1>0, <1>3, <1>5, <2>1, <2>2 DEF Settled
  <2> QED
    BY <2>3
<1>6. CASE Opens /\ Handler.on = "corrigendum"
  <2>1. Len(stack) = 2 /\ stack[2].opener = "more"
    BY <1>1 DEF DetailsFrame
  <2>2. stack[1].opener = "start"
    <3>1. 1 \in DOMAIN stack
      BY <1>0, <2>1
    <3> QED
      BY <1>0, <1>1, <3>1 DEF FramesInv
  <2>3. /\ DOMAIN stack' = 1 .. 3 /\ 1 \in DOMAIN stack /\ 2 \in DOMAIN stack
        /\ stack'[3] = [page |-> c, opener |-> "corrigendum", left |-> Calls(c, callbacks')]
    BY <1>0, <1>6, <2>1 DEF Opens
  <2>4. /\ stack'[1].opener = "start" /\ stack'[2].opener = "more" /\ stack'[3].opener = "corrigendum"
        /\ stack'[3].page = c /\ stack'[3].left = Calls(c, callbacks') /\ Len(stack') = 3
    BY <1>0, <1>6, <2>1, <2>2, <2>3 DEF Opens, OldFrame
  <2>5. \E k \in stack'[3].left : OwesDetails(3)' = {k} /\ callbacks'[k.cb].attached
    BY <1>0, <2>4, OneDetailOwed
  <2>6. Pending(tender, c)'
    BY <1>0, <1>3, <2>4, <2>5 DEF Pending
  <2> QED
    BY <2>6
<1> QED
  BY <1>4, <1>5, <1>6

(* A page that owes the call for its details makes it before it is done,   *)
(* and no other has to do with it.                                         *)
LEMMA PendingStep ==
  ASSUME DecideInv, FineStep, ~StartsFresh, flow = "active", OwnInv', tender \in Tenders,
         NEW c \in Pages, OnceFor(tender, c), Pending(tender, c)
  PROVE  Pending(tender, c)' \/ Settled(tender, c)'
<1>0. /\ OwnInv /\ Types /\ FramesInv /\ HandlersInv /\ AttachedInv /\ OnceInv /\ tender' = tender /\ site' = site
      /\ stack \in Seq(Frame) /\ stack' \in Seq(Frame) /\ stack # <<>>
  BY SameSite, SameTender DEF DecideInv, ExactInv, OwnInv, Types
<1>1. Len(stack) = 3 /\ stack[3].page = c /\ 3 \in DOMAIN stack /\ Top = stack[3]
  <2>1. Len(stack) = 3 /\ stack[3].page = c
    BY DEF Pending
  <2> QED
    BY <1>0, <2>1 DEF Top, Last
<1>2. PICK i \in DOMAIN corrigenda[tender] : Of(corrigenda[tender], c) = {i} /\ corrigenda[tender][i].details = 0
  BY DEF Pending
<1>3. PICK k \in stack[3].left : OwesDetails(3) = {k} /\ callbacks[k.cb].attached
  BY DEF Pending
<1>4. Owed /\ callbacks[k.cb].on = "list_table"
  BY <1>0, <1>1, <1>3 DEF Owed, OwesDetails
<1>5. /\ Call \in stack[3].left /\ Handler = callbacks[Call.cb] /\ Handler.on \in Handlers
      /\ Call.nth \in DOMAIN Elements(c, Handler.on)
  BY <1>0, <1>1, <1>4, CallOf
<1>6. ~FollowsDetails
  BY <1>0, <1>1, <1>5 DEF FollowsDetails, Visits, Calling, OnceInv
<1>7. ~FollowsCorrigendum
  <2> SUFFICES ASSUME FollowsCorrigendum PROVE FALSE
    OBVIOUS
  <2>1. Handler.on = "corrigendum" /\ site \in Sites
    BY <1>0 DEF FollowsCorrigendum, Visits, Calling, Types
  <2>2. Elements(c, "corrigendum") = IF site[c].html THEN site[c].links["corrigendum"] ELSE <<>>
    BY <2>1, ElementsFacts, Selectors DEF LinkKinds
  <2>3. Elements(c, "corrigendum") = <<>>
    BY <2>2 DEF OnceFor
  <2> QED
    BY <1>5, <2>1, <2>3
<1>8. ~Ends
  BY <1>4 DEF Ends, Returns, Owed
<1>9. (\E on \in Readers : Reading(on)) \/ Skips \/ AddsDetail
  BY <1>6, <1>7, <1>8 DEF FineStep, PastFollows, ListsRow
<1>10. /\ stack' = Called /\ callbacks' = callbacks /\ opened' = opened /\ visited' = visited
  BY <1>9 DEF Reading, Skips, AddsDetail, Pops
<1>11. /\ Len(stack') = 3 /\ stack'[3].page = c /\ stack'[3].left = stack[3].left \ {Call}
       /\ DOMAIN stack' = DOMAIN stack
       /\ \A j \in DOMAIN stack : stack'[j].page = stack[j].page
  BY <1>0, <1>1, <1>4, <1>10, CalledFacts
<1>12. CASE Call = k
  <2>1. AddsDetail
    <3>1. ~Skips
      BY <1>0, <1>3, <1>5, <1>12 DEF Skips
    <3>2. ~ \E on \in Readers : Reading(on)
      BY <1>4, <1>5, <1>12 DEF Reading, Calling, Readers
    <3> QED
      BY <1>9, <3>1, <3>2
  <2>2. OwesDetails(3)' = {}
    BY <1>3, <1>10, <1>11, <1>12 DEF OwesDetails
  <2>3. c \in opened[tender] /\ c \in visited
    BY <1>0, <1>1 DEF FramesInv
  <2>4. \A j \in DOMAIN stack' : stack'[j].page = c => OwesDetails(j)' = {}
    <3>1. \A j \in DOMAIN stack' : stack'[j].page = c => j = 3
      BY <1>0, <1>1, <1>11 DEF FramesInv
    <3> QED
      BY <2>2, <3>1
  <2>5. Of(corrigenda'[tender], c) = {i} /\ FirstHas(corrigenda'[tender], c, opened[tender])
    <3>1. corrigenda[tender] \in Seq(Row)
      BY <1>0 DEF Types, Row
    <3>2. corrigenda'[tender] = attachDetailToParent(corrigenda[tender], c)
      BY <1>0, <1>1, <2>1 DEF AddsDetail, DetailAdded, Types
    <3>3. Of(corrigenda'[tender], c) = Of(corrigenda[tender], c)
      BY <3>1, <3>2, DetailAddedFacts
    <3>4. FirstHas(corrigenda'[tender], c, opened[tender])
      BY <1>2, <2>3, <3>1, <3>2, DetailAddedFacts
    <3> QED
      BY <1>2, <3>3, <3>4
  <2>6. Settled(tender, c)'
    BY <1>0, <1>10, <2>3, <2>4, <2>5 DEF Settled
  <2> QED
    BY <2>6
<1>13. CASE Call # k
  <2>1. ~AddsDetail
    BY <1>3, <1>5, <1>13 DEF AddsDetail, Calling, OwesDetails
  <2>2. corrigenda' = corrigenda
    BY <1>9, <2>1 DEF Reading, Skips
  <2>3. k \in stack'[3].left /\ OwesDetails(3)' = {k}
    BY <1>3, <1>10, <1>11, <1>13 DEF OwesDetails
  <2>4. Pending(tender, c)'
    BY <1>0, <1>2, <1>3, <1>10, <1>11, <2>2, <2>3 DEF Pending
  <2> QED
    BY <2>4
<1> QED
  BY <1>12, <1>13

(* A page that is settled stays so: it is not visited again. *)
LEMMA SettledStep ==
  ASSUME DecideInv, FineStep, ~StartsFresh, flow = "active", OwnInv', tender \in Tenders,
         NEW c \in Pages, Settled(tender, c)
  PROVE  Settled(tender, c)'
<1>0. /\ OwnInv /\ Types /\ FramesInv /\ HandlersInv /\ tender' = tender /\ site' = site /\ stack # <<>>
      /\ corrigenda[tender] \in Seq(Row)
  BY SameSite, SameTender DEF DecideInv, ExactInv, OwnInv, Types, Row
<1>1. /\ Of(corrigenda[tender], c) # {} /\ FirstHas(corrigenda[tender], c, opened[tender]) /\ c \in visited
      /\ \A i \in DOMAIN stack : stack[i].page = c => OwesDetails(i) = {}
  BY DEF Settled
<1>2. c \in visited'
  BY <1>0, <1>1, StepGrows
<1>3. c \in opened'[tender] <=> c \in opened[tender]
  <2>1. opened' = opened \/ Opens
    BY <1>0, StackCases
  <2>2. Opens => opened'[tender] = opened[tender] \cup {Call.link} /\ Call.link # c
    BY <1>0, <1>1 DEF Opens, Types
  <2> QED
    BY <2>1, <2>2
<1>4. ASSUME NEW i \in DOMAIN stack', stack'[i].page = c PROVE OwesDetails(i)' = {}
  <2>1. ~(i = Len(stack) + 1 /\ Opens)
    BY <1>1, <1>4 DEF Opens
  <2>2. i \in DOMAIN stack /\ OldFrame(i)
    BY <1>0, <1>4, <2>1, FrameCase
  <2>3. OwesDetails(i) = {}
    BY <1>1, <1>4, <2>2 DEF OldFrame
  <2>4. \A e \in stack'[i].left : e \in stack[i].left /\ callbacks'[e.cb].on = callbacks[e.cb].on
    BY <1>0, <2>2, OldCall
  <2> QED
    BY <2>3, <2>4 DEF OwesDetails
<1>5. Of(corrigenda'[tender], c) # {} /\ FirstHas(corrigenda'[tender], c, opened[tender])
  <2>1. CASE FollowsCorrigendum /\ Call.link = c
    <3>1. corrigenda'[tender] = Append(corrigenda[tender], NewRow(c))
      BY <1>0, <2>1 DEF FollowsCorrigendum, RowAdded, NewRow, Types
    <3>2. FirstHas(corrigenda'[tender], c, opened[tender])
      BY <1>0, <1>1, <3>1, FirstHasKept
    <3>3. Of(corrigenda'[tender], c) = Of(corrigenda[tender], c) \cup {Len(corrigenda[tender]) + 1}
      BY <1>0, <3>1, OwnRowAdded
    <3> QED
      BY <3>2, <3>3
  <2>2. ~(AddsDetail /\ Top.page = c)
    <3> SUFFICES ASSUME AddsDetail, Top.page = c PROVE FALSE
      OBVIOUS
    <3>1. Owed /\ Handler.on = "list_table"
      BY DEF AddsDetail, Calling
    <3>2. /\ Len(stack) \in DOMAIN stack /\ Call \in stack[Len(stack)].left /\ Handler = callbacks[Call.cb]
          /\ Top = stack[Len(stack)]
      BY <1>0, <3>1, CallOf
    <3>3. Call \in OwesDetails(Len(stack))
      BY <3>1, <3>2 DEF OwesDetails
    <3> QED
      BY <1>1, <3>2, <3>3
  <2>3. CASE ~(FollowsCorrigendum /\ Call.link = c)
    BY <1>0, <1>1, <2>2, <2>3, RowsSame
  <2> QED
    BY <2>1, <2>3
<1>6. FirstHas(corrigenda'[tender], c, opened'[tender])
  BY <1>3, <1>5 DEF FirstHas
<1> QED
  BY <1>0, <1>2, <1>4, <1>5, <1>6 DEF Settled

LEMMA DetailsStep ==
  ASSUME DecideInv, CountInv, DetailsFrame, DetailsInv, FineStep, OwnInv', CountInv'
  PROVE  DetailsInv'
<1> SUFFICES ASSUME flow' = "active", NEW t \in Tenders, t <= tender', NEW c \in Pages, OnceFor(t, c)'
             PROVE  Unlisted(t, c)' \/ Pending(t, c)' \/ Settled(t, c)'
  BY DEF DetailsInv
<1>0. OwnInv /\ Types /\ FramesInv /\ HandlersInv /\ OpenedInv /\ flow = "active" /\ site' = site /\ Types' /\ FramesInv'
  BY SameSite DEF DecideInv, ExactInv, OwnInv
<1>1. OnceFor(t, c) /\ Elements(c, "list_table") = <<c>>
  BY <1>0, OnceForKept
<1>2. CASE t = tender /\ ~StartsFresh
  <2>1. t = tender' /\ t <= tender
    BY <1>0, <1>2, SameTender DEF Tenders
  <2>2. Unlisted(t, c) \/ Pending(t, c) \/ Settled(t, c)
    BY <1>0, <1>1, <2>1 DEF DetailsInv
  <2>3. CASE Unlisted(tender, c) /\ ~(FollowsCorrigendum /\ Call.link = c)
    <3>1. Unlisted(tender, c)'
      BY <1>0, <1>2, <2>3, UnlistedKept
    <3> QED
      BY <2>1, <3>1 DEF Unlisted
  <2>4. CASE Unlisted(tender, c) /\ FollowsCorrigendum /\ Call.link = c
    <3>1. Pending(tender, c)' \/ Settled(tender, c)'
      BY <1>0, <1>1, <1>2, <2>4, FirstListed
    <3> QED
      BY <2>1, <3>1 DEF Pending, Settled
  <2>5. CASE Pending(tender, c)
    <3>1. Pending(tender, c)' \/ Settled(tender, c)'
      BY <1>0, <1>1, <1>2, <2>5, PendingStep
    <3> QED
      BY <2>1, <3>1 DEF Pending, Settled
  <2>6. CASE Settled(tender, c)
    <3>1. Settled(tender, c)'
      BY <1>0, <1>2, <2>6, SettledStep
    <3> QED
      BY <2>1, <3>1 DEF Settled
  <2> QED
    BY <1>2, <2>2, <2>3, <2>4, <2>5, <2>6
<1>3. CASE t # tender /\ ~StartsFresh
  <2>1. t # tender' /\ t <= tender
    BY <1>0, <1>3, SameTender DEF Tenders
  <2>2. opened'[t] = opened[t] /\ corrigenda'[t] = corrigenda[t]
    BY <1>0, <2>1, StepGrows
  <2>3. Unlisted(t, c) \/ Settled(t, c)
    BY <1>0, <1>1, <1>3, <2>1 DEF DetailsInv, Pending
  <2> QED
    BY <2>1, <2>2, <2>3 DEF Unlisted, Settled
<1>4. CASE StartsFresh
  <2>1. stack = <<>> /\ tender' = tender + 1 /\ corrigenda' = corrigenda /\ tender \in Nat
    BY <1>0, <1>4, CollectorAssumption DEF StartsFresh, Starts, Types, Tenders
  <2>2. CASE t = tender'
    <3>1. Fresh(t)
      BY <1>0, <2>1, <2>2 DEF OpenedInv
    <3>2. Of(corrigenda'[t], c) = {}
      BY <2>1, <3>1 DEF Fresh, Of
    <3>3. c \notin opened'[t]
      <4>1. opened'[t] \subseteq {Links[t]}
        BY <1>0, <1>4, <2>2, <3>1 DEF StartsFresh, Starts, Fresh, Types
      <4> QED
        BY <1>1, <4>1 DEF OnceFor
    <3> QED
      BY <3>2, <3>3 DEF Unlisted
  <2>3. CASE t # tender'
    <3>1. t <= tender /\ t # tender'
      BY <2>1, <2>3 DEF Tenders
    <3>2. opened'[t] = opened[t] /\ corrigenda'[t] = corrigenda[t]
      BY <1>0, <2>3, StepGrows
    <3>3. ~Pending(t, c)
      <4>1. Len(<<>>) # 3
        OBVIOUS
      <4> QED
        BY <2>1, <4>1 DEF Pending
    <3>4. Unlisted(t, c) \/ Settled(t, c)
      BY <1>0, <1>1, <3>1, <3>3 DEF DetailsInv
    <3> QED
      BY <3>1, <3>2, <3>4 DEF Unlisted, Settled
  <2> QED
    BY <2>2, <2>3
<1> QED
  BY <1>2, <1>3, <1>4

CorrigendaInv == DecideInv /\ CountInv /\ DetailsFrame /\ DetailsInv

LEMMA InitCorrigenda == FlowInit => CorrigendaInv
<1> SUFFICES ASSUME FlowInit PROVE CorrigendaInv
  OBVIOUS
<1>1. stack = <<>> /\ callbacks = <<>> /\ tender = 0
  BY DEF FlowInit, Init
<1>2. Listening(callbacks) = {} /\ Inside = {}
  BY <1>1 DEF Listening, Inside
<1>3. \A t \in Tenders : ~(t <= tender)
  BY <1>1 DEF Tenders
<1> QED
  BY <1>1, <1>2, <1>3, InitDecide, EvenSmall DEF CorrigendaInv, CountInv, DetailsFrame, DetailsInv

LEMMA CorrigendaStep == CorrigendaInv /\ [Next]_allVars => CorrigendaInv'
<1> SUFFICES ASSUME CorrigendaInv, [Next]_allVars PROVE CorrigendaInv'
  OBVIOUS
<1>0. /\ DecideInv /\ CountInv /\ DetailsFrame /\ DetailsInv /\ DecideInv' /\ OwnInv /\ OwnInv'
      /\ Types /\ FramesInv /\ HandlersInv
  BY DecideStep DEF CorrigendaInv, DecideInv, ExactInv, OwnInv
<1>1. CASE Next
  <2>1. FineStep
    BY <1>0, <1>1, FineSteps
  <2>2. CountInv'
    BY <1>0, <2>1, CountStep
  <2>3. DetailsFrame'
    BY <1>0, <2>1, DetailsFrameStep
  <2>4. DetailsInv'
    BY <1>0, <2>1, <2>2, DetailsStep
  <2> QED
    BY <1>0, <2>2, <2>3, <2>4 DEF CorrigendaInv
<1>2. CASE UNCHANGED allVars
  <2>1. UNCHANGED <<site, skipsDetached, tender, callbacks, visited, stack, opened, data, corrigenda,
                    result, handled, flow>>
    BY <1>2 DEF allVars, vars, portal
  <2>2. /\ \A t, d : LeadsTo(t, d)' <=> LeadsTo(t, d)
        /\ \A p, on : Elements(p, on)' = Elements(p, on)
        /\ \A i : OwesDetails(i)' = OwesDetails(i)
    BY <2>1 DEF LeadsTo, Lists, Elements, OwesDetails
  <2>3. CountInv'
    BY <1>0, <2>1 DEF CountInv, Inside
  <2>4. DetailsFrame'
    BY <1>0, <2>1, <2>2 DEF DetailsFrame
  <2>5. \A t, c : OnceFor(t, c)' => OnceFor(t, c)
    BY <2>1, <2>2 DEF OnceFor, Lists
  <2>6. \A t, c : /\ Unlisted(t, c) => Unlisted(t, c)'
                  /\ Settled(t, c) => Settled(t, c)'
                  /\ Pending(t, c) => Pending(t, c)'
    <3>1. \A t, c : Unlisted(t, c) => Unlisted(t, c)'
      BY <2>1, <2>2 DEF Unlisted
    <3>2. \A t, c : Settled(t, c) => Settled(t, c)'
      BY <2>1, <2>2 DEF Settled
    <3>3. \A t, c : Pending(t, c) => Pending(t, c)'
      BY <2>1, <2>2 DEF Pending
    <3> QED
      BY <3>1, <3>2, <3>3
  <2>7. DetailsInv'
    BY <1>0, <2>1, <2>5, <2>6 DEF DetailsInv
  <2> QED
    BY <1>0, <2>3, <2>4, <2>7 DEF CorrigendaInv
<1> QED
  BY <1>1, <1>2

(* As many handlers for details are attached as pages of corrigenda are    *)
(* being processed, so that a page which only the page of the details      *)
(* lists owes one call for its details, with its first row.                *)
THEOREM CorrigendaInvariance == Spec => []CorrigendaInv
<1> QED
  BY InitCorrigenda, CorrigendaStep, PTL DEF Spec

(* When an extraction is over, the details of a corrigendum are with its   *)
(* first row, once, if its page was read, and no handler for details is    *)
(* left attached.                                                          *)
THEOREM DetailsOnceAlways == Spec => []DetailsOnce
<1>1. CorrigendaInv => DetailsOnce
  <2> SUFFICES ASSUME CorrigendaInv, NEW t \in Tenders, flow = "active", Over(t)
               PROVE  /\ \A c \in Pages \ {Links[t]} :
                           /\ Elements(c, "list_table") # <<>>
                           /\ site[c].links["corrigendum"] = <<>>
                           /\ \A p \in opened[t] : Lists(p, c, "corrigendum") =>
                                Lists(Links[t], p, "more") /\ Head(site[Links[t]].links["more"]) = p
                           => \A i \in DOMAIN corrigenda[t] : corrigenda[t][i].link = c =>
                                corrigenda[t][i].details =
                                  IF c \in opened[t] /\ \A j \in 1..i-1 : corrigenda[t][j].link # c
                                  THEN 1 ELSE 0
                      /\ t = tender => \A i \in DOMAIN callbacks :
                           callbacks[i].on = "list_table" => ~callbacks[i].attached
    BY DEF DetailsOnce
  <2>0. /\ t <= tender /\ (t = tender => stack = <<>>) /\ DetailsInv /\ CountInv
    BY OverFacts DEF CorrigendaInv, DecideInv
  <2>1. ASSUME NEW c \in Pages \ {Links[t]}, Elements(c, "list_table") # <<>>,
               site[c].links["corrigendum"] = <<>>,
               \A p \in opened[t] : Lists(p, c, "corrigendum") =>
                 Lists(Links[t], p, "more") /\ Head(site[Links[t]].links["more"]) = p,
               NEW i \in DOMAIN corrigenda[t], corrigenda[t][i].link = c
        PROVE  corrigenda[t][i].details =
                 IF c \in opened[t] /\ \A j \in 1..i-1 : corrigenda[t][j].link # c THEN 1 ELSE 0
    <3>1. OnceFor(t, c)
      BY <2>1 DEF OnceFor, LeadsTo
    <3>2. i \in Of(corrigenda[t], c)
      BY <2>1 DEF Of
    <3>3. ~Unlisted(t, c)
      BY <3>2 DEF Unlisted
    <3>4. ~Pending(t, c)
      <4>1. Len(<<>>) # 3
        OBVIOUS
      <4> QED
        BY <2>0, <4>1 DEF Pending
    <3>5. Settled(t, c)
      BY <2>0, <3>1, <3>3, <3>4 DEF DetailsInv
    <3> QED
      BY <3>2, <3>5 DEF Settled, FirstHas
  <2>2. ASSUME t = tender, NEW i \in DOMAIN callbacks, callbacks[i].on = "list_table"
        PROVE  ~callbacks[i].attached
    <3>1. Inside = {}
      BY <2>0, <2>2 DEF Inside
    <3>2. Listening(callbacks) = {}
      BY <2>0, <3>1, EvenSmall DEF CountInv
    <3> QED
      BY <2>2, <3>2 DEF Listening
  <2> QED
    BY <2>1, <2>2
<1> QED
  BY <1>1, CorrigendaInvariance, PTL
=============================================================================
