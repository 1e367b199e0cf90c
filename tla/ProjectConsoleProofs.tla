------------------------- MODULE ProjectConsoleProofs -------------------------
(***************************************************************************)
(* Proofs about ProjectConsole.  One filling of a form makes one item, or  *)
(* one more for every answer that was lost: the invariant says what the    *)
(* form's own request has come to.  There is at most one, the form that    *)
(* sent it is open and counts what was made, and until it is answered well *)
(* the items made are no more than the answers lost.  Type correctness     *)
(* comes at the end.                                                       *)
(***************************************************************************)
EXTENDS ProjectConsole, FiniteSetTheorems, TLAPS

(* A request is a record of these fields; what its list is does not matter. *)
Shaped(a) ==
  /\ a = [n |-> a.n, op |-> a.op, target |-> a.target, key |-> a.key, form |-> a.form,
          tab |-> a.tab, pc |-> a.pc, code |-> a.code, wrote |-> a.wrote]
  /\ a.form \in BOOLEAN /\ a.tab \in BOOLEAN

(* The request of the form that is open. *)
Own(a) == a.form /\ a.op = "add"

Made(a) == (a.pc = "answered" /\ a.code = 201) \/ a.pc = "refetching"

FormInv ==
  /\ form \in BOOLEAN
  /\ made \in [items : Nat, lost : Nat]
  /\ ~ form => made = NoForm
  /\ \A a \in acts : Shaped(a) /\ (a.form => a.tab) /\ (Own(a) => form)
  /\ \A a, b \in acts : Own(a) /\ Own(b) => a = b
  /\ made.items <= 1 + made.lost
  /\ (\A a \in acts : Own(a) => ~ Made(a)) => made.items <= made.lost

-----------------------------------------------------------------------------
(* Changes of one request *)

LEMMA PcChanged ==
  ASSUME NEW a, Shaped(a), NEW pc
  PROVE  LET b == [a EXCEPT !.pc = pc]
         IN Shaped(b) /\ b.form = a.form /\ b.op = a.op /\ b.tab = a.tab /\ b.pc = pc
BY DEF Shaped

LEMMA CodeChanged ==
  ASSUME NEW a, Shaped(a), NEW code
  PROVE  LET b == [a EXCEPT !.code = code]
         IN /\ Shaped(b) /\ b.form = a.form /\ b.op = a.op /\ b.tab = a.tab /\ b.pc = a.pc
            /\ b.code = code
BY DEF Shaped

LEMMA WroteChanged ==
  ASSUME NEW a, Shaped(a), NEW wrote
  PROVE  LET b == [a EXCEPT !.wrote = wrote]
         IN /\ Shaped(b) /\ b.form = a.form /\ b.op = a.op /\ b.tab = a.tab /\ b.pc = a.pc
            /\ b.code = a.code
BY DEF Shaped

LEMMA KeyChanged ==
  ASSUME NEW a, Shaped(a), NEW key
  PROVE  LET b == [a EXCEPT !.key = key]
         IN /\ Shaped(b) /\ b.form = a.form /\ b.op = a.op /\ b.tab = a.tab /\ b.pc = a.pc
            /\ b.code = a.code
BY DEF Shaped

(* An answer: pc and code change at once. *)
LEMMA AnswerSet ==
  ASSUME NEW a, Shaped(a), NEW code
  PROVE  LET b == [a EXCEPT !.pc = "answered", !.code = code]
         IN /\ Shaped(b) /\ b.form = a.form /\ b.op = a.op /\ b.tab = a.tab
            /\ b.pc = "answered" /\ b.code = code
<1> DEFINE c == [a EXCEPT !.pc = "answered"]
           b == [c EXCEPT !.code = code]
<1>1. Shaped(c) /\ c.form = a.form /\ c.op = a.op /\ c.tab = a.tab /\ c.pc = "answered"
  BY PcChanged
<1>2. b = [a EXCEPT !.pc = "answered", !.code = code]
  OBVIOUS
<1> HIDE DEF c
<1>3. /\ Shaped(b) /\ b.form = c.form /\ b.op = c.op /\ b.tab = c.tab /\ b.pc = c.pc
      /\ b.code = code
  BY <1>1, CodeChanged
<1> HIDE DEF b
<1> QED
  BY <1>1, <1>2, <1>3

LEMMA FormChanged ==
  ASSUME NEW a, Shaped(a), NEW f \in BOOLEAN
  PROVE  LET b == [a EXCEPT !.form = f]
         IN Shaped(b) /\ b.form = f /\ b.op = a.op /\ b.tab = a.tab
BY DEF Shaped

LEMMA TabChanged ==
  ASSUME NEW a, Shaped(a), NEW t \in BOOLEAN
  PROVE  LET b == [a EXCEPT !.tab = t] IN Shaped(b) /\ b.form = a.form /\ b.op = a.op /\ b.tab = t
BY DEF Shaped

LEMMA KeptOne ==
  ASSUME NEW a, Shaped(a), NEW c, NEW f \in BOOLEAN, NEW pick
  PROVE  LET b == Kept(a, c, f, pick)
         IN /\ Shaped(b) /\ (b.form => a.form) /\ b.tab = a.tab
            /\ Own(b) <=> Own(a) /\ f
            /\ Own(b) => (Made(b) <=> Made(a))
<1> DEFINE b == Kept(a, c, f, pick)
           drawn == IF a.op = "remove" THEN a.key = ScopeOf(Active(c, pick)) ELSE f
<1>1. /\ ~ a.form \/ drawn => b = a \/ (a.op = "add" /\ b = [a EXCEPT !.key = ScopeOf(Active(c, pick))])
      /\ a.form /\ ~ drawn => b = [a EXCEPT !.form = FALSE]
      /\ ~ a.form => b = a
  BY DEF Kept
<1>2. a.op # "remove" => (drawn <=> f)
  OBVIOUS
<1> HIDE DEF b, drawn
<1>3. CASE ~ a.form
  BY <1>1, <1>3 DEF Own, b
<1>4. CASE a.form /\ ~ drawn
  <2>1. Shaped(b) /\ b.form = FALSE /\ b.op = a.op /\ b.tab = a.tab
    BY <1>1, <1>4, FormChanged
  <2> QED
    BY <1>2, <1>4, <2>1 DEF Own, b
<1>5. CASE a.form /\ drawn
  <2>1. /\ Shaped(b) /\ b.form = a.form /\ b.op = a.op /\ b.tab = a.tab /\ b.pc = a.pc
        /\ b.code = a.code
    <3> DEFINE k == ScopeOf(Active(c, pick))
    <3>1. CASE b = a
      BY <3>1
    <3>2. CASE b = [a EXCEPT !.key = k]
      <4> HIDE DEF k
      <4> QED
        BY <3>2, KeyChanged
    <3> QED
      BY <1>1, <1>5, <3>1, <3>2
  <2> QED
    BY <1>2, <1>5, <2>1 DEF Own, Made, b
<1> QED
  BY <1>3, <1>4, <1>5

-----------------------------------------------------------------------------
(* What the steps have in common *)

(* A form that stays open keeps its request; one that closes forgets it. *)
LEMMA FormRedrawn ==
  ASSUME FormInv, NEW c, NEW f \in BOOLEAN, NEW pick, NEW others \in SUBSET acts,
         Redraw(c, f, pick, others), f => \A a \in acts \ others : ~ Own(a)
  PROVE  FormInv'
<1> DEFINE K(a) == Kept(a, c, f, pick)
<1>1. /\ form' = f /\ acts' = {K(a) : a \in others} /\ made' = IF f THEN made ELSE NoForm
  BY DEF Redraw
<1>2. \A a \in others : /\ Shaped(K(a)) /\ (K(a).form => K(a).tab)
                        /\ Own(K(a)) <=> Own(a) /\ f
                        /\ Own(K(a)) => (Made(K(a)) <=> Made(a))
  BY KeptOne DEF FormInv
<1> HIDE DEF K
<1>3. \A b \in acts' : Shaped(b) /\ (b.form => b.tab) /\ (Own(b) => f)
  BY <1>1, <1>2
<1>4. \A b1, b2 \in acts' : Own(b1) /\ Own(b2) => b1 = b2
  BY <1>1, <1>2 DEF FormInv
<1>5. CASE ~ f
  BY <1>1, <1>3, <1>4, <1>5 DEF FormInv, NoForm
<1>6. CASE f
  <2>1. made' = made
    BY <1>1, <1>6
  <2>2. ASSUME \A b \in acts' : Own(b) => ~ Made(b) PROVE \A a \in acts : Own(a) => ~ Made(a)
    BY <1>1, <1>2, <1>6, <2>2
  <2> QED
    BY <1>1, <1>3, <1>4, <1>6, <2>1, <2>2 DEF FormInv
<1> QED
  BY <1>5, <1>6

(* A request that goes on. *)
LEMMA FormReplaced ==
  ASSUME FormInv, NEW a \in acts, NEW b, Shaped(b), b.form = a.form, b.op = a.op, b.tab = a.tab,
         Replaced(a, b), form' = form, made' \in [items : Nat, lost : Nat],
         IF Own(a)
         THEN made'.items <= 1 + made'.lost /\ (~ Made(b) => made'.items <= made'.lost)
         ELSE made' = made
  PROVE  FormInv'
<1>1. acts' = (acts \ {a}) \union {b}
  BY DEF Replaced
<1>2. Own(b) <=> Own(a)
  BY DEF Own
<1>3. \A x \in acts' : Shaped(x) /\ (x.form => x.tab) /\ (Own(x) => form)
  BY <1>1, <1>2 DEF FormInv
<1>4. \A x, y \in acts' : Own(x) /\ Own(y) => x = y
  BY <1>1, <1>2 DEF FormInv
<1>5. CASE Own(a)
  BY <1>1, <1>2, <1>3, <1>4, <1>5 DEF FormInv
<1>6. CASE ~ Own(a)
  BY <1>1, <1>2, <1>3, <1>4, <1>6 DEF FormInv
<1> QED
  BY <1>5, <1>6

-----------------------------------------------------------------------------
(* The steps *)

LEMMA NothingMade ==
  NoForm \in [items : Nat, lost : Nat] /\ NoForm.items = 0 /\ NoForm.lost = 0
BY DEF NoForm

(* A closed form has neither a request nor anything made. *)
LEMMA FormClosed ==
  ASSUME form' = FALSE, made' = NoForm,
         \A b \in acts' : Shaped(b) /\ b.form = FALSE
  PROVE  FormInv'
<1>1. /\ made'.items = 0 /\ made'.lost = 0
      /\ made' \in [items : Nat, lost : Nat]
  BY NothingMade
<1>2. made'.items <= 1 + made'.lost /\ made'.items <= made'.lost
  BY <1>1
<1>3. \A b \in acts' : Shaped(b) /\ ~ b.form /\ ~ Own(b)
  BY DEF Own
<1>4. (form \in BOOLEAN /\ (~ form => made = NoForm))'
  BY DEF NoForm
<1>5. /\ \A a \in acts' : Shaped(a) /\ (a.form => a.tab) /\ (Own(a) => form')
      /\ \A a, b \in acts' : Own(a) /\ Own(b) => a = b
  BY <1>3
<1> QED
  BY <1>1, <1>2, <1>4, <1>5 DEF FormInv

LEMMA FormInit == Init => FormInv
<1> SUFFICES ASSUME Init PROVE FormInv
  OBVIOUS
<1>1. form = FALSE /\ acts = {} /\ made = NoForm
  BY DEF Init
<1>2. /\ made.items = 0 /\ made.lost = 0
      /\ made \in [items : Nat, lost : Nat]
  BY <1>1, NothingMade
<1>3. made.items <= 1 + made.lost /\ made.items <= made.lost
  BY <1>2
<1>4. form \in BOOLEAN /\ ~ form /\ acts = {}
  BY <1>1
<1> QED
  BY <1>1, <1>2, <1>3, <1>4 DEF FormInv

LEMMA FormStep == FormInv /\ [Next]_vars => FormInv'
<1> SUFFICES ASSUME FormInv, [Next]_vars PROVE FormInv'
  OBVIOUS
<1>1. form \in BOOLEAN /\ acts \in SUBSET acts /\ made.items \in Nat /\ made.lost \in Nat
  BY DEF FormInv
<1>2. CASE UNCHANGED <<form, acts, made>>
  BY <1>2 DEF FormInv
<1>3. ASSUME NEW p \in Pages, Visit(p) PROVE FormInv'
  <2> DEFINE V(a) == [a EXCEPT !.form = FALSE, !.tab = FALSE]
  <2>1. acts' = {V(a) : a \in acts} /\ form' = FALSE /\ made' = NoForm
    BY <1>3 DEF Visit
  <2>2. ASSUME NEW a \in acts PROVE Shaped(V(a)) /\ V(a).form = FALSE
    <3>1. Shaped([a EXCEPT !.form = FALSE]) /\ [a EXCEPT !.form = FALSE].form = FALSE
      BY FormChanged DEF FormInv
    <3> QED
      BY <3>1, TabChanged
  <2> HIDE DEF V
  <2>3. \A b \in acts' : Shaped(b) /\ b.form = FALSE
    BY <2>1, <2>2
  <2> QED
    BY <2>1, <2>3, FormClosed
<1>4. CASE Toggle
  BY <1>1, <1>4, FormRedrawn DEF Toggle
<1>5. CASE Submit
  <2> DEFINE k == IF page = "scope" THEN ScopeOf(Active(cache, picked)) ELSE List(page)
             b == Request("add", k)
  <2>1. /\ form /\ ~ Pending("add", k) /\ acts' = acts \union {b}
        /\ form' = form /\ made' = made
    BY <1>5 DEF Submit
  <2>2. \A a \in acts : ~ Own(a)
    BY <2>1 DEF Pending, Own
  <2>3. Shaped(b) /\ b.form /\ b.tab /\ ~ Made(b)
    BY DEF Request, Shaped, Made
  <2> HIDE DEF b, k
  <2> QED
    BY <2>1, <2>2, <2>3 DEF FormInv
<1>6. CASE Remove
  <2> DEFINE k == ScopeOf(Active(cache, picked))
             b == Request("remove", k)
  <2>1. acts' = acts \union {b} /\ form' = form /\ made' = made
    BY <1>6 DEF Remove
  <2>2. Shaped(b) /\ b.form /\ b.tab /\ ~ Own(b)
    BY DEF Request, Shaped, Own
  <2> HIDE DEF b, k
  <2> QED
    BY <2>1, <2>2 DEF FormInv
<1>7. ASSUME NEW e \in Engagement, Pick(e) PROVE FormInv'
  BY <1>1, <1>7, FormRedrawn DEF Pick
<1>8. ASSUME NEW k \in Keys, Deliver(k) \/ Fail(k) PROVE FormInv'
  BY <1>1, <1>8, FormRedrawn DEF Deliver, Fail
<1>9. ASSUME NEW a \in acts, Handle(a) PROVE FormInv'
  <2>0. Shaped(a)
    BY DEF FormInv
  <2>1. a.pc = "sent" /\ form' = form /\ ~ Made(a)
    BY <1>9 DEF Handle, Made
  <2>2. CASE Replaced(a, [a EXCEPT !.pc = "answered", !.code = 422]) /\ made' = made
    <3> DEFINE code == 422
               b == [a EXCEPT !.pc = "answered", !.code = code]
    <3>0. code = 422
      OBVIOUS
    <3> HIDE DEF code
    <3>1. /\ Shaped(b) /\ b.form = a.form /\ b.op = a.op /\ b.tab = a.tab /\ b.pc = "answered"
          /\ b.code = code
      BY <2>0, AnswerSet
    <3>2. Replaced(a, b)
      BY <2>2, <3>0
    <3> HIDE DEF b
    <3>3. Own(a) => made.items <= made.lost
      BY <2>1 DEF FormInv
    <3> QED
      BY <1>1, <2>0, <2>1, <2>2, <3>0, <3>1, <3>2, <3>3, FormReplaced DEF FormInv
  <2>3. ASSUME NEW w,
               Replaced(a, [a EXCEPT !.pc = "answered", !.code = 201, !.wrote = w]),
               made' = IF a.form /\ a.op = "add" THEN [made EXCEPT !.items = @ + 1] ELSE made
        PROVE  FormInv'
    <3> DEFINE code == 201
               c == [a EXCEPT !.pc = "answered", !.code = code]
               b == [c EXCEPT !.wrote = w]
    <3>0. code = 201
      OBVIOUS
    <3> HIDE DEF code
    <3>6. /\ Shaped(c) /\ c.form = a.form /\ c.op = a.op /\ c.tab = a.tab /\ c.pc = "answered"
          /\ c.code = code
      BY <2>0, AnswerSet
    <3>2. Replaced(a, b)
      BY <2>3, <3>0
    <3> HIDE DEF c
    <3>1. /\ Shaped(b) /\ b.form = a.form /\ b.op = a.op /\ b.tab = a.tab /\ b.pc = "answered"
          /\ b.code = code
      BY <3>6, WroteChanged
    <3> HIDE DEF b
    <3>3. Own(a) => /\ made.items <= made.lost
                    /\ made' \in [items : Nat, lost : Nat]
                    /\ made'.items = made.items + 1 /\ made'.lost = made.lost
      BY <2>1, <2>3 DEF FormInv, Own
    <3>4. ~ Own(a) => made' = made
      BY <2>3 DEF Own
    <3>5. Made(b)
      BY <3>0, <3>1 DEF Made
    <3> QED
      BY <1>1, <2>0, <2>1, <3>1, <3>2, <3>3, <3>4, <3>5, FormReplaced DEF FormInv
  <2> QED
    BY <1>9, <2>2, <2>3 DEF Handle
<1>10. ASSUME NEW a \in acts, Lose(a) PROVE FormInv'
  <2> DEFINE b == [a EXCEPT !.pc = "answered", !.code = 0]
  <2>1. Shaped(a) /\ form' = form
    BY <1>10 DEF Lose, FormInv
  <2>2. /\ Shaped(b) /\ b.form = a.form /\ b.op = a.op /\ b.tab = a.tab /\ b.pc = "answered"
        /\ b.code = 0
    BY <2>1, AnswerSet
  <2>3. Replaced(a, b)
    BY <1>10 DEF Lose
  <2> HIDE DEF b
  <2>4. CASE Own(a) /\ a.pc = "answered"
    <3>1. /\ made' \in [items : Nat, lost : Nat]
          /\ made'.items = made.items /\ made'.lost = made.lost + 1
      BY <1>10, <2>4 DEF Lose, Own, FormInv
    <3> QED
      BY <1>1, <2>1, <2>2, <2>3, <2>4, <3>1, FormReplaced DEF FormInv
  <2>5. CASE ~ (Own(a) /\ a.pc = "answered")
    <3>1. made' = made
      BY <1>10, <2>5 DEF Lose, Own
    <3>2. Own(a) => ~ Made(a)
      BY <1>10, <2>5 DEF Lose, Made
    <3>3. Own(a) => made.items <= made.lost
      BY <3>2 DEF FormInv
    <3> QED
      BY <1>1, <2>1, <2>2, <2>3, <3>1, <3>3, FormReplaced DEF FormInv
  <2> QED
    BY <2>4, <2>5
<1>11. ASSUME NEW a \in acts, Succeed(a) PROVE FormInv'
  <2> DEFINE f == form /\ ~ (a.tab /\ a.op = "add")
  <2>1. Redraw(InvalidatedBy(a), f, picked, acts \ {a})
    BY <1>11 DEF Succeed
  <2>2. Own(a) => ~ f
    BY DEF FormInv, Own
  <2>3. f \in BOOLEAN
    BY <1>1
  <2> HIDE DEF f
  <2> QED
    BY <2>1, <2>2, <2>3, FormRedrawn
<1>12. ASSUME NEW a \in acts, SucceedAndAwait(a) PROVE FormInv'
  <2> DEFINE b == [a EXCEPT !.pc = "refetching"]
  <2>1. Shaped(a) /\ form' = form /\ made' = made /\ Replaced(a, b)
    BY <1>12 DEF SucceedAndAwait, FormInv
  <2>2. Shaped(b) /\ b.form = a.form /\ b.op = a.op /\ b.tab = a.tab /\ b.pc = "refetching"
    BY <2>1, PcChanged
  <2> HIDE DEF b
  <2>3. Made(b)
    BY <2>2 DEF Made
  <2> QED
    BY <2>1, <2>2, <2>3, FormReplaced DEF FormInv
<1>13. ASSUME NEW a \in acts, Settle(a) PROVE FormInv'
  <2> DEFINE f == form /\ ~ a.tab
  <2>1. Redraw(cache, f, picked, acts \ {a})
    BY <1>13 DEF Settle
  <2>2. Own(a) => ~ f
    BY DEF FormInv, Own
  <2>3. f \in BOOLEAN
    BY <1>1
  <2> HIDE DEF f
  <2> QED
    BY <2>1, <2>2, <2>3, FormRedrawn
<1>14. ASSUME NEW a \in acts, Refused(a) PROVE FormInv'
  BY <1>14 DEF Refused, FormInv, Made
<1> QED
  BY <1>2, <1>3, <1>4, <1>5, <1>6, <1>7, <1>8, <1>9, <1>10, <1>11, <1>12, <1>13, <1>14
     DEF Next, vars, Serve, Retry, Change

(* One filling of a form makes one item, however requests, refetches and   *)
(* navigations interleave; only a lost answer lets a retry make another    *)
(* (isPending on the forms' buttons, onDone).                              *)
THEOREM OneItemAForm == Spec => []DoublesOnlyIfLost
<1>1. FormInv => DoublesOnlyIfLost
  BY DEF FormInv, DoublesOnlyIfLost
<1> QED
  BY <1>1, FormInit, FormStep, PTL DEF Spec

-----------------------------------------------------------------------------
(* The types.  What a form posts to depends on the engagements the tab has  *)
(* loaded, so that there is only so much of them has to be shown first: a   *)
(* list is never newer than what is stored and never gets shorter, and each *)
(* engagement is accounted for by a step of the user's or of the others.    *)

Engagements == List("engagements")

(* What an entry shows or is about to show, given the newest version. *)
Within(e, newest) ==
  /\ e.data <= newest /\ e.answer <= newest
  /\ e.fetch = "answered" => e.data <= e.answer

Sound(c) == c \in [Keys -> Entry(Nat)] /\ \A k \in Keys : Within(c[k], stored[k])

(* What one entry may turn into. *)
Grown(d, e, newest) == d \in Entry(Nat) /\ Within(d, newest) /\ e.data <= d.data

(* The requests that have yet to add an engagement. *)
Sending(requests) == {a.n : a \in {b \in requests : b.pc = "sent" /\ b.target = Engagements}}

FormOffered == form => page # "overview" /\ (page = "scope" => Listed(cache) # {})

Numbered(requests) == \A a, b \in requests : a.n = b.n => a = b

Accounted ==
  /\ \A a \in acts : a.n <= used.steps
  /\ stored[Engagements] + Cardinality(Sending(acts)) <= Started + 1 + used.steps

TypeInv ==
  /\ TypeOK
  /\ Sound(cache)
  /\ FormOffered
  /\ Numbered(acts)
  /\ Accounted

LEMMA KeysAre ==
  /\ Engagements \in Keys
  /\ \A e \in Engagement : ScopeOf(e) \in Keys /\ ScopeOf(e) # Engagements
  /\ \A p \in AllPages \ {"overview", "scope"} : List(p) \in Keys
BY DEF Keys, Kinds, AllPages, List, ScopeOf, Engagements

LEMMA EntryOperators ==
  ASSUME NEW e \in Entry(Nat), NEW m \in Nat, Within(e, m), NEW b \in BOOLEAN
  PROVE  /\ Grown(e, e, m)
         /\ Grown(Joined(e), e, m) /\ Grown(Mounted(e), e, m) /\ Grown(Mounted(Aged(e)), e, m)
         /\ Grown(Refetched(e), e, m) /\ Grown(Invalidated(e, b), e, m)
         /\ Grown(Failed(e), e, m)
         /\ e.fetch # "answered" => Grown(Served(e, m), e, m)
         /\ e.fetch = "answered" => Grown(Landed(e), e, m)
<1>1. ASSUME NEW x \in Entry(Nat), Within(x, m)
      PROVE  /\ HasData(x) \in BOOLEAN
             /\ Sent(x) \in Entry(Nat) /\ Within(Sent(x), m) /\ Sent(x).data = x.data
  <2>1. HasData(x) \in BOOLEAN /\ Sent(x) \in Entry(Nat)
    BY DEF Sent, HasData, Entry
  <2>2. Sent(x).data = x.data /\ Sent(x).answer = 0 /\ Sent(x).fetch = "sent"
    BY DEF Sent, Entry
  <2>3. Within(Sent(x), m)
    BY <1>1, <2>2 DEF Within
  <2> QED
    BY <2>1, <2>2, <2>3
<1>2. ASSUME NEW x \in Entry(Nat), Within(x, m)
      PROVE  Joined(x) \in Entry(Nat) /\ Within(Joined(x), m) /\ Joined(x).data = x.data
  BY <1>1, <1>2 DEF Joined
<1>3. ASSUME NEW x \in Entry(Nat), Within(x, m)
      PROVE  Mounted(x) \in Entry(Nat) /\ Within(Mounted(x), m) /\ Mounted(x).data = x.data
  BY <1>2, <1>3 DEF Mounted
<1>4. ASSUME NEW x \in Entry(Nat), Within(x, m)
      PROVE  Refetched(x) \in Entry(Nat) /\ Within(Refetched(x), m) /\ Refetched(x).data = x.data
  BY <1>1, <1>2, <1>4 DEF Refetched
<1>5. Aged(e) \in Entry(Nat) /\ Within(Aged(e), m) /\ Aged(e).data = e.data
  BY DEF Aged, Entry, Within
<1>6. /\ Invalidated(e, b) \in Entry(Nat) /\ Within(Invalidated(e, b), m)
      /\ Invalidated(e, b).data = e.data
  <2> DEFINE marked == [e EXCEPT !.stale = HasData(e)]
  <2>1. marked \in Entry(Nat) /\ Within(marked, m) /\ marked.data = e.data
    BY <1>1 DEF Entry, Within
  <2> HIDE DEF marked
  <2>2. Invalidated(e, b) = IF b THEN Refetched(marked) ELSE marked
    BY DEF Invalidated, marked
  <2> QED
    BY <1>4, <2>1, <2>2
<1>7. Failed(e) \in Entry(Nat) /\ Within(Failed(e), m) /\ Failed(e).data = e.data
  <2>1. Failed(e) \in Entry(Nat)
    BY <1>1 DEF Failed, Entry
  <2>2. Failed(e).data = e.data /\ Failed(e).answer = 0 /\ Failed(e).fetch = "idle"
    BY DEF Failed, Entry
  <2> QED
    BY <2>1, <2>2 DEF Within
<1>8. e.fetch # "answered" => Grown(Served(e, m), e, m)
  <2>1. Served(e, m) \in Entry(Nat) /\ e.data \in Nat
    BY DEF Served, Entry
  <2>2. Served(e, m).data = e.data /\ Served(e, m).answer = m
    BY DEF Served, Entry
  <2> QED
    BY <2>1, <2>2 DEF Within, Grown
<1>9. e.fetch = "answered" => Grown(Landed(e), e, m)
  <2>1. Landed(e) \in Entry(Nat) /\ e.answer \in Nat
    BY DEF Landed, NoEntry, Entry
  <2>2. Landed(e).data = e.answer /\ Landed(e).answer = 0 /\ Landed(e).fetch = "idle"
    BY DEF Landed, NoEntry
  <2> QED
    BY <2>1, <2>2 DEF Within, Grown
<1>10. e.data \in Nat
  BY DEF Entry
<1> QED
  BY <1>2, <1>3, <1>4, <1>5, <1>6, <1>7, <1>8, <1>9, <1>10 DEF Grown

(* Queries that mount take no data away. *)
LEMMA MountKeeps ==
  ASSUME stored \in [Keys -> Nat \ {0}], NEW c, Sound(c), NEW keys, NEW always, Mount(c, keys, always)
  PROVE  cache' \in [Keys -> Entry(Nat)] /\ \A k \in Keys : Grown(cache'[k], c[k], stored[k])
<1>1. PICK old :
        cache' = [k \in Keys |-> IF k \in keys \intersect always THEN Joined(c[k])
                                 ELSE IF k \in old THEN Mounted(Aged(c[k]))
                                 ELSE IF k \in keys THEN Mounted(c[k]) ELSE c[k]]
  BY DEF Mount
<1>2. ASSUME NEW k \in Keys PROVE Grown(cache'[k], c[k], stored[k])
  <2>1. stored[k] \in Nat /\ c[k] \in Entry(Nat) /\ Within(c[k], stored[k])
    BY DEF Sound
  <2>2. /\ Grown(c[k], c[k], stored[k]) /\ Grown(Joined(c[k]), c[k], stored[k])
        /\ Grown(Mounted(c[k]), c[k], stored[k]) /\ Grown(Mounted(Aged(c[k])), c[k], stored[k])
    BY <2>1, EntryOperators
  <2> QED
    BY <1>1, <2>2
<1>3. \A k \in Keys : cache'[k] \in Entry(Nat)
  BY <1>2 DEF Grown
<1> QED
  BY <1>1, <1>2, <1>3

(* One entry changes, or those that a request invalidates. *)
LEMMA OneEntry ==
  ASSUME Sound(cache), NEW k \in Keys, NEW d, Grown(d, cache[k], stored[k])
  PROVE  LET c == [cache EXCEPT ![k] = d]
         IN Sound(c) /\ \A x \in Keys : cache[x].data <= c[x].data
<1>1. \A x \in Keys : cache[x].data \in Nat
  BY DEF Sound, Entry
<1> QED
  BY <1>1 DEF Sound, Grown

LEMMA InvalidatedKeeps ==
  ASSUME stored \in [Keys -> Nat \ {0}], Sound(cache), NEW a
  PROVE  Sound(InvalidatedBy(a)) /\ \A k \in Keys : cache[k].data <= InvalidatedBy(a)[k].data
<1> DEFINE d == InvalidatedBy(a)
<1>1. d = [k \in Keys |-> IF k \in Invalidates(a)
                          THEN Invalidated(cache[k], k \in Watched(page, form, cache, picked))
                          ELSE cache[k]]
  BY DEF InvalidatedBy
<1>2. ASSUME NEW k \in Keys PROVE Grown(d[k], cache[k], stored[k])
  <2> DEFINE b == k \in Watched(page, form, cache, picked)
  <2>1. b \in BOOLEAN
    OBVIOUS
  <2>2. d[k] = IF k \in Invalidates(a) THEN Invalidated(cache[k], b) ELSE cache[k]
    BY <1>1
  <2> HIDE DEF b, d
  <2>3. stored[k] \in Nat /\ cache[k] \in Entry(Nat) /\ Within(cache[k], stored[k])
    BY DEF Sound
  <2>4. Grown(cache[k], cache[k], stored[k]) /\ Grown(Invalidated(cache[k], b), cache[k], stored[k])
    BY <2>1, <2>3, EntryOperators
  <2> QED
    BY <2>2, <2>4
<1> HIDE DEF d
<1> QED
  BY <1>1, <1>2 DEF Sound, Grown, d

-----------------------------------------------------------------------------
(* The engagements *)

LEMMA SendingFinite ==
  ASSUME NEW requests, requests \subseteq Action, NEW m \in Nat, \A a \in requests : a.n <= m
  PROVE  IsFiniteSet(Sending(requests)) /\ Cardinality(Sending(requests)) \in Nat
<1>1. Sending(requests) \subseteq 1 .. m
  <2>1. \A a \in requests : a.n \in Nat /\ a.n >= 1
    BY ConstantsAssumption DEF Action
  <2> QED
    BY <2>1 DEF Sending
<1>2. IsFiniteSet(1 .. m)
  BY FS_Interval
<1>3. IsFiniteSet(Sending(requests))
  BY <1>1, <1>2, FS_Subset
<1> QED
  BY <1>3, FS_CardinalityType

LEMMA EngagementsBounded ==
  ASSUME TypeInv
  PROVE  stored[Engagements] \in Nat /\ stored[Engagements] <= Started + MaxSteps + 1
<1> DEFINE s == stored[Engagements]
           n == Cardinality(Sending(acts))
           u == used.steps
<1>1. s \in Nat /\ u \in 0 .. MaxSteps /\ Started \in Nat /\ MaxSteps \in Nat
  BY KeysAre, ConstantsAssumption DEF TypeInv, TypeOK
<1>2. n \in Nat
  BY <1>1, SendingFinite DEF TypeInv, TypeOK, Accounted
<1>3. s + n <= Started + 1 + u
  BY DEF TypeInv, Accounted
<1> HIDE DEF s, n, u
<1>4. s \in Nat /\ s <= Started + MaxSteps + 1
  BY <1>1, <1>2, <1>3
<1> QED
  BY <1>4 DEF s

LEMMA ListedAre ==
  ASSUME TypeInv, NEW c, Sound(c)
  PROVE  /\ Listed(c) \subseteq Engagement
         /\ Listed(c) # {} <=> c[Engagements].data > 1
<1> DEFINE d == c[Engagements].data
           s == stored[Engagements]
<1>1. d \in Nat /\ d <= s
  BY KeysAre DEF Sound, Within, Entry
<1>2. s \in Nat /\ s <= Started + MaxSteps + 1 /\ Started \in Nat /\ MaxSteps \in Nat
  BY EngagementsBounded, ConstantsAssumption
<1>3. Listed(c) = 1 .. IF d # 0 THEN d - 1 ELSE 0
  BY DEF Listed, HasData, Engagements
<1> HIDE DEF d, s
<1>4. Listed(c) \subseteq Engagement
  BY <1>1, <1>2, <1>3 DEF Engagement
<1>5. Listed(c) # {} <=> d > 1
  <2>1. CASE d > 1
    <3>1. 1 \in Listed(c)
      BY <1>1, <1>3, <2>1
    <3> QED
      BY <2>1, <3>1
  <2>2. CASE ~ d > 1
    BY <1>1, <1>3, <2>2
  <2> QED
    BY <2>1, <2>2
<1> QED
  BY <1>4, <1>5 DEF d

LEMMA ListedGrows ==
  ASSUME TypeInv, NEW c, Sound(c), cache[Engagements].data <= c[Engagements].data,
         Listed(cache) # {}
  PROVE  Listed(c) # {}
<1>1. /\ cache[Engagements].data \in Nat /\ c[Engagements].data \in Nat
      /\ Listed(cache) # {} <=> cache[Engagements].data > 1
      /\ Listed(c) # {} <=> c[Engagements].data > 1
  BY KeysAre, ListedAre DEF TypeInv, Sound, Entry
<1> QED
  BY <1>1

LEMMA ActiveIs ==
  ASSUME TypeInv, NEW c, Sound(c), NEW pick \in Engagement \union {0}, Listed(c) # {}
  PROVE  Active(c, pick) \in Engagement
<1>1. CASE pick # 0
  BY <1>1 DEF Active
<1>2. CASE pick = 0
  <2> DEFINE L == Listed(c)
             n == IF HasData(c[Engagements]) THEN c[Engagements].data - 1 ELSE 0
             newest == CHOOSE e \in L : \A f \in L : f <= e
  <2>1. L = 1 .. n
    BY DEF Listed, Engagements
  <2>2. n \in Int
    BY KeysAre DEF Sound, Entry
  <2>3. L # {} /\ L \subseteq Engagement
    BY ListedAre
  <2> HIDE DEF n, L
  <2>4. n \in L /\ \A f \in L : f <= n
    BY <2>1, <2>2, <2>3
  <2>5. newest \in L
    BY <2>4
  <2>6. Active(c, pick) = newest
    BY <1>2, <2>3 DEF Active, L
  <2> HIDE DEF newest
  <2> QED
    BY <2>3, <2>5, <2>6
<1> QED
  BY <1>1, <1>2

-----------------------------------------------------------------------------
(* The requests *)

(* What is sent afresh has a number of its own. *)
LEMMA RequestIs ==
  ASSUME TypeInv, NEW op \in {"add", "remove"}, NEW k \in Keys, Step
  PROVE  LET b == Request(op, k)
         IN /\ b \in Action /\ b.n = used.steps + 1 /\ b.pc = "sent" /\ b.target = k
            /\ used' \in [steps : 0 .. MaxSteps, turns : 0 .. MaxTurns]
            /\ used'.steps = used.steps + 1
<1> DEFINE u == used.steps
<1>1. used \in [steps : 0 .. MaxSteps, turns : 0 .. MaxTurns] /\ MaxSteps \in Nat
  BY ConstantsAssumption DEF TypeInv, TypeOK
<1>2. u \in 0 .. MaxSteps /\ u + 1 \in 1 .. MaxSteps /\ used' = [used EXCEPT !.steps = u + 1]
  BY <1>1 DEF Step
<1> HIDE DEF u
<1>3. /\ used' \in [steps : 0 .. MaxSteps, turns : 0 .. MaxTurns] /\ used'.steps = u + 1
  BY <1>1, <1>2
<1>4. Request(op, k) = [n |-> u + 1, op |-> op, target |-> k, key |-> k, form |-> TRUE,
                        tab |-> TRUE, pc |-> "sent", code |-> 0, wrote |-> 0]
  BY DEF Request, u
<1>5. Request(op, k) \in Action
  BY <1>2, <1>4 DEF Action
<1> QED
  BY <1>3, <1>4, <1>5 DEF u

Same(b, a) == b \in Action /\ b.n = a.n /\ b.target = a.target

Codes == {0, 201, 422}

LEMMA FormSet ==
  ASSUME NEW a \in Action, NEW f \in BOOLEAN
  PROVE  LET b == [a EXCEPT !.form = f] IN Same(b, a) /\ b.pc = a.pc
BY DEF Action, Same

LEMMA KeySet ==
  ASSUME NEW a \in Action, NEW k \in Keys
  PROVE  LET b == [a EXCEPT !.key = k] IN Same(b, a) /\ b.pc = a.pc
BY DEF Action, Same

(* What redrawing a page does to a request leaves it the number, the target *)
(* and how far it is.                                                       *)
LEMMA KeptIs ==
  ASSUME TypeInv, NEW a \in Action, NEW c, Sound(c), NEW f \in BOOLEAN,
         NEW pick \in Engagement \union {0}, f => (page = "scope" => Listed(c) # {})
  PROVE  LET b == Kept(a, c, f, pick)
         IN b \in Action /\ b.n = a.n /\ b.pc = a.pc /\ b.target = a.target
<1> DEFINE b == Kept(a, c, f, pick)
           drawn == IF a.op = "remove" THEN a.key = ScopeOf(Active(c, pick)) ELSE f
           k == ScopeOf(Active(c, pick))
<1>1. b = IF ~ a.form THEN a
          ELSE IF ~ drawn THEN [a EXCEPT !.form = FALSE]
          ELSE IF a.op = "add" /\ page = "scope" THEN [a EXCEPT !.key = k]
          ELSE a
  BY DEF Kept
<1>2. a.op = "add" => (drawn <=> f)
  OBVIOUS
<1>3. f /\ page = "scope" => k \in Keys
  BY ActiveIs, KeysAre
<1> HIDE DEF b, drawn, k
<1>4. CASE b = a
  BY <1>4 DEF b
<1>5. CASE b = [a EXCEPT !.form = FALSE]
  <2> DEFINE off == FALSE
  <2>1. off \in BOOLEAN /\ b = [a EXCEPT !.form = off]
    BY <1>5
  <2> HIDE DEF off
  <2>2. Same(b, a) /\ b.pc = a.pc
    BY <2>1, FormSet
  <2> QED
    BY <2>2 DEF b, Same
<1>6. CASE b = [a EXCEPT !.key = k] /\ k \in Keys
  <2>1. Same(b, a) /\ b.pc = a.pc
    BY <1>6, KeySet
  <2> QED
    BY <2>1 DEF b, Same
<1> QED
  BY <1>1, <1>2, <1>3, <1>4, <1>5, <1>6

LEMMA TabSet ==
  ASSUME NEW a \in Action, NEW t \in BOOLEAN
  PROVE  LET b == [a EXCEPT !.tab = t] IN Same(b, a) /\ b.pc = a.pc
BY DEF Action, Same

LEMMA WroteSet ==
  ASSUME NEW a \in Action, NEW w \in Nat
  PROVE  LET b == [a EXCEPT !.wrote = w] IN Same(b, a) /\ b.pc = a.pc
BY DEF Action, Same

LEMMA CodeSet ==
  ASSUME NEW a \in Action, NEW code \in Codes
  PROVE  LET b == [a EXCEPT !.code = code] IN Same(b, a) /\ b.pc = a.pc
BY DEF Action, Same, Codes

LEMMA PcSet ==
  ASSUME NEW a \in Action, NEW pc \in {"sent", "answered", "refetching"}
  PROVE  LET b == [a EXCEPT !.pc = pc] IN Same(b, a) /\ b.pc = pc
BY DEF Action, Same

(* What an answer, and what leaving the page, makes of a request. *)
LEMMA Answered ==
  ASSUME NEW a \in Action, NEW code \in Codes
  PROVE  LET b == [a EXCEPT !.pc = "answered", !.code = code] IN Same(b, a) /\ b.pc = "answered"
<1> DEFINE c == [a EXCEPT !.pc = "answered"]
           b == [c EXCEPT !.code = code]
<1>1. Same(c, a) /\ c.pc = "answered"
  BY PcSet
<1>2. b = [a EXCEPT !.pc = "answered", !.code = code]
  OBVIOUS
<1> HIDE DEF c
<1>3. Same(b, c) /\ b.pc = c.pc
  BY <1>1, CodeSet DEF Same
<1> HIDE DEF b
<1> QED
  BY <1>1, <1>2, <1>3 DEF Same

LEMMA Committed ==
  ASSUME NEW a \in Action, NEW code \in Codes, NEW w \in Nat
  PROVE  LET b == [a EXCEPT !.pc = "answered", !.code = code, !.wrote = w]
         IN Same(b, a) /\ b.pc = "answered"
<1> DEFINE c == [a EXCEPT !.pc = "answered", !.code = code]
           b == [c EXCEPT !.wrote = w]
<1>1. Same(c, a) /\ c.pc = "answered"
  BY Answered
<1>2. b = [a EXCEPT !.pc = "answered", !.code = code, !.wrote = w]
  OBVIOUS
<1> HIDE DEF c
<1>3. Same(b, c) /\ b.pc = c.pc
  BY <1>1, WroteSet DEF Same
<1> HIDE DEF b
<1> QED
  BY <1>1, <1>2, <1>3 DEF Same

LEMMA Left ==
  ASSUME NEW a \in Action
  PROVE  LET b == [a EXCEPT !.form = FALSE, !.tab = FALSE] IN Same(b, a) /\ b.pc = a.pc
<1> DEFINE f == FALSE
           c == [a EXCEPT !.form = f]
           b == [c EXCEPT !.tab = f]
<1>1. b = [a EXCEPT !.form = FALSE, !.tab = FALSE] /\ f \in BOOLEAN
  OBVIOUS
<1> HIDE DEF f
<1>2. Same(c, a) /\ c.pc = a.pc
  BY <1>1, FormSet
<1> HIDE DEF c
<1>3. Same(b, c) /\ b.pc = c.pc
  BY <1>1, <1>2, TabSet DEF Same
<1> HIDE DEF b
<1> QED
  BY <1>1, <1>2, <1>3 DEF Same

(* Requests go on, or away: as many engagements are still to come, or less. *)
LEMMA NoneAdded ==
  ASSUME TypeInv, acts' \subseteq Action,
         \A b \in acts' : \E a \in acts :
            b.n = a.n /\ b.target = a.target /\ (b.pc = "sent" => a.pc = "sent"),
         stored'[Engagements] = stored[Engagements], used'.steps = used.steps
  PROVE  Accounted'
<1> DEFINE n == Cardinality(Sending(acts))
           m == Cardinality(Sending(acts'))
           s == stored[Engagements]
           u == used.steps
<1>1. Sending(acts') \subseteq Sending(acts)
  BY DEF Sending
<1>2. u \in Nat /\ s \in Nat /\ Started \in Nat
  BY KeysAre, ConstantsAssumption DEF TypeInv, TypeOK
<1>3. \A a \in acts : a.n <= u
  BY DEF TypeInv, Accounted
<1>4. IsFiniteSet(Sending(acts)) /\ n \in Nat
  BY <1>2, <1>3, SendingFinite DEF TypeInv, TypeOK
<1>5. m \in Nat /\ m <= n
  BY <1>1, <1>4, FS_Subset, FS_CardinalityType
<1>6. s + n <= Started + 1 + u
  BY DEF TypeInv, Accounted
<1>7. \A b \in acts' : b.n <= u
  BY <1>3
<1> HIDE DEF n, m, s, u
<1>8. s + m <= Started + 1 + u
  BY <1>2, <1>4, <1>5, <1>6
<1> QED
  BY <1>7, <1>8 DEF Accounted, m, s, u

(* A request is sent: a step is used for it. *)
LEMMA OneSent ==
  ASSUME TypeInv, NEW b \in Action, b.n = used.steps + 1, acts' = acts \union {b},
         stored' = stored, used'.steps = used.steps + 1
  PROVE  acts' \subseteq Action /\ Numbered(acts') /\ Accounted'
<1> DEFINE n == Cardinality(Sending(acts))
           m == Cardinality(Sending(acts'))
           s == stored[Engagements]
           u == used.steps
<1>1. u \in Nat /\ s \in Nat /\ Started \in Nat /\ acts \subseteq Action
  BY KeysAre, ConstantsAssumption DEF TypeInv, TypeOK
<1>2. \A a \in acts : a.n \in Nat /\ a.n <= u
  BY <1>1, ConstantsAssumption DEF TypeInv, Accounted, Action
<1>3. IsFiniteSet(Sending(acts)) /\ n \in Nat
  BY <1>1, <1>2, SendingFinite
<1>4. Sending(acts') = Sending(acts) \/ Sending(acts') = Sending(acts) \union {b.n}
  BY DEF Sending
<1>5. m \in Nat /\ m <= n + 1
  <2>1. CASE Sending(acts') = Sending(acts)
    BY <1>3, <2>1
  <2>2. CASE Sending(acts') = Sending(acts) \union {b.n}
    <3> DEFINE S == Sending(acts)
               x == b.n
    <3>1. IsFiniteSet(S) /\ Cardinality(S) \in Nat
      BY <1>3
    <3> HIDE DEF S, x
    <3>2. Cardinality(S \union {x}) \in {Cardinality(S), Cardinality(S) + 1}
      BY <3>1, FS_AddElement
    <3>3. Cardinality(S \union {x}) \in Nat /\ Cardinality(S \union {x}) <= Cardinality(S) + 1
      BY <3>1, <3>2
    <3> QED
      BY <2>2, <3>3 DEF S, x
  <2> QED
    BY <1>4, <2>1, <2>2
<1>6. s + n <= Started + 1 + u
  BY DEF TypeInv, Accounted
<1> HIDE DEF n, m, s
<1>7. s + m <= Started + 1 + (u + 1)
  BY <1>1, <1>3, <1>5, <1>6
<1>8. acts' \subseteq Action /\ \A x \in acts' : x.n <= u + 1
  BY <1>1, <1>2
<1>9. Numbered(acts')
  BY <1>1, <1>2 DEF TypeInv, Numbered
<1> QED
  BY <1>7, <1>8, <1>9 DEF Accounted, m, s

(* An engagement is committed: it was still to come. *)
LEMMA OneCommitted ==
  ASSUME TypeInv, NEW a \in acts, a.pc = "sent", NEW b \in Action, b.n = a.n, b.pc # "sent",
         b.target = a.target, Replaced(a, b), stored' = [stored EXCEPT ![a.target] = @ + 1], used' = used
  PROVE  acts' \subseteq Action /\ Numbered(acts') /\ Accounted'
<1> DEFINE n == Cardinality(Sending(acts))
           m == Cardinality(Sending(acts'))
           s == stored[Engagements]
           u == used.steps
<1>0. acts' = (acts \ {a}) \union {b} /\ acts \subseteq Action /\ Numbered(acts)
  BY DEF Replaced, TypeInv, TypeOK
<1>1. u \in Nat /\ s \in Nat /\ Started \in Nat
  BY KeysAre, ConstantsAssumption DEF TypeInv, TypeOK
<1>2. \A x \in acts : x.n <= u
  BY DEF TypeInv, Accounted
<1>3. acts' \subseteq Action /\ Numbered(acts') /\ \A x \in acts' : x.n <= u
  BY <1>0, <1>2 DEF Numbered
<1>4. CASE a.target # Engagements
  <2>1. stored'[Engagements] = stored[Engagements]
    BY <1>4, KeysAre DEF TypeInv, TypeOK
  <2>2. \A x \in acts' : \E y \in acts :
          x.n = y.n /\ x.target = y.target /\ (x.pc = "sent" => y.pc = "sent")
    BY <1>0
  <2> QED
    BY <1>3, <2>1, <2>2, NoneAdded
<1>5. CASE a.target = Engagements
  <2>1. a.n \in Sending(acts)
    BY <1>5 DEF Sending
  <2>2. Sending(acts') = Sending(acts) \ {a.n}
    BY <1>0 DEF Sending, Numbered
  <2>3. IsFiniteSet(Sending(acts)) /\ n \in Nat
    BY <1>0, <1>1, <1>2, SendingFinite
  <2>4. m = n - 1
    BY <2>1, <2>2, <2>3, FS_RemoveElement
  <2>5. stored'[Engagements] = s + 1
    BY <1>5, KeysAre DEF TypeInv, TypeOK
  <2>6. s + n <= Started + 1 + u
    BY DEF TypeInv, Accounted
  <2> HIDE DEF n, m, s, u
  <2>7. (s + 1) + m <= Started + 1 + u
    BY <1>1, <2>3, <2>4, <2>6
  <2> QED
    BY <1>3, <2>5, <2>7 DEF Accounted, m, u
<1> QED
  BY <1>4, <1>5

(* A request that goes on without having changed anything. *)
LEMMA OneGoesOn ==
  ASSUME TypeInv, NEW a \in acts, NEW b \in Action, b.n = a.n, b.pc # "sent",
         b.target = a.target, Replaced(a, b), stored' = stored, used'.steps = used.steps
  PROVE  acts' \subseteq Action /\ Numbered(acts') /\ Accounted'
<1>1. acts' = (acts \ {a}) \union {b} /\ acts \subseteq Action /\ Numbered(acts)
  BY DEF Replaced, TypeInv, TypeOK
<1>2. acts' \subseteq Action /\ Numbered(acts')
  BY <1>1 DEF Numbered
<1>3. \A x \in acts' : \E y \in acts :
        x.n = y.n /\ x.target = y.target /\ (x.pc = "sent" => y.pc = "sent")
  BY <1>1
<1> QED
  BY <1>2, <1>3, NoneAdded

(* Drawing the page anew keeps all types. *)
LEMMA Redrawn ==
  ASSUME TypeInv, NEW c, Sound(c), \A k \in Keys : cache[k].data <= c[k].data,
         NEW f \in BOOLEAN, NEW pick \in Engagement \union {0}, NEW others \in SUBSET acts,
         f => form \/ (page # "overview" /\ (page = "scope" => Listed(cache) # {})),
         Redraw(c, f, pick, others), stored' = stored,
         used' \in [steps : 0 .. MaxSteps, turns : 0 .. MaxTurns], used'.steps = used.steps,
         owed' \in [Keys -> Nat]
  PROVE  TypeInv'
<1>1. /\ page' = page /\ form' = f /\ picked' = pick
      /\ acts' = {Kept(a, c, f, pick) : a \in others}
      /\ made' = IF f THEN made ELSE NoForm
      /\ \E keys : Mount(c, keys, {})
  BY DEF Redraw
<1>2. f => page # "overview" /\ (page = "scope" => Listed(cache) # {})
  BY DEF TypeInv, FormOffered
<1>3. Engagements \in Keys /\ stored \in [Keys -> Nat \ {0}]
  BY KeysAre DEF TypeInv, TypeOK
<1>4. f => (page = "scope" => Listed(c) # {})
  BY <1>2, <1>3, ListedGrows
<1>5. /\ cache' \in [Keys -> Entry(Nat)]
      /\ \A k \in Keys : Grown(cache'[k], c[k], stored[k])
  BY <1>1, <1>3, MountKeeps
<1>6. Sound(cache')
  BY <1>5 DEF Sound, Grown
<1>7. cache[Engagements].data <= cache'[Engagements].data
  <2>1. /\ cache[Engagements].data \in Nat /\ c[Engagements].data \in Nat
        /\ cache'[Engagements].data \in Nat
    BY <1>3, <1>6 DEF TypeInv, Sound, Entry
  <2> QED
    BY <1>3, <1>5, <2>1 DEF Grown
<1>8. f => (page = "scope" => Listed(cache') # {})
  BY <1>2, <1>6, <1>7, ListedGrows
<1>9. \A a \in others :
        LET b == Kept(a, c, f, pick)
        IN b \in Action /\ b.n = a.n /\ b.pc = a.pc /\ b.target = a.target
  BY <1>4, KeptIs DEF TypeInv, TypeOK
<1>10. acts' \subseteq Action
  BY <1>1, <1>9
<1>11. Numbered(acts')
  BY <1>1, <1>9 DEF TypeInv, Numbered
<1>12. \A b \in acts' : \E a \in acts :
         b.n = a.n /\ b.target = a.target /\ (b.pc = "sent" => a.pc = "sent")
  BY <1>1, <1>9
<1>13. Accounted'
  BY <1>10, <1>12, NoneAdded
<1>14. made' \in [items : Nat, lost : Nat]
  BY <1>1, NothingMade DEF TypeInv, TypeOK
<1>15. Sound(cache)'
  BY <1>6 DEF Sound
<1>16. FormOffered'
  BY <1>1, <1>2, <1>8 DEF FormOffered, Listed
<1>17. TypeOK'
  BY <1>1, <1>3, <1>5, <1>10, <1>14 DEF TypeInv, TypeOK
<1> QED
  BY <1>11, <1>13, <1>15, <1>16, <1>17 DEF TypeInv, Numbered

(* The cache changes, and the requests. *)
LEMMA CacheChanges ==
  ASSUME TypeInv, Sound(cache'), \A k \in Keys : cache[k].data <= cache'[k].data,
         UNCHANGED <<stored, page, form, picked, made, used>>,
         owed' \in [Keys -> Nat], acts' \subseteq Action, Numbered(acts'), Accounted'
  PROVE  TypeInv'
<1>1. Sound(cache)'
  BY DEF Sound
<1>2. form => page # "overview" /\ (page = "scope" => Listed(cache') # {})
  BY KeysAre, ListedGrows DEF TypeInv, FormOffered
<1>3. FormOffered'
  BY <1>2 DEF FormOffered, Listed
<1>4. TypeOK'
  BY DEF TypeInv, TypeOK, Sound
<1> QED
  BY <1>1, <1>3, <1>4 DEF TypeInv, Numbered

(* The tab is left as it is. *)
LEMMA TabStays ==
  ASSUME TypeInv, UNCHANGED <<cache, page, form, picked, owed>>,
         stored' \in [Keys -> Nat \ {0}], \A k \in Keys : stored[k] <= stored'[k],
         made' \in [items : Nat, lost : Nat],
         used' \in [steps : 0 .. MaxSteps, turns : 0 .. MaxTurns],
         acts' \subseteq Action, Numbered(acts'), Accounted'
  PROVE  TypeInv'
<1>1. Sound(cache)'
  <2>1. ASSUME NEW k \in Keys PROVE Within(cache[k], stored'[k])
    <3>1. /\ cache[k].data \in Nat /\ cache[k].answer \in Nat
          /\ stored[k] \in Nat /\ stored'[k] \in Nat /\ stored[k] <= stored'[k]
          /\ Within(cache[k], stored[k])
      BY DEF TypeInv, TypeOK, Sound, Entry
    <3> QED
      BY <3>1 DEF Within
  <2> QED
    BY <2>1 DEF TypeInv, Sound
<1>2. FormOffered'
  BY DEF TypeInv, FormOffered, Listed
<1>3. TypeOK'
  BY DEF TypeInv, TypeOK
<1> QED
  BY <1>1, <1>2, <1>3 DEF TypeInv, Numbered

LEMMA UsedKept ==
  ASSUME TypeOK, Turn
  PROVE  used' \in [steps : 0 .. MaxSteps, turns : 0 .. MaxTurns] /\ used'.steps = used.steps
<1> DEFINE t == used.turns
<1>1. /\ MaxSteps \in Nat /\ MaxTurns \in Nat
      /\ used \in [steps : 0 .. MaxSteps, turns : 0 .. MaxTurns]
  BY ConstantsAssumption DEF TypeOK
<1>2. t \in 0 .. MaxTurns /\ t + 1 \in 0 .. MaxTurns /\ used' = [used EXCEPT !.turns = t + 1]
  BY <1>1 DEF Turn
<1> HIDE DEF t
<1> QED
  BY <1>1, <1>2

LEMMA OwingTyped ==
  ASSUME TypeOK, NEW a \in acts
  PROVE  Owing(a) \in [Keys -> Nat]
BY DEF TypeOK, Owing, Action

LEMMA TypeInit == Init => TypeInv
<1> SUFFICES ASSUME Init PROVE TypeInv
  OBVIOUS
<1>1. Started \in Nat /\ MaxSteps \in Nat /\ MaxTurns \in Nat
  BY ConstantsAssumption
<1>2. stored \in [Keys -> Nat \ {0}] /\ stored[Engagements] = Started + 1
  BY <1>1, KeysAre DEF Init, Engagements
<1>3. Sound(cache)
  <2>1. ASSUME NEW k \in Keys
        PROVE  cache[k] \in Entry(Nat) /\ Within(cache[k], stored[k])
    <3>1. NoEntry \in Entry(Nat) /\ stored[k] \in Nat /\ Within(NoEntry, stored[k])
      BY <1>2 DEF NoEntry, Entry, Within
    <3>2. Grown(Mounted(NoEntry), NoEntry, stored[k])
      BY <3>1, EntryOperators
    <3>3. cache[k] \in {NoEntry, Mounted(NoEntry)}
      BY DEF Init
    <3> QED
      BY <3>1, <3>2, <3>3 DEF Grown
  <2>2. cache = [k \in Keys |-> cache[k]]
    BY DEF Init
  <2> QED
    BY <2>1, <2>2 DEF Sound
<1>4. made \in [items : Nat, lost : Nat]
  BY NothingMade DEF Init
<1>5. /\ page \in Pages /\ form = FALSE /\ picked = 0 /\ acts = {}
      /\ owed \in [Keys -> Nat] /\ used \in [steps : 0 .. MaxSteps, turns : 0 .. MaxTurns]
      /\ used.steps = 0
  BY <1>1 DEF Init, Nothing
<1>6. TypeOK
  BY <1>2, <1>3, <1>4, <1>5 DEF TypeOK, Sound
<1>7. Accounted
  <2>1. Sending(acts) = {}
    BY <1>5 DEF Sending
  <2>2. Cardinality(Sending(acts)) = 0
    BY <2>1, FS_EmptySet
  <2> QED
    BY <1>1, <1>2, <1>5, <2>2 DEF Accounted
<1> QED
  BY <1>3, <1>5, <1>6, <1>7 DEF TypeInv, FormOffered, Numbered

LEMMA TypeStep == TypeInv /\ [Next]_vars => TypeInv'
<1> SUFFICES ASSUME TypeInv, [Next]_vars PROVE TypeInv'
  OBVIOUS
<1>1. /\ TypeOK /\ Sound(cache) /\ FormOffered /\ Numbered(acts) /\ Accounted
      /\ form \in BOOLEAN /\ picked \in Engagement \union {0} /\ acts \subseteq Action
      /\ stored \in [Keys -> Nat \ {0}] /\ owed \in [Keys -> Nat]
      /\ made \in [items : Nat, lost : Nat]
      /\ used \in [steps : 0 .. MaxSteps, turns : 0 .. MaxTurns]
  BY DEF TypeInv, TypeOK
<1>2. \A k \in Keys : cache[k].data <= cache[k].data /\ stored[k] <= stored[k]
  BY <1>1 DEF Sound, Entry
<1>3. CASE UNCHANGED vars
  <2>1. Accounted'
    BY <1>1, <1>3 DEF vars, Accounted
  <2> QED
    BY <1>1, <1>2, <1>3, <2>1, TabStays DEF vars
<1>4. ASSUME NEW p \in Pages, Visit(p) PROVE TypeInv'
  <2> DEFINE V(a) == [a EXCEPT !.form = FALSE, !.tab = FALSE]
  <2>1. /\ acts' = {V(a) : a \in acts} /\ form' = FALSE /\ picked' = 0 /\ made' = NoForm
        /\ page' = p /\ stored' = stored /\ Turn
        /\ Mount(cache, Watched(p, FALSE, cache, 0), Always(p))
    BY <1>4 DEF Visit
  <2>2. ASSUME NEW a \in acts
        PROVE  V(a) \in Action /\ V(a).n = a.n /\ V(a).pc = a.pc /\ V(a).target = a.target
    BY <1>1, Left DEF Same
  <2> HIDE DEF V
  <2>3. acts' \subseteq Action /\ Numbered(acts')
    BY <1>1, <2>1, <2>2 DEF Numbered
  <2>4. \A b \in acts' : \E a \in acts :
          b.n = a.n /\ b.target = a.target /\ (b.pc = "sent" => a.pc = "sent")
    BY <2>1, <2>2
  <2>5. used' \in [steps : 0 .. MaxSteps, turns : 0 .. MaxTurns] /\ used'.steps = used.steps
    BY <1>1, <2>1, UsedKept
  <2>6. Accounted'
    BY <2>1, <2>3, <2>4, <2>5, NoneAdded
  <2>7. cache' \in [Keys -> Entry(Nat)] /\ \A k \in Keys : Within(cache'[k], stored[k])
    BY <1>1, <2>1, MountKeeps DEF Grown
  <2>8. Sound(cache)'
    BY <2>1, <2>7 DEF Sound
  <2>9. owed' \in [Keys -> Nat]
    BY <1>1, <1>4 DEF Visit
  <2>10. FormOffered'
    BY <2>1 DEF FormOffered
  <2>11. TypeOK'
    BY <1>1, <2>1, <2>3, <2>5, <2>7, <2>9, NothingMade DEF TypeOK
  <2> QED
    BY <2>3, <2>6, <2>8, <2>10, <2>11 DEF TypeInv, Numbered
<1>5. CASE Toggle
  <2> DEFINE f == ~ form
  <2>1. /\ f \in BOOLEAN /\ Redraw(cache, f, picked, acts)
        /\ f => page # "overview" /\ (page = "scope" => Listed(cache) # {})
        /\ stored' = stored /\ owed' = owed /\ used' = used
    BY <1>1, <1>5 DEF Toggle
  <2> HIDE DEF f
  <2> QED
    BY <1>1, <1>2, <2>1, Redrawn
<1>6. CASE Submit
  <2> DEFINE k == IF page = "scope" THEN ScopeOf(Active(cache, picked)) ELSE List(page)
             op == "add"
             b == Request(op, k)
  <2>1. /\ form /\ Step /\ acts' = acts \union {b} /\ op \in {"add", "remove"}
        /\ UNCHANGED <<stored, cache, page, form, picked, made, owed>>
    BY <1>6 DEF Submit
  <2>2. k \in Keys
    <3>1. page \in AllPages /\ page # "overview" /\ (page = "scope" => Listed(cache) # {})
      BY <1>1, <2>1, ConstantsAssumption DEF TypeOK, FormOffered
    <3> QED
      BY <1>1, <3>1, KeysAre, ActiveIs
  <2> HIDE DEF b, k, op
  <2>3. /\ b \in Action /\ b.n = used.steps + 1
        /\ used' \in [steps : 0 .. MaxSteps, turns : 0 .. MaxTurns]
        /\ used'.steps = used.steps + 1
    BY <2>1, <2>2, RequestIs DEF b
  <2>4. acts' \subseteq Action /\ Numbered(acts') /\ Accounted'
    BY <2>1, <2>3, OneSent
  <2> QED
    BY <1>1, <1>2, <2>1, <2>3, <2>4, TabStays
<1>7. CASE Remove
  <2> DEFINE k == ScopeOf(Active(cache, picked))
             op == "remove"
             b == Request(op, k)
  <2>1. /\ Step /\ acts' = acts \union {b} /\ op \in {"add", "remove"}
        /\ Listed(cache) # {}
        /\ UNCHANGED <<stored, cache, page, form, picked, made, owed>>
    BY <1>7 DEF Remove
  <2>2. k \in Keys
    BY <1>1, <2>1, KeysAre, ActiveIs
  <2> HIDE DEF b, k, op
  <2>3. /\ b \in Action /\ b.n = used.steps + 1
        /\ used' \in [steps : 0 .. MaxSteps, turns : 0 .. MaxTurns]
        /\ used'.steps = used.steps + 1
    BY <2>1, <2>2, RequestIs DEF b
  <2>4. acts' \subseteq Action /\ Numbered(acts') /\ Accounted'
    BY <2>1, <2>3, OneSent
  <2> QED
    BY <1>1, <1>2, <2>1, <2>3, <2>4, TabStays
<1>8. ASSUME NEW e \in Engagement, Pick(e) PROVE TypeInv'
  <2>1. /\ Redraw(cache, form, e, acts) /\ stored' = stored /\ owed' = owed
        /\ used' \in [steps : 0 .. MaxSteps, turns : 0 .. MaxTurns] /\ used'.steps = used.steps
    BY <1>1, <1>8, UsedKept DEF Pick
  <2> QED
    BY <1>1, <1>2, <2>1, Redrawn
<1>9. ASSUME NEW k \in Keys, NEW d, Grown(d, cache[k], stored[k]),
             cache' = [cache EXCEPT ![k] = d],
             UNCHANGED <<stored, page, form, picked, acts, made, owed, used>>
      PROVE  TypeInv'
  <2>1. Sound(cache') /\ \A x \in Keys : cache[x].data <= cache'[x].data
    BY <1>1, <1>9, OneEntry
  <2>2. Accounted'
    BY <1>1, <1>9 DEF Accounted
  <2> QED
    BY <1>1, <1>9, <2>1, <2>2, CacheChanges
<1>10. ASSUME NEW k \in Keys
       PROVE  /\ \A b \in BOOLEAN : Grown(Invalidated(cache[k], b), cache[k], stored[k])
              /\ Grown(Refetched(cache[k]), cache[k], stored[k])
              /\ Grown(Failed(cache[k]), cache[k], stored[k])
              /\ cache[k].fetch # "answered" =>
                   Grown(Served(cache[k], stored[k]), cache[k], stored[k])
              /\ cache[k].fetch = "answered" => Grown(Landed(cache[k]), cache[k], stored[k])
  <2>1. cache[k] \in Entry(Nat) /\ stored[k] \in Nat /\ Within(cache[k], stored[k])
    BY <1>1 DEF Sound
  <2> QED
    BY <2>1, EntryOperators
<1>11. ASSUME NEW k \in Keys, Serve(k) PROVE TypeInv'
  <2>1. /\ cache' = [cache EXCEPT ![k] = Served(cache[k], stored[k])]
        /\ cache[k].fetch # "answered"
    BY <1>11 DEF Serve
  <2> QED
    BY <1>9, <1>10, <1>11, <2>1 DEF Serve
<1>12. ASSUME NEW k \in Keys, Retry(k) PROVE TypeInv'
  <2>1. cache' = [cache EXCEPT ![k] = Refetched(cache[k])]
    BY <1>12 DEF Retry
  <2> QED
    BY <1>9, <1>10, <1>12, <2>1 DEF Retry
<1>13. ASSUME NEW k \in Keys, NEW d, Grown(d, cache[k], stored[k]),
              Redraw([cache EXCEPT ![k] = d], form, picked, acts),
              stored' = stored, owed' = owed,
              used' \in [steps : 0 .. MaxSteps, turns : 0 .. MaxTurns], used'.steps = used.steps
       PROVE  TypeInv'
  <2> DEFINE c == [cache EXCEPT ![k] = d]
  <2>1. Sound(c) /\ \A x \in Keys : cache[x].data <= c[x].data
    BY <1>1, <1>13, OneEntry
  <2> HIDE DEF c
  <2> QED
    BY <1>1, <1>13, <2>1, Redrawn DEF c
<1>14. ASSUME NEW k \in Keys, Deliver(k) PROVE TypeInv'
  <2>1. /\ Redraw([cache EXCEPT ![k] = Landed(cache[k])], form, picked, acts)
        /\ cache[k].fetch = "answered"
    BY <1>14 DEF Deliver
  <2> QED
    BY <1>1, <1>10, <1>13, <1>14, <2>1 DEF Deliver
<1>15. ASSUME NEW k \in Keys, Fail(k) PROVE TypeInv'
  <2>1. /\ Redraw([cache EXCEPT ![k] = Failed(cache[k])], form, picked, acts)
        /\ used' \in [steps : 0 .. MaxSteps, turns : 0 .. MaxTurns] /\ used'.steps = used.steps
    BY <1>1, <1>15, UsedKept DEF Fail
  <2> QED
    BY <1>1, <1>10, <1>13, <1>15, <2>1 DEF Fail
<1>16. ASSUME NEW k \in Keys, Change(k) PROVE TypeInv'
  <2> DEFINE s == stored[Engagements]
             n == Cardinality(Sending(acts))
             u == used.steps
  <2>1. /\ stored' = [stored EXCEPT ![k] = stored[k] + 1] /\ used' = [used EXCEPT !.steps = u + 1]
        /\ u < MaxSteps
        /\ UNCHANGED <<cache, page, form, picked, acts, made, owed>>
    BY <1>16 DEF Change, Step
  <2>2. /\ stored' \in [Keys -> Nat \ {0}] /\ \A x \in Keys : stored[x] <= stored'[x]
        /\ stored'[Engagements] \in {s, s + 1}
    BY <1>1, <2>1, KeysAre
  <2>3. u \in 0 .. MaxSteps /\ MaxSteps \in Nat /\ s \in Nat /\ Started \in Nat
    BY <1>1, KeysAre, ConstantsAssumption
  <2>4. used' \in [steps : 0 .. MaxSteps, turns : 0 .. MaxTurns] /\ used'.steps = u + 1
    <3>1. u + 1 \in 0 .. MaxSteps
      BY <2>1, <2>3
    <3> QED
      BY <1>1, <2>1, <3>1
  <2>5. \A a \in acts : a.n \in Nat /\ a.n <= u
    BY <1>1, ConstantsAssumption DEF Accounted, Action
  <2>6. n \in Nat
    BY <1>1, <2>3, <2>5, SendingFinite
  <2>7. s + n <= Started + 1 + u
    BY <1>1 DEF Accounted
  <2> HIDE DEF s, n
  <2>8. stored'[Engagements] + n <= Started + 1 + (u + 1)
    BY <2>2, <2>3, <2>6, <2>7
  <2>9. \A a \in acts : a.n <= u + 1
    BY <2>3, <2>5
  <2>10. Accounted'
    BY <2>1, <2>4, <2>8, <2>9 DEF Accounted, n
  <2> QED
    BY <1>1, <2>1, <2>2, <2>4, <2>10, TabStays
<1>17. ASSUME NEW a \in acts, Handle(a) PROVE TypeInv'
  <2>1. /\ a \in Action /\ a.pc = "sent" /\ a.target \in Keys
        /\ UNCHANGED <<cache, page, form, picked, owed, used>>
    BY <1>1, <1>17 DEF Handle, Action
  <2>2. CASE /\ Replaced(a, [a EXCEPT !.pc = "answered", !.code = 422])
             /\ UNCHANGED <<stored, made>>
    <3> DEFINE code == 422
               b == [a EXCEPT !.pc = "answered", !.code = code]
    <3>0. code \in Codes /\ Replaced(a, b)
      BY <2>2 DEF Codes
    <3> HIDE DEF code
    <3>1. Same(b, a) /\ b.pc = "answered"
      BY <2>1, <3>0, Answered
    <3> HIDE DEF b
    <3>2. acts' \subseteq Action /\ Numbered(acts') /\ Accounted'
      BY <2>1, <2>2, <3>0, <3>1, OneGoesOn DEF Same
    <3> QED
      BY <1>1, <1>2, <2>1, <2>2, <3>2, TabStays
  <2>3. CASE /\ stored' = [stored EXCEPT ![a.target] = @ + 1]
             /\ Replaced(a, [a EXCEPT !.pc = "answered", !.code = 201,
                                      !.wrote = stored[a.target] + 1])
             /\ made' = IF a.form /\ a.op = "add" THEN [made EXCEPT !.items = @ + 1] ELSE made
    <3> DEFINE w == stored[a.target] + 1
               code == 201
               b == [a EXCEPT !.pc = "answered", !.code = code, !.wrote = w]
    <3>1. w \in Nat /\ code \in Codes
      BY <1>1, <2>1 DEF Codes
    <3>2. Replaced(a, b)
      BY <2>3
    <3> HIDE DEF w, code
    <3>3. Same(b, a) /\ b.pc = "answered"
      BY <2>1, <3>1, Committed
    <3> HIDE DEF b
    <3>4. acts' \subseteq Action /\ Numbered(acts') /\ Accounted'
      BY <2>1, <2>3, <3>2, <3>3, OneCommitted DEF Same
    <3>5. stored' \in [Keys -> Nat \ {0}] /\ \A k \in Keys : stored[k] <= stored'[k]
      BY <1>1, <2>1, <2>3
    <3>6. made' \in [items : Nat, lost : Nat]
      BY <1>1, <2>3
    <3> QED
      BY <1>1, <2>1, <3>4, <3>5, <3>6, TabStays
  <2> QED
    BY <1>17, <2>2, <2>3 DEF Handle
<1>18. ASSUME NEW a \in acts, Lose(a) PROVE TypeInv'
  <2> DEFINE code == 0
             b == [a EXCEPT !.pc = "answered", !.code = code]
  <2>1. /\ Replaced(a, b) /\ Turn /\ UNCHANGED <<stored, cache, page, form, picked, owed>>
        /\ code \in Codes /\ a \in Action
    BY <1>1, <1>18 DEF Lose, Codes
  <2> HIDE DEF code
  <2>2. Same(b, a) /\ b.pc = "answered"
    BY <2>1, Answered
  <2> HIDE DEF b
  <2>3. used' \in [steps : 0 .. MaxSteps, turns : 0 .. MaxTurns] /\ used'.steps = used.steps
    BY <1>1, <2>1, UsedKept
  <2>4. acts' \subseteq Action /\ Numbered(acts') /\ Accounted'
    BY <2>1, <2>2, <2>3, OneGoesOn DEF Same
  <2>5. made' \in [items : Nat, lost : Nat]
    BY <1>1, <1>18 DEF Lose
  <2> QED
    BY <1>1, <1>2, <2>1, <2>3, <2>4, <2>5, TabStays
<1>19. ASSUME NEW a \in acts, Succeed(a) PROVE TypeInv'
  <2> DEFINE f == form /\ ~ (a.tab /\ a.op = "add")
             c == InvalidatedBy(a)
             others == acts \ {a}
  <2>1. /\ Redraw(c, f, picked, others) /\ UNCHANGED <<stored, used>> /\ owed' = Owing(a)
        /\ f \in BOOLEAN /\ (f => form) /\ others \in SUBSET acts
    BY <1>19 DEF Succeed
  <2>2. Sound(c) /\ \A k \in Keys : cache[k].data <= c[k].data
    BY <1>1, InvalidatedKeeps
  <2>3. owed' \in [Keys -> Nat]
    BY <1>1, <2>1, OwingTyped
  <2> HIDE DEF f, c, others
  <2> QED
    BY <1>1, <2>1, <2>2, <2>3, Redrawn
<1>20. ASSUME NEW a \in acts, SucceedAndAwait(a) PROVE TypeInv'
  <2> DEFINE b == [a EXCEPT !.pc = "refetching"]
  <2>1. /\ Replaced(a, b) /\ cache' = InvalidatedBy(a) /\ owed' = Owing(a)
        /\ UNCHANGED <<stored, page, form, picked, made, used>>
    BY <1>20 DEF SucceedAndAwait
  <2>2. b \in Action /\ b.n = a.n /\ b.pc # "sent" /\ b.target = a.target
    BY <1>1 DEF Action
  <2> HIDE DEF b
  <2>3. Sound(cache') /\ \A k \in Keys : cache[k].data <= cache'[k].data
    BY <1>1, <2>1, InvalidatedKeeps
  <2>4. acts' \subseteq Action /\ Numbered(acts') /\ Accounted'
    BY <2>1, <2>2, OneGoesOn
  <2>5. owed' \in [Keys -> Nat]
    BY <1>1, <2>1, OwingTyped
  <2> QED
    BY <2>1, <2>3, <2>4, <2>5, CacheChanges
<1>21. ASSUME NEW a \in acts, Settle(a) PROVE TypeInv'
  <2> DEFINE f == form /\ ~ a.tab
             others == acts \ {a}
  <2>1. /\ Redraw(cache, f, picked, others) /\ UNCHANGED <<stored, owed, used>>
        /\ f \in BOOLEAN /\ (f => form) /\ others \in SUBSET acts
    BY <1>21 DEF Settle
  <2> HIDE DEF f, others
  <2> QED
    BY <1>1, <1>2, <2>1, Redrawn
<1>22. ASSUME NEW a \in acts, Refused(a) PROVE TypeInv'
  <2>1. /\ acts' \subseteq acts /\ UNCHANGED <<stored, cache, page, form, picked, made, owed, used>>
    BY <1>22 DEF Refused
  <2>2. acts' \subseteq Action /\ Numbered(acts')
    BY <1>1, <2>1 DEF Numbered
  <2>3. Accounted'
    BY <2>1, <2>2, NoneAdded
  <2> QED
    BY <1>1, <1>2, <2>1, <2>2, <2>3, TabStays
<1> QED
  BY <1>3, <1>4, <1>5, <1>6, <1>7, <1>8, <1>11, <1>12, <1>14, <1>15, <1>16, <1>17, <1>18,
     <1>19, <1>20, <1>21, <1>22 DEF Next

(* Every variable of the tab, of its cache and of the lists keeps to its    *)
(* type: whatever a form, a query or a request names is one of the lists    *)
(* the pages know (the query keys of ProjectDetail, Projects and Reports).  *)
THEOREM TypeCorrect == Spec => []TypeOK
<1>1. TypeInv => TypeOK
  BY DEF TypeInv
<1> QED
  BY <1>1, TypeInit, TypeStep, PTL DEF Spec

==============================================================================
