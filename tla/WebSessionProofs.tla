--------------------------- MODULE WebSessionProofs ---------------------------
(***************************************************************************)
(* Proofs about WebSession: type correctness, that an address has one      *)
(* account, that a tab which signed out forgets, that a reload keeps the   *)
(* rights of a session, and that no tab acts for anyone but whom it shows. *)
(***************************************************************************)
EXTENDS WebSession, TLAPS

(* What a request holds follows from its kind and its answer. *)
ReqOK(r) ==
  /\ r.op \in Forms => r.user \in Emails
  /\ r.op \in Forms => r.sid = NoOne
  /\ r.pc = "looked" => r.op = "register"
  /\ r.pc \in {"sent", "looked"} => r.code = 0
  /\ r.new # NoOne => r.op = "login" /\ r.code = 200
  /\ r.op = "login" /\ r.code = 200 => r.new \in Sids
  /\ r.op \in {"me", "query"} /\ r.code = 200 => r.got \in Emails

Good == {r \in Request : ReqOK(r)}

Slots == [Reqs -> Good \union {Idle}]

(* The part of it that no tab touches. *)
ServerInv ==
  /\ accounts \in [Emails -> Nat]
  /\ session \in [Sids -> [user : User, status : {"free", "live", "expired", "gone"}]]
  /\ \A s \in Sids : session[s].status = "live" => session[s].user \in Emails
  /\ txns \subseteq Transaction
  /\ cookie \in Token

TypeInv ==
  /\ ServerInv
  /\ tab \in [Tabs -> Tab]
  /\ req \in Slots
  /\ used \in [sent : 0 .. MaxSent, moves : 0 .. MaxMoves, faults : 0 .. MaxFaults]

-----------------------------------------------------------------------------
(* The operators on tabs and requests *)

LEMMA FreshTab == NewTab \in Tab
BY DEF NewTab, Tab, Token, User

LEMMA TabOperators ==
  ASSUME NEW r \in Tab
  PROVE  /\ \A home \in BOOLEAN : Guarded(r, home) \in Tab
         /\ Reloaded(r) \in Tab /\ Cleared(r) \in Tab
         /\ Away(r) \in Tab /\ SignedOut(r) \in Tab
<1>1. \A home \in BOOLEAN : Guarded(r, home) \in Tab
  BY DEF Tab, Guarded, User
<1>2. Reloaded(r) \in Tab
  BY DEF Tab, Reloaded, NewTab, User
<1>3. Cleared(r) \in Tab
  BY DEF Tab, Cleared, User, Token
<1>4. \A a \in Tab : Away(a) \in Tab
  BY DEF Tab, Away, User
<1>5. SignedOut(r) \in Tab
  BY <1>3, <1>4 DEF Tab, SignedOut
<1> QED
  BY <1>1, <1>2, <1>3, <1>4, <1>5

LEMMA SignedInTab ==
  ASSUME NEW r \in Tab, NEW s \in Token, NEW e \in User, NEW w \in BOOLEAN
  PROVE  SignedIn(r, s, e, w) \in Tab
<1> DEFINE a == [r EXCEPT !.csrf = s, !.user = e, !.settled = cookie = s]
<1>1. a \in Tab
  BY DEF Tab
<1>2. Guarded(a, TRUE) \in Tab
  BY <1>1, TabOperators
<1>3. \A g \in Tab, b \in BOOLEAN : [g EXCEPT !.renamed = b] \in Tab
  BY DEF Tab
<1>4. SignedIn(r, s, e, w) = IF r.home THEN [a EXCEPT !.renamed = w]
                             ELSE [Guarded(a, TRUE) EXCEPT !.renamed = FALSE]
  BY DEF SignedIn
<1> HIDE DEF a
<1> QED
  BY <1>1, <1>2, <1>3, <1>4

LEMMA SignedInFields ==
  ASSUME NEW r \in Tab, NEW s \in Token, NEW e \in User, e # NoOne, NEW w \in BOOLEAN
  PROVE  /\ SignedIn(r, s, e, w).csrf = s /\ SignedIn(r, s, e, w).user = e
         /\ SignedIn(r, s, e, w).settled = (cookie = s)
         /\ SignedIn(r, s, e, w).out => r.home /\ r.out
         /\ r.home => SignedIn(r, s, e, w).renamed = w
<1> DEFINE a == [r EXCEPT !.csrf = s, !.user = e, !.settled = cookie = s]
           g == Guarded(a, TRUE)
<1>1. /\ a \in Tab /\ a.csrf = s /\ a.user = e /\ a.settled = (cookie = s)
      /\ a.out = r.out
  BY DEF Tab
<1>2. SignedIn(r, s, e, w) = IF r.home THEN [a EXCEPT !.renamed = w]
                             ELSE [g EXCEPT !.renamed = FALSE]
  BY DEF SignedIn
<1> HIDE DEF a
<1>3. /\ g \in Tab /\ g.csrf = s /\ g.user = e /\ ~ g.out
      /\ g.settled = (cookie = s)
  <2>1. g = [a EXCEPT !.page = "app", !.home = TRUE, !.auth = "authed", !.shown = a.user,
                      !.out = FALSE]
    BY <1>1 DEF Guarded
  <2>2. g \in Tab
    BY <1>1, <2>1 DEF Tab
  <2> QED
    BY <1>1, <2>1, <2>2 DEF Tab
<1> HIDE DEF g
<1> QED
  BY <1>1, <1>2, <1>3 DEF Tab

LEMMA SignedInPlace ==
  ASSUME NEW r \in Tab, NEW s \in Token, NEW e \in User, e # NoOne, NEW w \in BOOLEAN,
         r.home => r.page = "app"
  PROVE  SignedIn(r, s, e, w).page = "app"
<1> DEFINE a == [r EXCEPT !.csrf = s, !.user = e, !.settled = cookie = s]
           g == Guarded(a, TRUE)
<1>1. a \in Tab /\ a.user = e /\ a.page = r.page
  BY DEF Tab
<1>2. SignedIn(r, s, e, w) = IF r.home THEN [a EXCEPT !.renamed = w]
                             ELSE [g EXCEPT !.renamed = FALSE]
  BY DEF SignedIn
<1> HIDE DEF a
<1>3. g \in Tab /\ g.page = "app"
  <2>1. g = [a EXCEPT !.page = "app", !.home = TRUE, !.auth = "authed", !.shown = a.user,
                      !.out = FALSE]
    BY <1>1 DEF Guarded
  <2> QED
    BY <1>1, <2>1 DEF Tab
<1> HIDE DEF g
<1> QED
  BY <1>1, <1>2, <1>3 DEF Tab

LEMMA KnownTab ==
  ASSUME NEW r \in Tab, NEW e \in User, NEW awaited \in BOOLEAN
  PROVE  Known(r, e, awaited) \in Tab
BY DEF Known, Tab

LEMMA FilledTab ==
  ASSUME NEW r \in Tab, NEW e \in Emails
  PROVE  Filled(r, e) \in Tab
<1> DEFINE c == r.cache \union {e}
<1>1. c \in SUBSET Emails
  BY DEF Tab
<1>2. Filled(r, e) = [r EXCEPT !.cache = c]
  BY DEF Filled
<1> HIDE DEF c
<1> QED
  BY <1>1, <1>2 DEF Tab

LEMMA FetchGood ==
  ASSUME TypeInv, NEW t \in Tabs, NEW op \in Kinds, NEW e \in User, op \in Forms => e \in Emails
  PROVE  Fetch(t, op, e) \in Good
<1>1. tab[t] \in Tab /\ cookie \in Token
  BY DEF TypeInv, ServerInv
<1>2. Fetch(t, op, e) \in Request
  BY <1>1 DEF Fetch, Request, Tab, Kinds, User, Token
<1>3. ReqOK(Fetch(t, op, e))
  BY DEF ReqOK, Fetch, Forms
<1> QED
  BY <1>2, <1>3 DEF Good

LEMMA FreeSlot == Free # {} => (CHOOSE q \in Free : TRUE) \in Free
OBVIOUS

(* Two requests that differ at most in whether their sender is still there. *)
Same(r, s) ==
  /\ r.op = s.op /\ r.pc = s.pc /\ r.tab = s.tab /\ r.user = s.user /\ r.sid = s.sid
  /\ r.token = s.token /\ r.as = s.as /\ r.code = s.code /\ r.got = s.got /\ r.new = s.new

LEMMA Outliving ==
  ASSUME NEW r \in Good, NEW what \in {"component", "page"}
  PROVE  /\ [r EXCEPT !.gone = what] \in Good
         /\ Same([r EXCEPT !.gone = what], r)
         /\ [r EXCEPT !.gone = what].gone = what
BY DEF Good, Request, ReqOK, Same

LEMMA OutliveOne ==
  ASSUME TypeInv, NEW t \in Tabs, NEW ops \in SUBSET Kinds, NEW what \in {"component", "page"},
         NEW q \in Reqs
  PROVE  /\ Outlive(t, ops, what)[q] \in Good \union {Idle}
         /\ req[q] = Idle => Outlive(t, ops, what)[q] = Idle
         /\ req[q] \in Good =>
              /\ Outlive(t, ops, what)[q] \in Good
              /\ Same(Outlive(t, ops, what)[q], req[q])
              /\ IF req[q].op \in ops /\ req[q].tab = t /\ req[q].gone # "page"
                 THEN Outlive(t, ops, what)[q].gone = what
                 ELSE Outlive(t, ops, what)[q].gone = req[q].gone
<1>1. req[q] \in Good \union {Idle}
  BY DEF TypeInv, Slots
<1>2. CASE req[q].op \in ops /\ req[q].tab = t /\ req[q].gone # "page"
  <2>1. req[q] \in Good
    BY <1>1, <1>2 DEF Idle, Kinds
  <2>2. req[q] # Idle
    BY <1>2 DEF Idle, Kinds
  <2>3. Outlive(t, ops, what)[q] = [req[q] EXCEPT !.gone = what]
    BY <1>2 DEF Outlive
  <2> DEFINE r == [req[q] EXCEPT !.gone = what]
  <2>4. r \in Good /\ Same(r, req[q]) /\ r.gone = what
    BY <2>1, Outliving
  <2> HIDE DEF r
  <2>5. Outlive(t, ops, what)[q] = r
    BY <2>3 DEF r
  <2> QED
    BY <1>2, <2>1, <2>2, <2>4, <2>5
<1>3. CASE ~ (req[q].op \in ops /\ req[q].tab = t /\ req[q].gone # "page")
  <2>1. Outlive(t, ops, what)[q] = req[q]
    BY <1>3 DEF Outlive
  <2> QED
    BY <1>1, <1>3, <2>1 DEF Same
<1> QED
  BY <1>2, <1>3

LEMMA OutliveGood ==
  ASSUME TypeInv, NEW t \in Tabs, NEW ops \in SUBSET Kinds, NEW what \in {"component", "page"}
  PROVE  Outlive(t, ops, what) \in Slots
<1> DEFINE f == Outlive(t, ops, what)
<1>1. f = [q \in Reqs |-> f[q]]
  BY DEF Outlive
<1>2. ASSUME NEW q \in Reqs PROVE f[q] \in Good \union {Idle}
  BY OutliveOne
<1> HIDE DEF f
<1>3. f \in Slots
  BY <1>1, <1>2 DEF Slots
<1> QED
  BY <1>3 DEF f

LEMMA SendGood ==
  ASSUME NEW slots \in Slots, NEW r \in Good, Send(slots, r)
  PROVE  req' \in Slots
BY FreeSlot DEF Send, Free, Slots

Codes == {0, 200, 401, 403, 409, 500}
Progress == {"sent", "looked", "answered", "arrived"}

LEMMA MovedOn ==
  ASSUME NEW r \in Request, NEW pc \in Progress
  PROVE  [r EXCEPT !.pc = pc] \in Request
BY DEF Request, Progress

LEMMA Coded ==
  ASSUME NEW r \in Request, NEW code \in Codes
  PROVE  [r EXCEPT !.code = code] \in Request
BY DEF Request, Codes

LEMMA AnsweredType ==
  ASSUME NEW r \in Request, NEW code \in Codes
  PROVE  [r EXCEPT !.pc = "answered", !.code = code] \in Request
<1>1. [r EXCEPT !.pc = "answered"] \in Request
  BY MovedOn DEF Progress
<1> QED
  BY <1>1, Coded

LEMMA AnsweredFields ==
  ASSUME NEW r \in Request, NEW code \in Codes
  PROVE  /\ Answered(r, code) \in Request
         /\ Answered(r, code).pc = "answered" /\ Answered(r, code).code = code
         /\ Answered(r, code).op = r.op /\ Answered(r, code).tab = r.tab
         /\ Answered(r, code).user = r.user /\ Answered(r, code).sid = r.sid
         /\ Answered(r, code).token = r.token /\ Answered(r, code).as = r.as
         /\ Answered(r, code).got = r.got /\ Answered(r, code).new = r.new
         /\ Answered(r, code).gone = r.gone
<1>1. Answered(r, code) \in Request
  BY AnsweredType DEF Answered
<1> QED
  BY <1>1 DEF Answered, Request

(* The answers that bring something: a new session, or who is signed in. *)
LEMMA Granted ==
  ASSUME NEW r \in Good, r.op = "login", NEW s \in Sids
  PROVE  [Answered(r, 200) EXCEPT !.new = s] \in Good
<1> DEFINE a == Answered(r, 200)
<1>1. a \in Request /\ a.op = r.op /\ a.user = r.user /\ a.sid = r.sid /\ a.pc = "answered" /\ a.code = 200
  BY AnsweredFields DEF Good, Codes
<1>2. r.user \in Emails /\ r.sid = NoOne
  BY DEF Good, ReqOK, Forms
<1> HIDE DEF a
<1>3. [a EXCEPT !.new = s] \in Request
  BY <1>1 DEF Request, Token
<1>4. ReqOK([a EXCEPT !.new = s])
  BY <1>1, <1>2 DEF ReqOK, Request
<1> QED
  BY <1>3, <1>4 DEF Good, a

LEMMA Told ==
  ASSUME NEW r \in Good, r.op \in {"me", "query"}, r.pc = "sent", NEW e \in Emails
  PROVE  [Answered(r, 200) EXCEPT !.got = e] \in Good
<1> DEFINE a == Answered(r, 200)
<1>1. /\ a \in Request /\ a.op = r.op /\ a.user = r.user /\ a.sid = r.sid /\ a.pc = "answered"
      /\ a.code = 200 /\ a.new = r.new
  BY AnsweredFields DEF Good, Codes
<1>2. r.new = NoOne
  BY DEF Good, ReqOK
<1> HIDE DEF a
<1>3. [a EXCEPT !.got = e] \in Request
  BY <1>1 DEF Request, User
<1>4. ReqOK([a EXCEPT !.got = e])
  BY <1>1, <1>2 DEF ReqOK, Request, Forms
<1> QED
  BY <1>3, <1>4 DEF Good, a

LEMMA AnswerGood ==
  ASSUME TypeInv, NEW q \in Reqs, req[q] \in Good, NEW code \in Codes,
         req[q].pc \in {"sent", "looked"},
         code = 200 => req[q].op \notin {"login", "me", "query"},
         Answer(q, code)
  PROVE  req' \in Slots
<1> DEFINE r == Answered(req[q], code)
<1>1. /\ r \in Request /\ r.op = req[q].op /\ r.user = req[q].user /\ r.sid = req[q].sid
      /\ r.new = req[q].new /\ r.got = req[q].got /\ r.pc = "answered" /\ r.code = code
  BY AnsweredFields DEF Good
<1>2. req' = [req EXCEPT ![q] = r]
  BY DEF Answer
<1> HIDE DEF r
<1>3. r \in Good
  BY <1>1 DEF Good, ReqOK
<1> QED
  BY <1>2, <1>3 DEF Slots, TypeInv

(* A slot that is at work is not idle. *)
LEMMA AtWork ==
  ASSUME TypeInv, NEW q \in Reqs, req[q].pc # "idle"
  PROVE  req[q] \in Good
BY DEF TypeInv, Slots, Idle

LEMMA SetAside ==
  ASSUME NEW slots \in Slots, NEW q \in Reqs, NEW r \in Good \union {Idle}
  PROVE  [slots EXCEPT ![q] = r] \in Slots
BY DEF Slots

LEMMA TypeInvOK == TypeInv => TypeOK
BY DEF ServerInv, TypeInv, TypeOK, Slots, Good

LEMMA BoundsKept ==
  ASSUME TypeInv, Click \/ Move \/ Fault
  PROVE  used' \in [sent : 0 .. MaxSent, moves : 0 .. MaxMoves, faults : 0 .. MaxFaults]
BY ConstantsAssumption DEF TypeInv, Click, Move, Fault


-----------------------------------------------------------------------------
(* Type correctness *)

LEMMA TypeInit == Init => TypeInv
<1> SUFFICES ASSUME Init PROVE TypeInv
  OBVIOUS
<1>1. ServerInv
  BY DEF ServerInv, Init, User, Token, Transaction
<1>2. tab \in [Tabs -> Tab]
  BY FreshTab DEF Init
<1>3. req \in Slots
  BY DEF Init, Slots
<1>4. used \in [sent : 0 .. MaxSent, moves : 0 .. MaxMoves, faults : 0 .. MaxFaults]
  BY ConstantsAssumption DEF Init
<1> QED
  BY <1>1, <1>2, <1>3, <1>4 DEF TypeInv

(* What the user does in a tab. *)
LEMMA TypeTab ==
  ASSUME TypeInv, NEW t \in Tabs, Submit(t) \/ Use(t) \/ Enter(t) \/ Back(t) \/ Reload(t)
  PROVE  TypeInv'
<1>1. /\ ServerInv /\ tab \in [Tabs -> Tab] /\ req \in Slots
  BY DEF TypeInv
<1>2. used' \in [sent : 0 .. MaxSent, moves : 0 .. MaxMoves, faults : 0 .. MaxFaults]
  BY BoundsKept DEF Submit, Use, Enter, Back, Reload
<1>3. ServerInv'
  BY <1>1 DEF ServerInv, Submit, Use, Enter, Back, Reload
<1>4. tab' \in [Tabs -> Tab]
  <2>1. CASE Submit(t) \/ Use(t)
    BY <1>1, <2>1 DEF Submit, Use
  <2>2. CASE Enter(t) \/ Reload(t) \/ Back(t)
    <3>1. CASE Enter(t)
      <4>1. PICK home \in BOOLEAN : tab' = [tab EXCEPT ![t] = Guarded(@, home)]
        BY <3>1 DEF Enter, OtherPaths
      <4> QED
        BY <1>1, <4>1, TabOperators
    <3>2. CASE Reload(t) \/ Back(t)
      BY <1>1, <3>2, TabOperators DEF Reload, Back
    <3> QED
      BY <2>2, <3>1, <3>2
  <2> QED
    BY <2>1, <2>2
<1>5. req' \in Slots
  <2>1. CASE Submit(t)
    BY <1>1, <2>1, SendGood, FetchGood DEF Submit, Forms, Kinds, TypeInv, User
  <2>2. CASE Use(t)
    BY <1>1, <2>2, SendGood, FetchGood DEF Use, Forms, Kinds, TypeInv, User
  <2>3. Forms \union {"me"} \in SUBSET Kinds /\ {"me"} \in SUBSET Kinds /\ Kinds \in SUBSET Kinds
    BY DEF Forms, Kinds
  <2>4. Fetch(t, "me", NoOne) \in Good
    BY FetchGood DEF Kinds, Forms, User, TypeInv
  <2>5. CASE Enter(t)
    BY <1>1, <2>3, <2>4, <2>5, OutliveGood, SendGood DEF Enter
  <2>6. CASE Back(t)
    BY <2>3, <2>6, OutliveGood DEF Back
  <2>7. CASE Reload(t)
    BY <1>1, <2>3, <2>4, <2>7, OutliveGood, SendGood DEF Reload
  <2> QED
    BY <2>1, <2>2, <2>5, <2>6, <2>7
<1> QED
  BY <1>2, <1>3, <1>4, <1>5 DEF TypeInv

(* What the API does with a request, and what the network does to it. *)
LEMMA TypeHandle ==
  ASSUME TypeInv, NEW q \in Reqs, Handle(q) \/ Lose(q)
  PROVE  TypeInv'
<1>1. /\ ServerInv /\ tab \in [Tabs -> Tab] /\ req \in Slots
  BY DEF TypeInv
<1>2. used' \in [sent : 0 .. MaxSent, moves : 0 .. MaxMoves, faults : 0 .. MaxFaults]
  BY BoundsKept DEF TypeInv, Lose, Handle, RegisterLookup, RegisterInsert, LoginDenied,
                            LoginGranted, Logout, Read, Mutate
<1>3. tab' \in [Tabs -> Tab]
  BY <1>1 DEF Lose, Handle, RegisterLookup, RegisterInsert, LoginDenied,
                            LoginGranted, Logout, Read, Mutate
<1>4. req[q] \in Good
  BY AtWork DEF Lose, Handle, Handling, RegisterLookup, RegisterInsert, LoginDenied,
                            LoginGranted, Logout, Read, Mutate
<1>5. /\ req[q].op \in Forms => req[q].user \in Emails
      /\ req[q].sid \in Token
      /\ req[q].pc = "looked" => req[q].op = "register"
  BY <1>4 DEF Good, ReqOK, Request
<1>6. ServerInv'
  <2>1. CASE RegisterInsert(q)
    BY <1>1, <1>5, <2>1 DEF ServerInv, RegisterInsert, Inserting, Transaction, Forms
  <2>2. CASE LoginGranted(q)
    <3>1. PICK s \in Sids : session' = [session EXCEPT ![s] = [user |-> req[q].user, status |-> "live"]]
      BY <2>2 DEF LoginGranted, Unused
    <3>2. req[q].user \in Emails
      BY <1>5, <2>2 DEF LoginGranted, Handling, Forms
    <3>3. [user |-> req[q].user, status |-> "live"]
            \in [user : User, status : {"free", "live", "expired", "gone"}]
      BY <3>2 DEF User
    <3> DEFINE row == [user |-> req[q].user, status |-> "live"]
    <3>4. row.user \in Emails
      BY <3>2
    <3> HIDE DEF row
    <3>5. /\ session' \in [Sids -> [user : User, status : {"free", "live", "expired", "gone"}]]
          /\ \A x \in Sids : session'[x].status = "live" => session'[x].user \in Emails
      <4>1. session' = [session EXCEPT ![s] = row]
        BY <3>1 DEF row
      <4>2. row \in [user : User, status : {"free", "live", "expired", "gone"}]
        BY <3>3 DEF row
      <4> QED
        BY <1>1, <3>4, <4>1, <4>2 DEF ServerInv
    <3> QED
      BY <1>1, <2>2, <3>5 DEF ServerInv, LoginGranted
  <2>3. CASE Logout(q)
    BY <1>1, <1>5, <2>3 DEF ServerInv, Logout, LeftToCommit, Deleting, Transaction, Token
  <2>4. CASE Lose(q) \/ RegisterLookup(q) \/ LoginDenied(q) \/ Read(q) \/ Mutate(q)
    BY <1>1, <2>4 DEF ServerInv, Lose, RegisterLookup, LoginDenied, Read, Mutate
  <2> QED
    BY <2>1, <2>2, <2>3, <2>4 DEF Handle
<1>7. req' \in Slots
  <2>1. CASE RegisterLookup(q)
    <3>1. [req[q] EXCEPT !.pc = "looked"] \in Good
      BY <1>4, <2>1, MovedOn DEF RegisterLookup, Handling, Good, ReqOK, Progress, Request
    <3>2. CASE accounts[req[q].user] > 0
      BY <1>4, <2>1, <3>2, AnswerGood DEF RegisterLookup, Handling, Codes
    <3>3. CASE ~ (accounts[req[q].user] > 0)
      BY <1>1, <2>1, <3>1, <3>3, SetAside DEF RegisterLookup
    <3> QED
      BY <3>2, <3>3
  <2>2. CASE LoginGranted(q)
    <3>1. PICK s \in Sids : req' = [req EXCEPT ![q] = [Answered(@, 200) EXCEPT !.new = s]]
      BY <2>2 DEF LoginGranted, Unused
    <3>2. [Answered(req[q], 200) EXCEPT !.new = s] \in Good
      BY <1>4, <2>2, Granted DEF LoginGranted, Handling
    <3> QED
      BY <1>1, <3>1, <3>2, SetAside
  <2>3. CASE Read(q)
    <3>1. CASE SignedInAs(req[q])
      <4>1. session[req[q].sid].user \in Emails
        BY <1>1, <1>5, <3>1 DEF SignedInAs, ServerInv, Token
      <4>2. [Answered(req[q], 200) EXCEPT !.got = session[req[q].sid].user] \in Good
        BY <1>4, <2>3, <4>1, Told DEF Read, Handling
      <4> QED
        BY <1>1, <2>3, <3>1, <4>2, SetAside DEF Read
    <3>2. CASE ~ SignedInAs(req[q])
      BY <1>4, <2>3, <3>2, AnswerGood DEF Read, Handling, Codes
    <3> QED
      BY <3>1, <3>2
  <2>4. CASE Lose(q) \/ RegisterInsert(q) \/ LoginDenied(q) \/ Logout(q) \/ Mutate(q)
    <3>1. \E code \in Codes : Answer(q, code) /\ (code = 200 => req[q].op \notin {"login", "me", "query"})
      BY <1>5, <2>4 DEF Lose, RegisterInsert, LoginDenied, Logout, Mutate, Handling, Codes
    <3>2. req[q].pc \in {"sent", "looked"}
      BY <2>4 DEF Lose, RegisterInsert, LoginDenied, Logout, Mutate, Handling
    <3> QED
      BY <1>4, <3>1, <3>2, AnswerGood
  <2> QED
    BY <2>1, <2>2, <2>3, <2>4 DEF Handle
<1> QED
  BY <1>2, <1>3, <1>6, <1>7 DEF TypeInv

(* What a tab makes of an answer. *)
LEMMA TypeHear ==
  ASSUME TypeInv, NEW q \in Reqs, Hear(q)
  PROVE  TypeInv'
<1>1. /\ ServerInv /\ tab \in [Tabs -> Tab] /\ req \in Slots
  BY DEF TypeInv
<1>2. used' \in [sent : 0 .. MaxSent, moves : 0 .. MaxMoves, faults : 0 .. MaxFaults]
  BY DEF TypeInv, Hear, Arrive, Unauthorized, LoggedOut, LogoutFailed, LoggedIn, SignedUp,
         Recognised, NotRecognised, Loaded, Shown
<1>3. req[q] \in Good
  BY AtWork DEF Hear, Heard, Arrive, Unauthorized, LoggedOut, LogoutFailed, LoggedIn, SignedUp,
         Recognised, NotRecognised, Loaded, Shown
<1>4. req[q] \in Request /\ ReqOK(req[q]) /\ req[q].tab \in Tabs /\ req[q].new \in Token
  BY <1>3 DEF Good, Request
<1>5. tab[req[q].tab] \in Tab
  BY <1>1, <1>4
<1>6. ServerInv'
  <2>1. CASE Arrive(q)
    BY <1>1, <1>4, <2>1 DEF ServerInv, Arrive
  <2>2. CASE ~ Arrive(q)
    BY <1>1, <2>2 DEF ServerInv, Hear, Unauthorized, LoggedOut, LogoutFailed, LoggedIn, SignedUp,
         Recognised, NotRecognised, Loaded, Shown
  <2> QED
    BY <2>1, <2>2
<1>7. tab' \in [Tabs -> Tab]
  <2>1. CASE Arrive(q)
    <3>1. \A t \in Tabs : [tab[t] EXCEPT !.settled = FALSE] \in Tab
      BY <1>1 DEF Tab
    <3> QED
      BY <1>1, <2>1, <3>1 DEF Arrive
  <2>2. CASE Unauthorized(q) \/ LoggedOut(q) \/ LogoutFailed(q) \/ NotRecognised(q)
    BY <1>1, <1>4, <2>2, TabOperators
       DEF Unauthorized, LoggedOut, LogoutFailed, NotRecognised, SignOut
  <2>3. CASE LoggedIn(q)
    <3>1. req[q].user \in User
      BY <1>4 DEF Request
    <3>2. Waits(req[q].tab) \in BOOLEAN
      BY DEF Waits
    <3> QED
      BY <1>1, <1>4, <1>5, <2>3, <3>1, <3>2, SignedInTab DEF LoggedIn
  <2>4. CASE Recognised(q)
    <3>1. req[q].got \in User
      BY <1>4 DEF Request
    <3> QED
      BY <1>1, <1>4, <1>5, <2>4, <3>1, KnownTab DEF Recognised
  <2>5. CASE Loaded(q)
    <3>1. req[q].got \in Emails
      BY <1>4, <2>5 DEF Loaded, ReqOK
    <3> QED
      BY <1>1, <1>4, <1>5, <2>5, <3>1, FilledTab DEF Loaded
  <2>6. CASE SignedUp(q) \/ Shown(q)
    BY <1>1, <2>6 DEF SignedUp, Shown
  <2> QED
    BY <2>1, <2>2, <2>3, <2>4, <2>5, <2>6 DEF Hear
<1>8. req' \in Slots
  <2>1. Idle \in Good \union {Idle}
    OBVIOUS
  <2>2. CASE Arrive(q)
    <3>1. [req[q] EXCEPT !.pc = "arrived"] \in Request
      BY <1>4, MovedOn DEF Progress
    <3>2. ReqOK([req[q] EXCEPT !.pc = "arrived"])
      BY <1>4 DEF ReqOK, Request
    <3> QED
      BY <1>1, <2>2, <3>1, <3>2, SetAside DEF Arrive, Good
  <2>3. CASE Unauthorized(q) \/ LoggedOut(q)
    <3>1. {"me", "query"} \in SUBSET Kinds
      BY DEF Kinds
    <3> QED
      BY <1>4, <2>1, <2>3, <3>1, OutliveGood, SetAside DEF Unauthorized, LoggedOut, SignOut
  <2>4. CASE LoggedIn(q)
    <3>1. Forms \union {"me"} \in SUBSET Kinds /\ Forms \in SUBSET Kinds
      BY DEF Kinds, Forms
    <3>2. PICK ops \in SUBSET Kinds : req' = [Outlive(req[q].tab, ops, "component") EXCEPT ![q] = Idle]
      BY <2>4, <3>1 DEF LoggedIn
    <3> QED
      BY <1>4, <2>1, <3>2, OutliveGood, SetAside
  <2>5. CASE SignedUp(q)
    <3> DEFINE f == Fetch(req[q].tab, "login", req[q].user)
    <3>1. req[q].user \in Emails /\ req[q].gone \in {"none", "component"}
      BY <1>4, <2>5 DEF SignedUp, Heard, ReqOK, Forms, Request
    <3>2. f \in Good
      BY <1>4, <3>1, FetchGood DEF Kinds, User
    <3>3. [f EXCEPT !.gone = req[q].gone] \in Good
      <4>1. f \in Request /\ ReqOK(f)
        BY <3>2 DEF Good
      <4> HIDE DEF f
      <4>2. [f EXCEPT !.gone = req[q].gone] \in Request
        BY <3>1, <4>1 DEF Request
      <4>3. ReqOK([f EXCEPT !.gone = req[q].gone])
        BY <4>1 DEF ReqOK, Request
      <4> QED
        BY <4>2, <4>3 DEF Good
    <3> QED
      BY <1>1, <2>5, <3>3, SetAside DEF SignedUp
  <2>6. CASE LogoutFailed(q) \/ Recognised(q) \/ NotRecognised(q) \/ Loaded(q) \/ Shown(q)
    BY <1>1, <2>1, <2>6, SetAside DEF LogoutFailed, Recognised, NotRecognised, Loaded, Shown
  <2> QED
    BY <2>2, <2>3, <2>4, <2>5, <2>6 DEF Hear
<1> QED
  BY <1>2, <1>6, <1>7, <1>8 DEF TypeInv

LEMMA HeardGood ==
  ASSUME TypeInv, NEW q \in Reqs, Hear(q)
  PROVE  req[q] \in Good /\ req[q].tab \in Tabs
<1>1. req[q] \in Good
  BY AtWork DEF Hear, Heard, Arrive, Unauthorized, LoggedOut, LogoutFailed, LoggedIn, SignedUp,
         Recognised, NotRecognised, Loaded, Shown
<1> QED
  BY <1>1 DEF Good, Request

(* The API touches neither the cookie jar nor a tab. *)
LEMMA HandledApart ==
  ASSUME NEW q \in Reqs, Handle(q) \/ Lose(q)
  PROVE  UNCHANGED <<cookie, tab>>
BY DEF Handle, RegisterLookup, RegisterInsert, LoginDenied, LoginGranted, Logout, Read, Mutate, Lose

LEMMA TypeStep == TypeInv /\ [Next]_vars => TypeInv'
<1> SUFFICES ASSUME TypeInv, [Next]_vars PROVE TypeInv'
  OBVIOUS
<1>1. CASE UNCHANGED vars
  BY <1>1 DEF vars, TypeInv, ServerInv
<1>2. CASE \E t \in Tabs : Submit(t) \/ Use(t) \/ Enter(t) \/ Back(t) \/ Reload(t)
  BY <1>2, TypeTab
<1>3. CASE \E q \in Reqs : Handle(q) \/ Hear(q) \/ Lose(q)
  BY <1>3, TypeHandle, TypeHear
<1>4. CASE \E x \in txns : Commit(x)
  <2>1. PICK x \in txns : Commit(x)
    BY <1>4
  <2>2. x \in Transaction
    BY DEF TypeInv, ServerInv
  <2>3. ServerInv'
    <3>1. CASE x.kind = "register"
      BY <2>1, <2>2, <3>1 DEF TypeInv, ServerInv, Commit, Transaction
    <3>2. CASE x.kind = "logout"
      BY <2>1, <2>2, <3>2 DEF TypeInv, ServerInv, Commit, Transaction
    <3> QED
      BY <2>2, <3>1, <3>2 DEF Transaction
  <2> QED
    BY <2>1, <2>3 DEF TypeInv, Commit
<1>5. CASE \E s \in Sids : Expire(s)
  BY <1>5, BoundsKept DEF TypeInv, ServerInv, Expire
<1> QED
  BY <1>1, <1>2, <1>3, <1>4, <1>5 DEF Next

(* Every variable of the browser, the jar and the API keeps to its type,   *)
(* for any number of tabs, addresses, sessions and requests in flight.     *)
THEOREM TypeCorrect == Spec => []TypeOK
<1>1. TypeInv => TypeOK
  BY TypeInvOK
<1> QED
  BY <1>1, TypeInit, TypeStep, PTL DEF Spec

-----------------------------------------------------------------------------
(* One account per address *)

(* The row that a transaction has inserted is the address's first. *)
AccountInv ==
  \A e \in Emails : accounts[e] <= 1 /\ (Inserting(e) \in txns => accounts[e] = 0)

LEMMA OneRowEach == \A a, b : Inserting(a) = Inserting(b) => a = b
<1> SUFFICES ASSUME NEW a, NEW b, Inserting(a) = Inserting(b) PROVE a = b
  OBVIOUS
<1>1. Inserting(a).id = a /\ Inserting(b).id = b
  BY DEF Inserting
<1> QED
  BY <1>1

LEMMA AccountStep == TypeInv /\ AccountInv /\ [Next]_vars => AccountInv'
<1> SUFFICES ASSUME TypeInv, AccountInv, [Next]_vars PROVE AccountInv'
  OBVIOUS
<1>1. accounts \in [Emails -> Nat] /\ txns \subseteq Transaction
  BY DEF TypeInv, ServerInv
<1>2. CASE UNCHANGED <<accounts, txns>>
  BY <1>2 DEF AccountInv, Inserting
<1>3. ASSUME NEW q \in Reqs, RegisterInsert(q) PROVE AccountInv'
  <2>1. CASE UNCHANGED txns
    BY <1>3, <2>1 DEF AccountInv, RegisterInsert, Inserting
  <2>2. CASE /\ accounts[req[q].user] = 0
             /\ txns' = txns \union {Inserting(req[q].user)}
    <3>1. accounts' = accounts
      BY <1>3 DEF RegisterInsert
    <3>2. \A e : Inserting(e)' = Inserting(e)
      BY DEF Inserting
    <3> QED
      BY <2>2, <3>1, <3>2, OneRowEach DEF AccountInv
  <2> QED
    BY <1>3, <2>1, <2>2 DEF RegisterInsert, Unique
<1>4. ASSUME NEW q \in Reqs, Logout(q) PROVE AccountInv'
  <2>1. accounts' = accounts /\ txns' \subseteq txns \union {Deleting(req[q].sid)}
    BY <1>4 DEF Logout, LeftToCommit
  <2>2. \A e : Inserting(e) # Deleting(req[q].sid)
    BY DEF Inserting, Deleting
  <2>3. \A e : Inserting(e)' = Inserting(e)
    BY DEF Inserting
  <2> QED
    BY <2>1, <2>2, <2>3 DEF AccountInv
<1>5. ASSUME NEW x \in txns, Commit(x) PROVE AccountInv'
  <2>1. CASE x.kind = "register"
    <3>1. x.id \in Emails /\ x = Inserting(x.id)
      BY <1>1, <2>1 DEF Transaction, Inserting
    <3>2. accounts[x.id] = 0
      BY <3>1 DEF AccountInv
    <3>3. accounts' = [accounts EXCEPT ![x.id] = @ + 1] /\ txns' = txns \ {x}
      BY <1>5, <2>1 DEF Commit
    <3>4. ASSUME NEW e \in Emails
          PROVE  accounts'[e] <= 1 /\ (Inserting(e) \in txns' => accounts'[e] = 0)
      <4>1. CASE e = x.id
        BY <1>1, <3>1, <3>2, <3>3, <4>1
      <4>2. CASE e # x.id
        BY <1>1, <3>1, <3>3, <4>2 DEF AccountInv
      <4> QED
        BY <4>1, <4>2
    <3> QED
      BY <3>4 DEF AccountInv, Inserting
  <2>2. CASE x.kind = "logout"
    <3>1. accounts' = accounts /\ txns' \subseteq txns
      BY <1>5, <2>2 DEF Commit
    <3> QED
      BY <3>1 DEF AccountInv, Inserting
  <2> QED
    BY <1>1, <2>1, <2>2 DEF Transaction
<1> QED
  BY <1>2, <1>3, <1>4, <1>5
     DEF Next, vars, Submit, Use, Enter, Back, Reload, Handle, RegisterLookup, LoginDenied,
         LoginGranted, Read, Mutate, Lose, Expire, Hear, Arrive, Unauthorized, LoggedOut,
         LogoutFailed, LoggedIn, SignedUp, Recognised, NotRecognised, Loaded, Shown

(* However many registrations of an address overlap, it gets one account:  *)
(* the lookup of auth.py register alone would not do, the unique column    *)
(* does.                                                                   *)
THEOREM OneAccount == Spec => []OneAccountPerAddress
<1>1. Init => AccountInv
  <2> SUFFICES ASSUME Init, NEW e \in Emails
               PROVE  accounts[e] <= 1 /\ Inserting(e) \notin txns
    BY DEF AccountInv
  <2>1. accounts[e] \in {0, 1}
    BY DEF Init
  <2> QED
    BY <2>1 DEF Init
<1>2. AccountInv => OneAccountPerAddress
  BY DEF AccountInv, OneAccountPerAddress
<1> QED
  BY <1>1, <1>2, TypeInit, TypeStep, AccountStep, PTL DEF Spec

-----------------------------------------------------------------------------
(* A reload keeps the rights of a session *)

LEMMA SettledStep == TypeInv /\ ReloadKeepsRights /\ [Next]_vars => ReloadKeepsRights'
<1> SUFFICES ASSUME TypeInv, ReloadKeepsRights, [Next]_vars PROVE ReloadKeepsRights'
  OBVIOUS
<1>1. tab \in [Tabs -> Tab]
  BY DEF TypeInv
<1>2. CASE UNCHANGED <<cookie, tab>>
  BY <1>2 DEF ReloadKeepsRights
<1> DEFINE Rights(r) == r.settled => r.csrf # NoOne /\ r.csrf = cookie
<1>3. \A t \in Tabs : Rights(tab[t])
  BY DEF ReloadKeepsRights
<1>4. ASSUME NEW t \in Tabs, Rights(tab'[t]), UNCHANGED cookie,
             \A u \in Tabs : u # t => tab'[u] = tab[u]
      PROVE  ReloadKeepsRights'
  BY <1>3, <1>4 DEF ReloadKeepsRights
<1>5. \A r \in Tab : Rights(r) => /\ \A home \in BOOLEAN : Rights(Guarded(r, home))
                               /\ Rights(Reloaded(r)) /\ Rights(Away(r))
  BY DEF Tab, Guarded, Reloaded, NewTab, Away
<1>6. \A r \in Tab : Rights(Cleared(r)) /\ Rights(SignedOut(r))
  BY DEF Tab, Cleared, SignedOut, Away
<1> HIDE DEF Rights
<1>7. ASSUME NEW t \in Tabs, Enter(t) \/ Back(t) \/ Reload(t) PROVE ReloadKeepsRights'
  <2>1. CASE Enter(t)
    <3>1. PICK home \in BOOLEAN : tab' = [tab EXCEPT ![t] = Guarded(@, home)]
      BY <2>1 DEF Enter, OtherPaths
    <3> QED
      BY <1>1, <1>3, <1>4, <1>5, <2>1, <3>1 DEF Enter
  <2>2. CASE Back(t) \/ Reload(t)
    BY <1>1, <1>3, <1>4, <1>5, <2>2 DEF Back, Reload
  <2> QED
    BY <1>7, <2>1, <2>2
<1>8. ASSUME NEW q \in Reqs, Hear(q) PROVE ReloadKeepsRights'
  <2>1. req[q] \in Good /\ req[q].tab \in Tabs
    BY <1>8, HeardGood
  <2>2. CASE Arrive(q)
    <3>1. \/ UNCHANGED <<cookie, tab>>
          \/ \A t \in Tabs : tab'[t].settled = FALSE
      <4>1. \A r \in Tab : [r EXCEPT !.settled = FALSE].settled = FALSE
        BY DEF Tab
      <4>2. CASE tab' = [t \in Tabs |-> [tab[t] EXCEPT !.settled = FALSE]]
        BY <1>1, <4>1, <4>2
      <4> QED
        BY <2>2, <4>2 DEF Arrive
    <3> QED
      BY <1>2, <3>1 DEF ReloadKeepsRights
  <2>3. CASE Unauthorized(q) \/ LoggedOut(q) \/ LogoutFailed(q)
    <3>1. /\ \/ tab' = [tab EXCEPT ![req[q].tab] = SignedOut(@)]
             \/ tab' = [tab EXCEPT ![req[q].tab] = Cleared(@)]
          /\ UNCHANGED cookie
      BY <2>3 DEF Unauthorized, LoggedOut, LogoutFailed, SignOut
    <3>2. Rights(tab'[req[q].tab])
      BY <1>1, <1>6, <2>1, <3>1
    <3> QED
      BY <1>1, <1>4, <2>1, <3>1, <3>2
  <2>4. CASE LoggedIn(q)
    <3>1. req[q].new # NoOne
      BY <2>1, <2>4, ConstantsAssumption DEF LoggedIn, Good, ReqOK
    <3>2. \A r \in Tab, w \in BOOLEAN : Rights(SignedIn(r, req[q].new, req[q].user, w))
      <4>1. SUFFICES ASSUME NEW r \in Tab, NEW w \in BOOLEAN
                     PROVE  Rights(SignedIn(r, req[q].new, req[q].user, w))
        OBVIOUS
      <4>2. req[q].new \in Token /\ req[q].user \in User /\ req[q].user # NoOne
        BY <2>1, <2>4, ConstantsAssumption DEF LoggedIn, Good, Request, ReqOK, Forms
      <4>3. /\ SignedIn(r, req[q].new, req[q].user, w).csrf = req[q].new
            /\ SignedIn(r, req[q].new, req[q].user, w).settled = (cookie = req[q].new)
        BY <4>2, SignedInFields
      <4> QED
        BY <3>1, <4>3 DEF Rights
    <3>3. Waits(req[q].tab) \in BOOLEAN
      BY DEF Waits
    <3> QED
      BY <1>1, <1>4, <2>1, <2>4, <3>2, <3>3 DEF LoggedIn
  <2>5. CASE Recognised(q) \/ Loaded(q)
    <3>1. \A t \in Tabs : tab'[t].settled = tab[t].settled /\ tab'[t].csrf = tab[t].csrf
      <4>1. \A r \in Tab : \A e, b :
              /\ Known(r, e, b).settled = r.settled /\ Known(r, e, b).csrf = r.csrf
              /\ Filled(r, e).settled = r.settled /\ Filled(r, e).csrf = r.csrf
        BY DEF Known, Filled, Tab
      <4>2. CASE tab' = tab
        BY <4>2
      <4>3. CASE tab' = [tab EXCEPT ![req[q].tab] = Filled(@, req[q].got)]
        BY <1>1, <2>1, <4>1, <4>3
      <4>4. CASE tab' = [tab EXCEPT ![req[q].tab] = Known(@, req[q].got, req[q].gone = "none")]
        BY <1>1, <2>1, <4>1, <4>4
      <4> QED
        BY <2>5, <4>2, <4>3, <4>4 DEF Recognised, Loaded
    <3> QED
      BY <2>5, <3>1 DEF Recognised, Loaded, ReloadKeepsRights
  <2>6. CASE NotRecognised(q)
    <3>1. CASE tab' = tab
      BY <1>2, <2>6, <3>1 DEF NotRecognised
    <3>2. CASE tab' = [tab EXCEPT ![req[q].tab] = Away(@)]
      <4>1. Rights(tab'[req[q].tab])
        BY <1>1, <1>3, <1>5, <2>1, <3>2
      <4> QED
        BY <1>1, <1>4, <2>1, <2>6, <3>2, <4>1 DEF NotRecognised
    <3> QED
      BY <2>6, <3>1, <3>2 DEF NotRecognised
  <2>7. CASE SignedUp(q) \/ Shown(q)
    BY <1>2, <2>7 DEF SignedUp, Shown
  <2> QED
    BY <1>8, <2>2, <2>3, <2>4, <2>5, <2>6, <2>7 DEF Hear
<1>9. ASSUME NEW q \in Reqs, Handle(q) \/ Lose(q) PROVE ReloadKeepsRights'
  BY <1>2, <1>9, HandledApart
<1> QED
  BY <1>2, <1>7, <1>8, <1>9 DEF Next, vars, Submit, Use, Commit, Expire

(* Once signed in, a tab keeps a token that fits the cookie through every  *)
(* reload and navigation, until somebody signs out or in, or a 401 comes   *)
(* (session.ts readStoredCsrf, clearSession).                              *)
THEOREM RightsKept == Spec => []ReloadKeepsRights
<1>1. Init => ReloadKeepsRights
  BY DEF Init, NewTab, ReloadKeepsRights
<1> QED
  BY <1>1, TypeInit, TypeStep, SettledStep, PTL DEF Spec

-----------------------------------------------------------------------------
(* Signing out and acting as shown *)

(* The sessions handed out so far, and that they keep their users. *)
Given(S) == {NoOne} \union {s \in Sids : S[s].status # "free"}

Grows(S, S2) == \A s \in Sids : S[s].status # "free" =>
                                  S2[s].status # "free" /\ S2[s].user = S[s].user

RequestFits(r, S) ==
  /\ r.sid \in Given(S) /\ r.token \in Given(S) /\ r.new \in Given(S)
  /\ r.new # NoOne => S[r.new].user = r.user
  /\ r.op = "me" /\ r.code = 200 => r.sid # NoOne /\ r.got = S[r.sid].user
  /\ r.op = "mutation" /\ r.code = 200 => r.token = r.sid /\ r.sid # NoOne
  /\ r.op = "mutation" /\ r.as # NoOne /\ r.token = r.sid /\ r.sid # NoOne
       => S[r.sid].user = r.as

(* A tab whose token fits the cookie c knows whose session that is. *)
TabFits(r, c, S) ==
  /\ r.csrf \in Given(S)
  /\ r.out => r.page = "sign-in" /\ r.csrf = NoOne /\ r.cache = {}
  /\ r.home => r.page = "app"
  /\ r.csrf = c /\ c # NoOne /\ ~ r.renamed /\ r.user # NoOne => r.user = S[c].user

(* An answer that still brings a session nobody else has heard of. *)
Unheard(r) == r.pc = "answered" /\ r.new # NoOne

Secret(q, c, T, R) ==
  /\ R[q].new # c
  /\ \A t \in Tabs : T[t].csrf # R[q].new
  /\ \A p \in Reqs \ {q} : R[p] # Idle => R[p].new # R[q].new

(* What relates a request under way to the tab that waits for it. *)
Awaited(r, c, T) ==
  r.gone = "none" =>
    /\ r.op = "me" /\ T[r.tab].csrf = c /\ c # NoOne /\ ~ T[r.tab].renamed => r.sid = c
    /\ r.op = "query" => ~ T[r.tab].out

Fits(c, T, R, S) ==
  /\ c \in Given(S)
  /\ \A t \in Tabs : TabFits(T[t], c, S)
  /\ \A q \in Reqs : R[q] # Idle => RequestFits(R[q], S) /\ Awaited(R[q], c, T)
  /\ \A q \in Reqs : Unheard(R[q]) => Secret(q, c, T, R)

BrowserInv == Fits(cookie, tab, req, session)

-----------------------------------------------------------------------------
(* What one change does to it *)

TabMap == [Tabs -> Tab]
Rows == [Sids -> [user : User, status : {"free", "live", "expired", "gone"}]]

LEMMA FitsGrow ==
  ASSUME NEW c \in Token, NEW T \in TabMap, NEW R \in Slots, NEW S \in Rows, NEW S2 \in Rows,
         Fits(c, T, R, S), Grows(S, S2)
  PROVE  Fits(c, T, R, S2)
<1>1. Given(S) \subseteq Given(S2)
  BY DEF Given, Grows
<1>2. \A s \in Given(S) : s # NoOne => S2[s].user = S[s].user
  BY DEF Given, Grows
<1>3. ASSUME NEW q \in Reqs, R[q] # Idle PROVE RequestFits(R[q], S2)
  <2>1. RequestFits(R[q], S)
    BY <1>3 DEF Fits
  <2>2. R[q] \in Good
    BY <1>3 DEF Slots
  <2> QED
    BY <1>1, <1>2, <2>1, <2>2 DEF RequestFits, Good, ReqOK
<1>4. ASSUME NEW t \in Tabs PROVE TabFits(T[t], c, S2)
  <2>1. TabFits(T[t], c, S) /\ c \in Given(S)
    BY DEF Fits
  <2> QED
    BY <1>1, <1>2, <2>1 DEF TabFits
<1> QED
  BY <1>1, <1>3, <1>4 DEF Fits

(* A slot that is emptied or filled: what it now holds fits, and brings no *)
(* session, or the one that it brought before.                             *)
LEMMA FitsRequest ==
  ASSUME NEW c \in Token, NEW T \in TabMap, NEW R \in Slots, NEW S \in Rows, Fits(c, T, R, S),
         NEW q \in Reqs, NEW r \in Good \union {Idle},
         r # Idle => /\ RequestFits(r, S) /\ Awaited(r, c, T)
                     /\ \/ r.new = NoOne
                        \/ R[q] # Idle /\ r.new = R[q].new /\ (Unheard(r) => Unheard(R[q]))
  PROVE  Fits(c, T, [R EXCEPT ![q] = r], S)
<1> DEFINE R2 == [R EXCEPT ![q] = r]
<1>1. R2 \in [Reqs -> Good \union {Idle}] /\ R2[q] = r /\ \A p \in Reqs \ {q} : R2[p] = R[p]
  BY DEF Slots
<1> HIDE DEF R2
<1>2. \A p \in Reqs : R2[p] # Idle => RequestFits(R2[p], S) /\ Awaited(R2[p], c, T)
  BY <1>1 DEF Fits
<1>3. ASSUME NEW p \in Reqs, Unheard(R2[p]) PROVE Secret(p, c, T, R2)
  <2>1. Unheard(R[p]) /\ R2[p].new = R[p].new
    BY <1>1, <1>3 DEF Unheard, Idle
  <2>2. Secret(p, c, T, R)
    BY <2>1 DEF Fits
  <2>3. ASSUME NEW o \in Reqs \ {p}, R2[o] # Idle PROVE R2[o].new # R2[p].new
    <3>1. CASE o # q
      BY <1>1, <2>1, <2>2, <2>3, <3>1 DEF Secret
    <3>2. CASE o = q /\ r.new = NoOne
      BY <1>1, <1>3, <3>2 DEF Unheard
    <3>3. CASE o = q /\ R[q] # Idle /\ r.new = R[q].new
      BY <1>1, <2>1, <2>2, <3>3 DEF Secret
    <3> QED
      BY <1>1, <2>3, <3>1, <3>2, <3>3
  <2> QED
    BY <2>1, <2>2, <2>3 DEF Secret
<1>4. Fits(c, T, R2, S)
  BY <1>2, <1>3 DEF Fits
<1> QED
  BY <1>4 DEF R2

(* Requests that lose their senders. *)
LEMMA FitsOutlive ==
  ASSUME TypeInv, BrowserInv, NEW t \in Tabs, NEW ops \in SUBSET Kinds,
         NEW what \in {"component", "page"}
  PROVE  Fits(cookie, tab, Outlive(t, ops, what), session)
<1> DEFINE R2 == Outlive(t, ops, what)
<1>1. req \in [Reqs -> Good \union {Idle}]
  BY DEF TypeInv, Slots
<1>2. \A q \in Reqs : /\ R2[q] \in Good \union {Idle}
                      /\ req[q] = Idle => R2[q] = Idle
                      /\ req[q] \in Good =>
                           /\ R2[q] \in Good /\ Same(R2[q], req[q])
                           /\ R2[q].gone = "none" => req[q].gone = "none"
  BY OutliveOne
<1> HIDE DEF R2
<1>3. ASSUME NEW q \in Reqs, R2[q] # Idle
      PROVE  RequestFits(R2[q], session) /\ Awaited(R2[q], cookie, tab)
  <2>1. /\ RequestFits(req[q], session) /\ Awaited(req[q], cookie, tab)
        /\ Same(R2[q], req[q]) /\ (R2[q].gone = "none" => req[q].gone = "none")
    BY <1>1, <1>2, <1>3 DEF BrowserInv, Fits
  <2> QED
    BY <2>1 DEF RequestFits, Awaited, Same
<1>4. ASSUME NEW q \in Reqs, Unheard(R2[q]) PROVE Secret(q, cookie, tab, R2)
  <2>1. R2[q] # Idle
    BY <1>4 DEF Unheard, Idle
  <2>2. req[q] \in Good /\ Same(R2[q], req[q])
    BY <1>1, <1>2, <2>1
  <2>3. Secret(q, cookie, tab, req) /\ req[q].new = R2[q].new
    BY <1>4, <2>2 DEF Unheard, Same, BrowserInv, Fits
  <2>4. ASSUME NEW p \in Reqs \ {q}, R2[p] # Idle PROVE R2[p].new # R2[q].new
    <3>1. req[p] # Idle /\ R2[p].new = req[p].new
      BY <1>1, <1>2, <2>4 DEF Same
    <3> QED
      BY <2>3, <3>1 DEF Secret
  <2> QED
    BY <2>3, <2>4 DEF Secret
<1>5. Fits(cookie, tab, R2, session)
  BY <1>3, <1>4 DEF BrowserInv, Fits
<1> QED
  BY <1>5 DEF R2

(* A tab that changes, but takes no new token. *)
LEMMA FitsTab ==
  ASSUME NEW c \in Token, NEW T \in TabMap, NEW R \in Slots, NEW S \in Rows, Fits(c, T, R, S),
         NEW t \in Tabs, NEW r \in Tab, TabFits(r, c, S), r.csrf \in {T[t].csrf, NoOne},
         r.out => \/ T[t].out
                  \/ \A q \in Reqs : R[q] # Idle /\ R[q].op = "query" /\ R[q].tab = t
                                       => R[q].gone # "none",
         \/ T[t].renamed => r.renamed
         \/ r.csrf = NoOne
         \/ \A q \in Reqs : R[q] # Idle /\ R[q].op = "me" /\ R[q].tab = t /\ R[q].gone = "none"
                              => R[q].sid = c
  PROVE  Fits(c, [T EXCEPT ![t] = r], R, S)
<1> DEFINE T2 == [T EXCEPT ![t] = r]
<1>1. T2 \in [Tabs -> Tab] /\ T2[t] = r /\ \A u \in Tabs \ {t} : T2[u] = T[u]
  BY DEF TabMap
<1> HIDE DEF T2
<1>2. \A u \in Tabs : TabFits(T2[u], c, S)
  BY <1>1 DEF Fits
<1>3. ASSUME NEW q \in Reqs, R[q] # Idle PROVE RequestFits(R[q], S) /\ Awaited(R[q], c, T2)
  <2>1. RequestFits(R[q], S) /\ Awaited(R[q], c, T) /\ R[q].tab \in Tabs
    BY <1>3 DEF Fits, Slots, Good, Request
  <2>2. CASE R[q].tab # t
    BY <1>1, <2>1, <2>2 DEF Awaited
  <2>3. CASE R[q].tab = t
    BY <1>1, <1>3, <2>1, <2>3 DEF Awaited
  <2> QED
    BY <2>1, <2>2, <2>3
<1>4. ASSUME NEW q \in Reqs, Unheard(R[q]) PROVE Secret(q, c, T2, R)
  <2>1. Secret(q, c, T, R) /\ R[q].new # NoOne
    BY <1>4 DEF Fits, Unheard
  <2> QED
    BY <1>1, <2>1 DEF Secret
<1>5. Fits(c, T2, R, S)
  BY <1>2, <1>3, <1>4 DEF Fits
<1> QED
  BY <1>5 DEF T2

(* A cookie that no tab has a token for. *)
LEMMA FitsCookie ==
  ASSUME NEW c \in Token, NEW T \in TabMap, NEW R \in Slots, NEW S \in Rows, Fits(c, T, R, S),
         NEW d \in Given(S), d # NoOne => \A t \in Tabs : T[t].csrf # d,
         \A q \in Reqs : Unheard(R[q]) => R[q].new # d
  PROVE  Fits(d, T, R, S)
<1>1. ASSUME NEW t \in Tabs PROVE TabFits(T[t], d, S)
  BY DEF Fits, TabFits
<1>2. ASSUME NEW q \in Reqs, R[q] # Idle PROVE RequestFits(R[q], S) /\ Awaited(R[q], d, T)
  <2>1. RequestFits(R[q], S) /\ Awaited(R[q], c, T) /\ R[q].tab \in Tabs
    BY <1>2 DEF Fits, Slots, Good, Request
  <2> QED
    BY <2>1 DEF Awaited
<1>3. ASSUME NEW q \in Reqs, Unheard(R[q]) PROVE Secret(q, d, T, R)
  BY <1>3 DEF Fits, Secret
<1> QED
  BY <1>1, <1>2, <1>3 DEF Fits

-----------------------------------------------------------------------------
(* Every step keeps it *)

LEMMA Typed ==
  ASSUME TypeInv
  PROVE  cookie \in Token /\ tab \in TabMap /\ req \in Slots /\ session \in Rows
BY DEF TypeInv, ServerInv, TabMap, Rows

(* The same for the tables that hold after the user has done something. *)
LEMMA SlotChosen ==
  ASSUME NEW R \in Slots, NEW r, Send(R, r)
  PROVE  \E q \in Reqs : req[q] = Idle /\ req' = [R EXCEPT ![q] = r]
BY FreeSlot DEF Send, Free

(* A request as it leaves. *)
LEMMA FetchFits ==
  ASSUME TypeInv, BrowserInv, NEW t \in Tabs, NEW op \in Kinds, NEW e \in User,
         op \in Forms => e \in Emails,
         op = "query" => ~ tab[t].out
  PROVE  /\ RequestFits(Fetch(t, op, e), session)
         /\ Awaited(Fetch(t, op, e), cookie, tab)
         /\ Fetch(t, op, e).new = NoOne
<1> DEFINE f == Fetch(t, op, e)
<1>1. /\ f.op = op /\ f.tab = t /\ f.new = NoOne /\ f.code = 0
      /\ f.sid \in {cookie, NoOne} /\ (op \notin Forms => f.sid = cookie)
      /\ f.token \in {tab[t].csrf, NoOne}
      /\ f.as # NoOne => op = "mutation" /\ ~ tab[t].renamed /\ f.as = tab[t].user
  BY DEF Fetch
<1> HIDE DEF f
<1>2. cookie \in Given(session) /\ TabFits(tab[t], cookie, session) /\ NoOne \in Given(session)
  BY DEF BrowserInv, Fits, Given
<1>3. RequestFits(f, session)
  BY <1>1, <1>2 DEF RequestFits, TabFits
<1>4. Awaited(f, cookie, tab)
  BY <1>1 DEF Awaited, Forms
<1> QED
  BY <1>1, <1>3, <1>4 DEF f

LEMMA TabOperatorsFit ==
  ASSUME NEW r \in Tab, NEW c \in Token, NEW S \in Rows, TabFits(r, c, S), NoOne \in Given(S)
  PROVE  /\ \A home \in BOOLEAN :
              /\ TabFits(Guarded(r, home), c, S) /\ Guarded(r, home).csrf = r.csrf
              /\ ~ Guarded(r, home).out /\ Guarded(r, home).renamed = r.renamed
         /\ TabFits(Reloaded(r), c, S) /\ Reloaded(r).csrf = r.csrf /\ ~ Reloaded(r).out
         /\ TabFits(Away(r), c, S) /\ Away(r).csrf = r.csrf /\ (Away(r).out => r.out)
         /\ Away(r).renamed = r.renamed
         /\ TabFits(Cleared(r), c, S) /\ Cleared(r).csrf = NoOne /\ (Cleared(r).out => r.out)
         /\ TabFits(SignedOut(r), c, S) /\ SignedOut(r).csrf = NoOne
<1>1. ASSUME NEW home \in BOOLEAN
      PROVE  /\ TabFits(Guarded(r, home), c, S) /\ Guarded(r, home).csrf = r.csrf
             /\ ~ Guarded(r, home).out /\ Guarded(r, home).renamed = r.renamed
  BY DEF TabFits, Guarded, Tab
<1>2. TabFits(Reloaded(r), c, S) /\ Reloaded(r).csrf = r.csrf /\ ~ Reloaded(r).out
  BY DEF TabFits, Reloaded, NewTab, Tab
<1>3. /\ TabFits(Away(r), c, S) /\ Away(r).csrf = r.csrf /\ (Away(r).out => r.out)
      /\ Away(r).renamed = r.renamed
  BY DEF TabFits, Away, Tab
<1>4. TabFits(Cleared(r), c, S) /\ Cleared(r).csrf = NoOne /\ (Cleared(r).out => r.out)
  BY DEF TabFits, Cleared, Tab
<1>5. /\ SignedOut(r).csrf = NoOne /\ SignedOut(r).page = "sign-in" /\ SignedOut(r).cache = {}
      /\ ~ SignedOut(r).home
  BY DEF SignedOut, Cleared, Away, Tab
<1> QED
  BY <1>1, <1>2, <1>3, <1>4, <1>5 DEF TabFits

LEMMA BrowserTab ==
  ASSUME TypeInv, BrowserInv, NEW t \in Tabs,
         Submit(t) \/ Use(t) \/ Enter(t) \/ Back(t) \/ Reload(t)
  PROVE  BrowserInv'
<1>1. /\ cookie \in Token /\ tab \in TabMap /\ req \in Slots /\ session \in Rows
      /\ Fits(cookie, tab, req, session) /\ TabFits(tab[t], cookie, session) /\ tab[t] \in Tab
      /\ NoOne \in Given(session)
  BY Typed DEF BrowserInv, Fits, TabMap, Given
<1>2. cookie' = cookie /\ session' = session
  BY DEF Submit, Use, Enter, Back, Reload
<1>3. CASE Submit(t)
  <2>1. PICK op \in Forms, e \in Emails : Send(req, Fetch(t, op, e)) /\ tab' = tab
    BY <1>3 DEF Submit
  <2>2. /\ Fetch(t, op, e) \in Good /\ RequestFits(Fetch(t, op, e), session)
        /\ Awaited(Fetch(t, op, e), cookie, tab) /\ Fetch(t, op, e).new = NoOne
    BY FetchGood, FetchFits DEF Forms, Kinds, User
  <2>3. PICK q \in Reqs : req' = [req EXCEPT ![q] = Fetch(t, op, e)]
    BY <1>1, <2>1, SlotChosen
  <2>4. Fits(cookie, tab, req', session)
    BY <1>1, <2>2, <2>3, FitsRequest
  <2> QED
    BY <1>2, <2>1, <2>4 DEF BrowserInv
<1>4. CASE Use(t)
  <2>1. PICK op \in {"query", "mutation", "logout"} : Send(req, Fetch(t, op, NoOne)) /\ tab' = tab
    BY <1>4 DEF Use
  <2>2. tab[t].auth = "authed" /\ ~ tab[t].out
    BY <1>1, <1>4 DEF Use, TabFits
  <2>3. /\ Fetch(t, op, NoOne) \in Good /\ RequestFits(Fetch(t, op, NoOne), session)
        /\ Awaited(Fetch(t, op, NoOne), cookie, tab) /\ Fetch(t, op, NoOne).new = NoOne
    BY <2>2, FetchGood, FetchFits DEF Forms, Kinds, User
  <2>4. PICK q \in Reqs : req' = [req EXCEPT ![q] = Fetch(t, op, NoOne)]
    BY <1>1, <2>1, SlotChosen
  <2>5. Fits(cookie, tab, req', session)
    BY <1>1, <2>3, <2>4, FitsRequest
  <2> QED
    BY <1>2, <2>1, <2>5 DEF BrowserInv
<1>5. /\ Fetch(t, "me", NoOne) \in Good /\ RequestFits(Fetch(t, "me", NoOne), session)
      /\ Awaited(Fetch(t, "me", NoOne), cookie, tab) /\ Fetch(t, "me", NoOne).new = NoOne
  BY FetchGood, FetchFits DEF Forms, Kinds, User
<1>6. ASSUME NEW ops \in SUBSET Kinds, NEW what \in {"component", "page"},
             \/ req' = Outlive(t, ops, what)
             \/ Send(Outlive(t, ops, what), Fetch(t, "me", NoOne))
      PROVE  /\ Fits(cookie, tab, req', session) /\ req' \in Slots
             /\ "me" \in ops => \A q \in Reqs :
                  req'[q] # Idle /\ req'[q].op = "me" /\ req'[q].tab = t /\ req'[q].gone = "none"
                    => req'[q].sid = cookie
  <2>1. Fits(cookie, tab, Outlive(t, ops, what), session) /\ Outlive(t, ops, what) \in Slots
    BY FitsOutlive, OutliveGood
  <2>4. ASSUME "me" \in ops, NEW q \in Reqs, Outlive(t, ops, what)[q] # Idle,
               Outlive(t, ops, what)[q].op = "me", Outlive(t, ops, what)[q].tab = t
        PROVE  Outlive(t, ops, what)[q].gone # "none"
    <3>1. req[q] \in Good
      BY <1>1, <2>4, OutliveOne DEF Slots
    <3> QED
      BY <2>4, <3>1, OutliveOne DEF Same
  <2>2. CASE req' = Outlive(t, ops, what)
    BY <2>1, <2>2, <2>4
  <2>3. CASE Send(Outlive(t, ops, what), Fetch(t, "me", NoOne))
    <3>1. PICK q \in Reqs : req' = [Outlive(t, ops, what) EXCEPT ![q] = Fetch(t, "me", NoOne)]
      BY <2>1, <2>3, SlotChosen
    <3>2. Fits(cookie, tab, req', session) /\ req' \in Slots
      BY <1>1, <1>5, <2>1, <3>1, FitsRequest, SetAside
    <3>3. Fetch(t, "me", NoOne).sid = cookie
      BY DEF Fetch, Forms
    <3>4. ASSUME "me" \in ops, NEW p \in Reqs, req'[p] # Idle, req'[p].op = "me",
                 req'[p].tab = t, req'[p].gone = "none"
          PROVE  req'[p].sid = cookie
      BY <2>1, <2>4, <3>1, <3>3, <3>4 DEF Slots
    <3> QED
      BY <3>2, <3>4
  <2> QED
    BY <1>6, <2>2, <2>3
<1>7. /\ Forms \union {"me"} \in SUBSET Kinds /\ {"me"} \in SUBSET Kinds /\ Kinds \in SUBSET Kinds
  BY DEF Forms, Kinds
<1>8. CASE Enter(t) \/ Back(t) \/ Reload(t)
  <2>1. Fits(cookie, tab, req', session) /\ req' \in Slots
    <3>1. CASE Enter(t)
      BY <1>6, <1>7, <3>1 DEF Enter
    <3>2. CASE Back(t)
      BY <1>6, <1>7, <3>2 DEF Back
    <3>3. CASE Reload(t)
      BY <1>6, <1>7, <3>3 DEF Reload
    <3> QED
      BY <1>8, <3>1, <3>2, <3>3
  <2>2. PICK r \in Tab :
          /\ tab' = [tab EXCEPT ![t] = r] /\ TabFits(r, cookie, session)
          /\ r.csrf = tab[t].csrf /\ (r.out => tab[t].out)
          /\ \/ tab[t].renamed => r.renamed
             \/ \A q \in Reqs : req'[q] # Idle /\ req'[q].op = "me" /\ req'[q].tab = t
                                 /\ req'[q].gone = "none" => req'[q].sid = cookie
    <3>1. CASE Enter(t)
      <4>1. PICK home \in BOOLEAN : tab' = [tab EXCEPT ![t] = Guarded(@, home)]
        BY <3>1 DEF Enter, OtherPaths
      <4>2. /\ Guarded(tab[t], home) \in Tab /\ TabFits(Guarded(tab[t], home), cookie, session)
            /\ Guarded(tab[t], home).csrf = tab[t].csrf /\ ~ Guarded(tab[t], home).out
            /\ Guarded(tab[t], home).renamed = tab[t].renamed
        BY <1>1, TabOperators, TabOperatorsFit
      <4> QED
        BY <4>1, <4>2
    <3>2. CASE Back(t)
      BY <1>1, <3>2, TabOperators, TabOperatorsFit DEF Back
    <3>3. CASE Reload(t)
      <4>1. \A q \in Reqs : req'[q] # Idle /\ req'[q].op = "me" /\ req'[q].tab = t
                             /\ req'[q].gone = "none" => req'[q].sid = cookie
        BY <1>6, <1>7, <3>3 DEF Reload, Kinds
      <4> QED
        BY <1>1, <3>3, <4>1, TabOperators, TabOperatorsFit DEF Reload
    <3> QED
      BY <1>8, <3>1, <3>2, <3>3
  <2>3. Fits(cookie, tab', req', session)
    BY <1>1, <2>1, <2>2, FitsTab
  <2> QED
    BY <1>2, <2>3 DEF BrowserInv
<1> QED
  BY <1>3, <1>4, <1>8

(* The API hands out one session at a time, and never a second user's.     *)
LEMMA SessionsGrow ==
  ASSUME TypeInv, [Next]_vars
  PROVE  Grows(session, session')
<1>1. session \in Rows
  BY Typed
<1>2. CASE UNCHANGED session
  BY <1>2 DEF Grows
<1>3. ASSUME NEW q \in Reqs, LoginGranted(q) PROVE Grows(session, session')
  <2>1. PICK s \in Unused : session' = [session EXCEPT ![s] = [user |-> req[q].user, status |-> "live"]]
    BY <1>3 DEF LoginGranted
  <2> QED
    BY <1>1, <2>1 DEF Grows, Unused, Rows
<1>4. ASSUME NEW x \in txns, Commit(x) PROVE Grows(session, session')
  <2>1. CASE UNCHANGED session
    BY <1>2, <2>1
  <2>2. CASE session' = [session EXCEPT ![x.id].status = "gone"]
    BY <1>1, <2>2 DEF Grows, Rows
  <2>3. x.kind \in {"register", "logout"}
    BY DEF TypeInv, ServerInv, Transaction
  <2> QED
    BY <1>4, <2>1, <2>2, <2>3 DEF Commit
<1>5. ASSUME NEW s \in Sids, Expire(s) PROVE Grows(session, session')
  BY <1>1, <1>5 DEF Expire, Grows, Rows
<1>6. ASSUME NEW q \in Reqs, Handle(q) \/ Hear(q) \/ Lose(q) PROVE Grows(session, session')
  BY <1>2, <1>3, <1>6
     DEF Handle, RegisterLookup, RegisterInsert, LoginDenied, Logout, Read, Mutate, Lose, Hear,
         Arrive, Unauthorized, LoggedOut, LogoutFailed, LoggedIn, SignedUp, Recognised,
         NotRecognised, Loaded, Shown
<1> QED
  BY <1>2, <1>4, <1>5, <1>6 DEF Next, vars, Submit, Use, Enter, Back, Reload

(* What an answer makes of a request. *)
LEMMA AnsweredFits ==
  ASSUME NEW r \in Good, NEW S \in Rows, NEW c, NEW T, RequestFits(r, S), Awaited(r, c, T),
         NEW code \in Codes,
         code = 200 => /\ r.op \notin {"login", "me", "query"}
                       /\ r.op = "mutation" => r.token = r.sid /\ r.sid # NoOne
  PROVE  RequestFits(Answered(r, code), S) /\ Awaited(Answered(r, code), c, T)
<1> DEFINE a == Answered(r, code)
<1>1. /\ a.op = r.op /\ a.tab = r.tab /\ a.user = r.user /\ a.sid = r.sid /\ a.token = r.token
      /\ a.as = r.as /\ a.new = r.new /\ a.gone = r.gone /\ a.code = code
  BY AnsweredFields DEF Good
<1> HIDE DEF a
<1>2. RequestFits(a, S) /\ Awaited(a, c, T)
  BY <1>1 DEF RequestFits, Awaited
<1> QED
  BY <1>2 DEF a

LEMMA BrowserHandle ==
  ASSUME TypeInv, BrowserInv, NEW q \in Reqs, Handle(q) \/ Lose(q), [Next]_vars
  PROVE  BrowserInv'
<1>1. /\ cookie \in Token /\ tab \in TabMap /\ req \in Slots /\ session \in Rows
      /\ Fits(cookie, tab, req, session)
  BY Typed DEF BrowserInv
<1>2. cookie' = cookie /\ tab' = tab /\ session' \in Rows
  BY HandledApart, TypeStep DEF TypeInv, ServerInv, Rows
<1>3. Fits(cookie, tab, req, session')
  BY <1>1, <1>2, SessionsGrow, FitsGrow
<1>4. req[q] \in Good /\ req[q].pc \in {"sent", "looked"}
  BY AtWork DEF Lose, Handle, Handling, RegisterLookup, RegisterInsert, LoginDenied,
                LoginGranted, Logout, Read, Mutate
<1>5. req[q] # Idle /\ req[q].new = NoOne /\ req[q] \in Request
  BY <1>4 DEF Good, ReqOK, Idle
<1>6. RequestFits(req[q], session') /\ Awaited(req[q], cookie, tab)
  BY <1>3, <1>5 DEF Fits
<1>7. ASSUME NEW r \in Good, req' = [req EXCEPT ![q] = r], r.new = NoOne,
             RequestFits(r, session'), Awaited(r, cookie, tab)
      PROVE  BrowserInv'
  BY <1>1, <1>2, <1>3, <1>7, FitsRequest DEF BrowserInv
<1>8. ASSUME NEW code \in Codes, Answer(q, code),
             code = 200 => /\ req[q].op \notin {"login", "me", "query"}
                           /\ req[q].op = "mutation" => req[q].token = req[q].sid /\ req[q].sid # NoOne
      PROVE  BrowserInv'
  <2>1. Answered(req[q], code) \in Good /\ Answered(req[q], code).new = NoOne
    BY <1>4, <1>5, <1>8, AnsweredFields DEF Good, ReqOK
  <2>2. RequestFits(Answered(req[q], code), session') /\ Awaited(Answered(req[q], code), cookie, tab)
    BY <1>2, <1>4, <1>6, <1>8, AnsweredFits
  <2> QED
    BY <1>7, <1>8, <2>1, <2>2 DEF Answer
<1>9. CASE RegisterLookup(q)
  <2>1. CASE Answer(q, 409)
    BY <1>8, <2>1 DEF Codes
  <2>2. CASE req' = [req EXCEPT ![q].pc = "looked"]
    <3> DEFINE r == [req[q] EXCEPT !.pc = "looked"]
    <3>1. r \in Good
      BY <1>4, <1>5, <1>9, MovedOn DEF RegisterLookup, Handling, Good, ReqOK, Progress, Request
    <3>2. r.op = "register" /\ Same(r, [req[q] EXCEPT !.pc = "looked"]) /\ r.new = NoOne
      BY <1>5, <1>9 DEF RegisterLookup, Handling, Same, Request
    <3>3. r.sid = req[q].sid /\ r.token = req[q].token
      BY <1>5 DEF Request
    <3>4. req' = [req EXCEPT ![q] = r]
      BY <1>1, <2>2 DEF Slots
    <3> HIDE DEF r
    <3>5. RequestFits(r, session') /\ Awaited(r, cookie, tab)
      BY <1>5, <1>6, <3>2, <3>3 DEF RequestFits, Awaited
    <3> QED
      BY <1>7, <3>1, <3>2, <3>4, <3>5
  <2> QED
    BY <1>9, <2>1, <2>2 DEF RegisterLookup
<1>10. CASE LoginGranted(q)
  <2>1. PICK s \in Unused :
          /\ session' = [session EXCEPT ![s] = [user |-> req[q].user, status |-> "live"]]
          /\ req' = [req EXCEPT ![q] = [Answered(@, 200) EXCEPT !.new = s]]
    BY <1>10 DEF LoginGranted
  <2> DEFINE r == [Answered(req[q], 200) EXCEPT !.new = s]
  <2>2. /\ r.op = "login" /\ r.tab = req[q].tab /\ r.user = req[q].user /\ r.sid = req[q].sid
        /\ r.token = req[q].token /\ r.new = s
    BY <1>5, <1>10, AnsweredFields DEF LoginGranted, Handling, Codes, Request
  <2>3. s \in Sids /\ s # NoOne /\ s \notin Given(session) /\ s \in Given(session')
    BY <1>1, <2>1, ConstantsAssumption DEF Unused, Given, Rows
  <2>4. session'[s].user = req[q].user
    BY <1>1, <2>1, <2>3 DEF Rows
  <2>5. req' = [req EXCEPT ![q] = r]
    BY <2>1
  <2> HIDE DEF r
  <2>6. RequestFits(r, session') /\ Awaited(r, cookie, tab)
    BY <1>6, <2>2, <2>3, <2>4 DEF RequestFits, Awaited
  <2>7. req'[q] = r /\ \A p \in Reqs \ {q} : req'[p] = req[p]
    BY <1>1, <2>5 DEF Slots
  <2>8. \A p \in Reqs : req'[p] # Idle =>
          RequestFits(req'[p], session') /\ Awaited(req'[p], cookie, tab)
    BY <1>3, <2>6, <2>7 DEF Fits
  <2>9. /\ cookie # s /\ \A t \in Tabs : tab[t].csrf # s
        /\ \A p \in Reqs : req[p] # Idle => req[p].new # s
    BY <1>1, <2>3 DEF Fits, TabFits, RequestFits
  <2>10. ASSUME NEW p \in Reqs, Unheard(req'[p]) PROVE Secret(p, cookie, tab, req')
    <3>1. CASE p = q
      BY <2>2, <2>7, <2>9, <3>1 DEF Secret
    <3>2. CASE p # q
      <4>1. Secret(p, cookie, tab, req) /\ req[p] # Idle
        BY <1>3, <2>7, <2>10, <3>2 DEF Fits, Unheard, Idle
      <4> QED
        BY <2>2, <2>7, <2>9, <3>2, <4>1 DEF Secret
    <3> QED
      BY <3>1, <3>2
  <2>11. Fits(cookie, tab, req', session')
    BY <1>3, <2>8, <2>10 DEF Fits
  <2> QED
    BY <1>2, <2>11 DEF BrowserInv
<1>11. CASE Read(q)
  <2>1. CASE SignedInAs(req[q])
    <3>1. /\ req[q].op \in {"me", "query"} /\ req[q].pc = "sent" /\ session' = session
          /\ req' = [req EXCEPT ![q] = [Answered(@, 200) EXCEPT !.got = session[req[q].sid].user]]
      BY <1>11, <2>1 DEF Read, Handling
    <3>2. req[q].sid \in Sids /\ session[req[q].sid].user \in Emails
      BY <1>5, <2>1 DEF SignedInAs, TypeInv, ServerInv, Request, Token
    <3> DEFINE e == session[req[q].sid].user
               r == [Answered(req[q], 200) EXCEPT !.got = e]
    <3>3. r \in Good
      BY <1>4, <3>1, <3>2, Told
    <3>4. /\ r.op = req[q].op /\ r.tab = req[q].tab /\ r.sid = req[q].sid
          /\ r.token = req[q].token /\ r.new = NoOne /\ r.gone = req[q].gone /\ r.got = e
      BY <1>5, AnsweredFields DEF Codes, Request
    <3>5. req' = [req EXCEPT ![q] = r]
      BY <3>1
    <3> HIDE DEF r
    <3>6. RequestFits(r, session') /\ Awaited(r, cookie, tab)
      BY <1>5, <1>6, <2>1, <3>1, <3>4 DEF RequestFits, Awaited, SignedInAs
    <3> QED
      BY <1>7, <3>3, <3>4, <3>5, <3>6
  <2>2. CASE ~ SignedInAs(req[q])
    BY <1>8, <1>11, <2>2 DEF Read, Codes
  <2> QED
    BY <2>1, <2>2
<1>12. CASE Mutate(q)
  <2> DEFINE code == IF ~ CsrfPass(req[q]) THEN 403 ELSE IF SignedInAs(req[q]) THEN 200 ELSE 401
  <2>1. Answer(q, code) /\ req[q].op = "mutation" /\ code \in Codes
    BY <1>12 DEF Mutate, Handling, Codes
  <2>2. code = 200 => req[q].token = req[q].sid /\ req[q].sid # NoOne
    BY DEF CsrfPass, SignedInAs
  <2> HIDE DEF code
  <2> QED
    BY <1>8, <2>1, <2>2
<1>13. CASE Lose(q) \/ RegisterInsert(q) \/ LoginDenied(q) \/ Logout(q)
  <2>1. PICK code \in Codes : /\ Answer(q, code)
                              /\ code = 200 => req[q].op \in {"register", "logout"}
    BY <1>4, <1>13 DEF Lose, RegisterInsert, LoginDenied, Logout, Handling, Codes, Good, ReqOK
  <2> QED
    BY <1>8, <2>1
<1> QED
  BY <1>9, <1>10, <1>11, <1>12, <1>13 DEF Handle

(* The cookie changes hands: no tab is settled any more. *)
LEMMA FitsUnsettled ==
  ASSUME NEW c \in Token, NEW T \in TabMap, NEW R \in Slots, NEW S \in Rows, Fits(c, T, R, S)
  PROVE  Fits(c, [t \in Tabs |-> [T[t] EXCEPT !.settled = FALSE]], R, S)
<1> DEFINE T2 == [t \in Tabs |-> [T[t] EXCEPT !.settled = FALSE]]
<1>1. ASSUME NEW t \in Tabs
      PROVE  /\ T2[t].csrf = T[t].csrf /\ (T2[t].out => T[t].out) /\ T2[t].page = T[t].page
             /\ T2[t].cache = T[t].cache /\ (T2[t].renamed <=> T[t].renamed)
             /\ T2[t].user = T[t].user /\ (T2[t].home <=> T[t].home)
  BY DEF TabMap, Tab
<1> HIDE DEF T2
<1>2. ASSUME NEW t \in Tabs PROVE TabFits(T2[t], c, S)
  <2>1. TabFits(T[t], c, S)
    BY DEF Fits
  <2> QED
    BY <1>1, <2>1 DEF TabFits
<1>3. ASSUME NEW q \in Reqs, R[q] # Idle PROVE RequestFits(R[q], S) /\ Awaited(R[q], c, T2)
  <2>1. RequestFits(R[q], S) /\ Awaited(R[q], c, T) /\ R[q].tab \in Tabs
    BY <1>3 DEF Fits, Slots, Good, Request
  <2> QED
    BY <1>1, <2>1 DEF Awaited
<1>4. ASSUME NEW q \in Reqs, Unheard(R[q]) PROVE Secret(q, c, T2, R)
  BY <1>1, <1>4 DEF Fits, Secret
<1>5. Fits(c, T2, R, S)
  BY <1>2, <1>3, <1>4 DEF Fits
<1> QED
  BY <1>5 DEF T2

(* The Set-Cookie of a login or of a logout. *)
LEMMA BrowserArrive ==
  ASSUME TypeInv, BrowserInv, NEW q \in Reqs, req[q] \in Good, Arrive(q)
  PROVE  BrowserInv'
<1>1. /\ cookie \in Token /\ tab \in TabMap /\ req \in Slots /\ session \in Rows
      /\ Fits(cookie, tab, req, session)
  BY Typed DEF BrowserInv
<1>2. req[q] # Idle /\ req[q].pc = "answered" /\ req[q].new \in Token
  BY DEF Arrive, Idle, Good, Request
<1>3. RequestFits(req[q], session) /\ Awaited(req[q], cookie, tab)
  BY <1>1, <1>2 DEF Fits
<1> DEFINE r == [req[q] EXCEPT !.pc = "arrived"]
           d == req[q].new
<1>4. /\ r \in Request /\ r.pc = "arrived"
      /\ r.op = req[q].op /\ r.tab = req[q].tab /\ r.user = req[q].user /\ r.sid = req[q].sid
      /\ r.token = req[q].token /\ r.as = req[q].as /\ r.code = req[q].code
      /\ r.got = req[q].got /\ r.new = req[q].new /\ r.gone = req[q].gone
  BY DEF Good, Request
<1>5. req' = [req EXCEPT ![q] = r] /\ session' = session
  BY <1>1 DEF Arrive, Slots
<1> HIDE DEF r
<1>6. r \in Good /\ RequestFits(r, session) /\ Awaited(r, cookie, tab) /\ ~ Unheard(r)
  BY <1>3, <1>4 DEF Good, ReqOK, RequestFits, Awaited, Unheard
<1>7. Fits(cookie, tab, req', session) /\ req' \in Slots
  BY <1>1, <1>2, <1>4, <1>5, <1>6, FitsRequest, SetAside
<1>8. CASE UNCHANGED <<cookie, tab>>
  BY <1>5, <1>7, <1>8 DEF BrowserInv
<1>9. CASE /\ cookie' = d
           /\ tab' = [t \in Tabs |-> [tab[t] EXCEPT !.settled = FALSE]]
  <2>1. d \in Given(session) /\ d \in Token
    BY <1>2, <1>3 DEF RequestFits
  <2>2. d # NoOne => \A t \in Tabs : tab[t].csrf # d
    BY <1>1, <1>2 DEF Fits, Unheard, Secret
  <2>3. ASSUME NEW p \in Reqs, Unheard(req'[p]) PROVE req'[p].new # d
    <3>1. p # q /\ req'[p] = req[p]
      BY <1>1, <1>5, <1>6, <2>3 DEF Slots
    <3>2. Secret(p, cookie, tab, req)
      BY <1>1, <2>3, <3>1 DEF Fits
    <3> QED
      BY <1>2, <3>1, <3>2 DEF Secret
  <2>4. Fits(d, tab, req', session)
    BY <1>1, <1>7, <2>1, <2>2, <2>3, FitsCookie
  <2>5. Fits(d, tab', req', session)
    BY <1>1, <1>7, <1>9, <2>1, <2>4, FitsUnsettled
  <2> QED
    BY <1>5, <1>9, <2>5 DEF BrowserInv
<1> QED
  BY <1>8, <1>9 DEF Arrive

(* login() takes the token of the session whose cookie has come. *)
LEMMA BrowserLoggedIn ==
  ASSUME TypeInv, BrowserInv, NEW q \in Reqs, req[q] \in Good, LoggedIn(q)
  PROVE  BrowserInv'
<1>1. /\ cookie \in Token /\ tab \in TabMap /\ req \in Slots /\ session \in Rows
      /\ Fits(cookie, tab, req, session)
  BY Typed DEF BrowserInv
<1>2. /\ req[q].op = "login" /\ req[q].code = 200 /\ req[q].pc = "arrived" /\ req[q] # Idle
      /\ req[q].tab \in Tabs /\ req[q].new \in Sids /\ req[q].user \in Emails
  BY DEF LoggedIn, Heard, SetsCookie, Good, Request, ReqOK, Forms, Idle
<1> DEFINE x == req[q].tab
           s == req[q].new
           e == req[q].user
           ops == IF tab[x].home THEN Forms ELSE Forms \union {"me"}
           R == Outlive(x, ops, "component")
           f == SignedIn(tab[x], s, e, Waits(x))
           T == [tab EXCEPT ![x] = f]
<1>3. ops \in SUBSET Kinds
  BY DEF Forms, Kinds
<1>4. Fits(cookie, tab, R, session) /\ R \in Slots
  BY <1>2, <1>3, FitsOutlive, OutliveGood
<1>5. R[q] # Idle /\ R[q].pc = "arrived" /\ R[q].new = s
  BY <1>2, <1>3, OutliveOne DEF Same, Idle
<1>6. ASSUME NEW p \in Reqs, R[p] # Idle, R[p].op = "me", R[p].tab = x, R[p].gone = "none"
      PROVE  tab[x].home /\ Waits(x)
  <2>1. req[p] \in Good
    BY <1>1, <1>2, <1>3, <1>6, OutliveOne DEF Slots
  <2>2. /\ Same(R[p], req[p])
        /\ IF req[p].op \in ops /\ req[p].tab = x /\ req[p].gone # "page"
           THEN R[p].gone = "component" ELSE R[p].gone = req[p].gone
    BY <1>2, <1>3, <2>1, OutliveOne
  <2>3. req[p].op = "me" /\ req[p].tab = x /\ "me" \notin ops
    BY <1>6, <2>2 DEF Same
  <2>4. req[p].gone = "none"
    BY <1>6, <2>2, <2>3
  <2> QED
    BY <2>3, <2>4 DEF Waits
<1>7. tab' = T /\ req' = [R EXCEPT ![q] = Idle] /\ cookie' = cookie /\ session' = session
  BY DEF LoggedIn
<1>8. /\ f \in Tab /\ f.csrf = s /\ f.user = e /\ ~ f.out /\ (f.home => f.page = "app")
      /\ tab[x].home /\ Waits(x) => f.renamed
  <2>1. /\ tab[x] \in Tab /\ s \in Token /\ e \in User /\ e # NoOne
        /\ Waits(x) \in BOOLEAN /\ TabFits(tab[x], cookie, session)
    BY <1>1, <1>2, ConstantsAssumption DEF TabMap, Token, User, Waits, Fits
  <2>2. f.home => f.page = "app"
    <3> HIDE DEF s, e
    <3> QED
      BY <2>1, SignedInPlace DEF TabFits
  <2> QED
    BY <2>1, <2>2, SignedInTab, SignedInFields DEF TabFits
<1> HIDE DEF f, R
<1>9. T[x] = f /\ \A t \in Tabs \ {x} : T[t] = tab[t]
  BY <1>1, <1>2 DEF TabMap
<1>10. T \in TabMap
  BY <1>1, <1>8 DEF TabMap
<1> HIDE DEF T
<1>11. TabFits(f, cookie, session)
  <2>1. s \in Given(session) /\ session[s].user = e
    BY <1>1, <1>2, ConstantsAssumption DEF Fits, RequestFits
  <2> QED
    BY <1>8, <2>1 DEF TabFits
<1>12. ASSUME NEW p \in Reqs, R[p] # Idle
       PROVE  RequestFits(R[p], session) /\ Awaited(R[p], cookie, T)
  <2>1. RequestFits(R[p], session) /\ Awaited(R[p], cookie, tab) /\ R[p].tab \in Tabs
    BY <1>4, <1>12 DEF Fits, Slots, Good, Request
  <2> QED
    BY <1>6, <1>8, <1>9, <1>12, <2>1 DEF Awaited
<1>13. ASSUME NEW p \in Reqs, Unheard(R[p]) PROVE Secret(p, cookie, T, R)
  <2>1. Secret(p, cookie, tab, R) /\ p # q
    BY <1>4, <1>5, <1>13 DEF Fits, Unheard
  <2> QED
    BY <1>5, <1>8, <1>9, <2>1 DEF Secret
<1>14. Fits(cookie, T, R, session)
  BY <1>4, <1>9, <1>11, <1>12, <1>13 DEF Fits
<1>15. Fits(cookie, T, [R EXCEPT ![q] = Idle], session)
  BY <1>1, <1>4, <1>10, <1>14, FitsRequest
<1> QED
  BY <1>7, <1>15 DEF BrowserInv

(* A 401, and a logout that went well. *)
LEMMA BrowserSignOut ==
  ASSUME TypeInv, BrowserInv, NEW q \in Reqs, NEW t \in Tabs, SignOut(q, t),
         UNCHANGED <<cookie, session>>
  PROVE  BrowserInv'
<1>1. /\ cookie \in Token /\ tab \in TabMap /\ req \in Slots /\ session \in Rows
      /\ Fits(cookie, tab, req, session) /\ TabFits(tab[t], cookie, session) /\ tab[t] \in Tab
      /\ NoOne \in Given(session)
  BY Typed DEF BrowserInv, Fits, TabMap, Given
<1> DEFINE ops == {"me", "query"}
           R == Outlive(t, ops, "component")
           f == SignedOut(tab[t])
<1>2. {"me", "query"} \in SUBSET Kinds
  BY DEF Kinds
<1>3. Fits(cookie, tab, R, session) /\ R \in Slots
  BY <1>2, FitsOutlive, OutliveGood
<1>4. ASSUME NEW p \in Reqs, R[p] # Idle, R[p].op = "query", R[p].tab = t PROVE R[p].gone # "none"
  <2>1. req[p] \in Good
    BY <1>1, <1>2, <1>4, OutliveOne DEF Slots
  <2>2. /\ Same(R[p], req[p])
        /\ IF req[p].op \in ops /\ req[p].tab = t /\ req[p].gone # "page"
           THEN R[p].gone = "component" ELSE R[p].gone = req[p].gone
    BY <1>2, <2>1, OutliveOne
  <2> QED
    BY <1>4, <2>2 DEF Same
<1>5. f \in Tab /\ TabFits(f, cookie, session) /\ f.csrf = NoOne
  BY <1>1, TabOperators, TabOperatorsFit
<1>6. tab' = [tab EXCEPT ![t] = f] /\ req' = [R EXCEPT ![q] = Idle]
  BY DEF SignOut
<1> HIDE DEF f, R
<1>7. Fits(cookie, [tab EXCEPT ![t] = f], R, session) /\ [tab EXCEPT ![t] = f] \in TabMap
  BY <1>1, <1>3, <1>4, <1>5, FitsTab DEF TabMap
<1>8. Fits(cookie, tab', req', session)
  BY <1>1, <1>3, <1>6, <1>7, FitsRequest
<1> QED
  BY <1>8 DEF BrowserInv

LEMMA BrowserHear ==
  ASSUME TypeInv, BrowserInv, NEW q \in Reqs, Hear(q)
  PROVE  BrowserInv'
<1>1. /\ cookie \in Token /\ tab \in TabMap /\ req \in Slots /\ session \in Rows
      /\ Fits(cookie, tab, req, session) /\ NoOne \in Given(session)
  BY Typed DEF BrowserInv, Given
<1> DEFINE x == req[q].tab
<1>2. req[q] \in Good /\ x \in Tabs /\ req[q] \in Request /\ ReqOK(req[q])
  BY HeardGood DEF Good
<1>3. TabFits(tab[x], cookie, session) /\ tab[x] \in Tab
  BY <1>1, <1>2 DEF Fits, TabMap
<1>4. CASE Arrive(q)
  BY <1>2, <1>4, BrowserArrive
<1>5. CASE LoggedIn(q)
  BY <1>2, <1>5, BrowserLoggedIn
<1>6. CASE Unauthorized(q) \/ LoggedOut(q)
  BY <1>2, <1>6, BrowserSignOut DEF Unauthorized, LoggedOut
<1>7. CASE SignedUp(q)
  <2> DEFINE f == Fetch(x, "login", req[q].user)
  <2>1. req[q].user \in Emails /\ req[q].gone \in {"none", "component"}
    BY <1>2, <1>7 DEF SignedUp, Heard, ReqOK, Forms, Request
  <2>2. f \in Good /\ RequestFits(f, session) /\ f.new = NoOne /\ f.op = "login"
    <3>1. RequestFits(f, session) /\ f.new = NoOne
      BY <1>2, <2>1, FetchFits DEF Kinds, User
    <3>2. f \in Good
      BY <1>2, <2>1, FetchGood DEF Kinds, User
    <3> QED
      BY <3>1, <3>2 DEF Fetch
  <2> HIDE DEF f
  <2>3. [f EXCEPT !.gone = req[q].gone] \in Good
    BY <2>1, <2>2 DEF Good, Request, ReqOK
  <2> DEFINE r == [f EXCEPT !.gone = req[q].gone]
  <2>4. r.op = "login" /\ r.sid = f.sid /\ r.token = f.token /\ r.new = NoOne
    BY <2>2 DEF Good, Request
  <2>5. req' = [req EXCEPT ![q] = r]
    BY <1>7 DEF SignedUp, f
  <2> HIDE DEF r
  <2>6. RequestFits(r, session) /\ Awaited(r, cookie, tab) /\ r \in Good
    BY <2>2, <2>3, <2>4 DEF RequestFits, Awaited, r
  <2>7. Fits(cookie, tab, req', session)
    BY <1>1, <2>4, <2>5, <2>6, FitsRequest
  <2> QED
    BY <1>7, <2>7 DEF SignedUp, BrowserInv
<1>8. ASSUME NEW r \in Tab, TabFits(r, cookie, session), r.csrf \in {tab[x].csrf, NoOne},
             r.out => tab[x].out,
             r.csrf = NoOne \/ (tab[x].renamed => r.renamed),
             tab' = tab \/ tab' = [tab EXCEPT ![x] = r],
             req' = [req EXCEPT ![q] = Idle], UNCHANGED <<cookie, session>>
      PROVE  BrowserInv'
  <2>1. Fits(cookie, tab', req, session) /\ tab' \in TabMap
    <3>1. CASE tab' = tab
      BY <1>1, <3>1
    <3>2. CASE tab' = [tab EXCEPT ![x] = r]
      BY <1>1, <1>2, <1>8, <3>2, FitsTab DEF TabMap
    <3> QED
      BY <1>8, <3>1, <3>2
  <2>2. Fits(cookie, tab', [req EXCEPT ![q] = Idle], session)
    BY <1>1, <2>1, FitsRequest
  <2> QED
    BY <1>8, <2>2 DEF BrowserInv
<1>9. CASE LogoutFailed(q)
  <2> DEFINE r == Cleared(tab[x])
  <2>1. r \in Tab /\ TabFits(r, cookie, session) /\ r.csrf = NoOne /\ (r.out => tab[x].out)
    BY <1>1, <1>3, TabOperators, TabOperatorsFit
  <2>2. /\ tab' = [tab EXCEPT ![x] = r] /\ req' = [req EXCEPT ![q] = Idle]
        /\ UNCHANGED <<cookie, session>>
    BY <1>9 DEF LogoutFailed
  <2> HIDE DEF r
  <2> QED
    BY <1>8, <2>1, <2>2
<1>10. CASE NotRecognised(q)
  BY <1>1, <1>3, <1>8, <1>10, TabOperators, TabOperatorsFit DEF NotRecognised
<1>11. CASE Shown(q)
  BY <1>3, <1>8, <1>11 DEF Shown
<1>12. CASE Recognised(q)
  <2> DEFINE r == Known(tab[x], req[q].got, req[q].gone = "none")
  <2>1. /\ req[q].op = "me" /\ req[q].code = 200 /\ req[q] # Idle /\ req[q].got \in User
        /\ RequestFits(req[q], session) /\ Awaited(req[q], cookie, tab)
    BY <1>1, <1>2, <1>12 DEF Recognised, Idle, Fits, Request
  <2>2. /\ r \in Tab /\ r.csrf = tab[x].csrf /\ (r.out => tab[x].out)
        /\ r.page = tab[x].page /\ r.cache = tab[x].cache
        /\ r.home = tab[x].home /\ (tab[x].renamed => r.renamed)
        /\ r.user = req[q].got
        /\ IF req[q].gone = "none" THEN r.renamed = tab[x].renamed ELSE r.renamed
    BY <1>3, <2>1, KnownTab DEF Known, Tab
  <2>3. tab' = [tab EXCEPT ![x] = r]
    BY <1>12 DEF Recognised
  <2> HIDE DEF r
  <2>4. TabFits(r, cookie, session)
    BY <1>3, <2>1, <2>2 DEF TabFits, RequestFits, Awaited
  <2> QED
    BY <1>8, <1>12, <2>2, <2>3, <2>4 DEF Recognised
<1>13. CASE Loaded(q)
  <2> DEFINE r == Filled(tab[x], req[q].got)
  <2>1. CASE req[q].gone = "none"
    <3>1. req[q].op = "query" /\ req[q] # Idle /\ req[q].got \in Emails
      BY <1>2, <1>13 DEF Loaded, Idle, ReqOK
    <3>2. ~ tab[x].out
      BY <1>1, <2>1, <3>1 DEF Fits, Awaited
    <3>3. /\ r \in Tab /\ r.csrf = tab[x].csrf /\ (r.out => tab[x].out) /\ r.page = tab[x].page
          /\ r.user = tab[x].user /\ r.home = tab[x].home
          /\ (r.renamed <=> tab[x].renamed)
      BY <1>3, <3>1, FilledTab DEF Filled, Tab
    <3>4. tab' = [tab EXCEPT ![x] = r]
      BY <1>13, <2>1 DEF Loaded
    <3> HIDE DEF r
    <3>5. TabFits(r, cookie, session)
      BY <1>3, <3>2, <3>3 DEF TabFits
    <3> QED
      BY <1>8, <1>13, <3>3, <3>4, <3>5 DEF Loaded
  <2>2. CASE req[q].gone # "none"
    BY <1>3, <1>8, <1>13, <2>2 DEF Loaded
  <2> QED
    BY <2>1, <2>2
<1> QED
  BY <1>4, <1>5, <1>6, <1>7, <1>9, <1>10, <1>11, <1>12, <1>13 DEF Hear

LEMMA BrowserStep == TypeInv /\ BrowserInv /\ [Next]_vars => BrowserInv'
<1> SUFFICES ASSUME TypeInv, BrowserInv, [Next]_vars PROVE BrowserInv'
  OBVIOUS
<1>1. CASE UNCHANGED <<cookie, tab, req>>
  <2>1. session' \in Rows
    BY TypeStep DEF TypeInv, ServerInv, Rows
  <2>2. Fits(cookie, tab, req, session')
    BY <2>1, Typed, SessionsGrow, FitsGrow DEF BrowserInv
  <2> QED
    BY <1>1, <2>2 DEF BrowserInv
<1> QED
  BY <1>1, BrowserTab, BrowserHandle, BrowserHear DEF Next, vars, Commit, Expire

LEMMA BrowserInit == Init => BrowserInv
<1> SUFFICES ASSUME Init PROVE Fits(cookie, tab, req, session)
  BY DEF BrowserInv
<1>1. \A t \in Tabs : TabFits(tab[t], cookie, session)
  BY DEF Init, NewTab, TabFits, Given
<1> QED
  BY <1>1 DEF Init, Fits, Given, Idle, Unheard

(* What a tab changes, it changes as the user whose name it shows, for any *)
(* number of tabs: a token that passes csrf.py belongs to the cookie's     *)
(* session, and the user that a tab with such a token knows is that        *)
(* session's, unless a /me of before its login renamed it or will.  Where  *)
(* the tab still shows the name of before a login nothing is claimed.      *)
THEOREM NobodyElse == Spec => []ActsAsShown
<1>1. TypeInv /\ BrowserInv => ActsAsShown
  <2> SUFFICES ASSUME TypeInv, BrowserInv, NEW q \in Reqs, req[q].op = "mutation",
                      req[q].code = 200, req[q].as # NoOne
               PROVE  session[req[q].sid].user = req[q].as
    BY DEF ActsAsShown
  <2>1. req[q] # Idle
    BY DEF Idle
  <2> QED
    BY <2>1 DEF BrowserInv, Fits, RequestFits
<1> QED
  BY <1>1, TypeInit, TypeStep, BrowserInit, BrowserStep, PTL DEF Spec

(* A tab that was signed out keeps neither token nor data, whatever is     *)
(* still on its way to it.                                                 *)
THEOREM NothingKept == Spec => []SignedOutForgets
<1>1. BrowserInv => SignedOutForgets
  BY DEF BrowserInv, Fits, TabFits, SignedOutForgets
<1> QED
  BY <1>1, TypeInit, TypeStep, BrowserInit, BrowserStep, PTL DEF Spec

==============================================================================
