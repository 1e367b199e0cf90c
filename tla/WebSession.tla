------------------------------ MODULE WebSession ------------------------------
(***************************************************************************)
(* Signing in and out of the web application: the browser tabs             *)
(* (apps/web/src/lib/session.ts, lib/auth.ts, lib/api.ts, pages/SignIn.tsx,*)
(* components/Layout.tsx), the cookie jar they share, and the API behind   *)
(* them (apps/api/app/routers/auth.py, middleware/csrf.py).                *)
(*                                                                         *)
(* A request leaves a tab with the cookie and the CSRF token of that       *)
(* moment, is handled later, and its answer is heard later still: by then  *)
(* the tab may show another page, have signed in anew or been reloaded, and*)
(* another tab may have replaced the cookie.  Nothing aborts a request.    *)
(*                                                                         *)
(* Left out: passwords (a login guesses right or wrong), the role and the  *)
(* is_active flag, which no route changes, rate limits, and the audit rows *)
(* of logins.  A session's CSRF token is named by the session's id: every  *)
(* session draws a token of its own.                                       *)
(***************************************************************************)
EXTENDS Naturals

CONSTANTS
  Emails,      \* the addresses people sign up with
  Registered,  \* those that have an account before the behaviour starts
  Tabs,        \* the tabs of one browser
  Sids,        \* the sessions the API may hand out: bounds the logins
  Reqs,        \* slots for requests in flight at once
  NoOne,       \* no user, no session, no token
  MaxSent,     \* bound on the requests the user makes
  MaxMoves,    \* bound on how often the user moves between pages or reloads
  MaxFaults    \* bound on the requests that are lost and the sessions that expire

ASSUME ConstantsAssumption ==
  /\ Registered \subseteq Emails
  /\ NoOne \notin Emails \union Sids
  /\ MaxSent \in Nat /\ MaxMoves \in Nat /\ MaxFaults \in Nat

VARIABLES
  accounts,  \* how many committed users rows every address has
  session,   \* every session row: whose it is, and whether it still counts
  txns,      \* the API's transactions that commit only after their answer
  cookie,    \* the sid cookie of the browser
  tab,       \* every tab
  req,       \* every request slot
  used       \* how much of the bounds is used up

vars == <<accounts, session, txns, cookie, tab, req, used>>

-----------------------------------------------------------------------------
(* Data *)

User  == Emails \union {NoOne}
Token == Sids \union {NoOne}

(* csrf and user are the two variables of lib/session.ts, auth and shown   *)
(* the two states of Layout, cache the users whose data the query cache    *)
(* holds; home tells the path /operations from the application's others.   *)
(* Three flags are kept for the properties only: the tab was sent to the   *)
(* sign-in page by a sign-out; nothing has touched the cookie or the token *)
(* since its own login; a /me of before that login renamed its user, or    *)
(* will.                                                                   *)
Tab == [csrf : Token, user : User, page : {"sign-in", "app"}, home : BOOLEAN,
        auth : {"checking", "authed", "anon"}, shown : User, cache : SUBSET Emails,
        out : BOOLEAN, settled : BOOLEAN, renamed : BOOLEAN]

NewTab == [csrf |-> NoOne, user |-> NoOne, page |-> "sign-in", home |-> FALSE,
           auth |-> "anon", shown |-> NoOne, cache |-> {},
           out |-> FALSE, settled |-> FALSE, renamed |-> FALSE]

Transaction == [kind : {"register"}, id : Emails] \union [kind : {"logout"}, id : Sids]

(* sid and token are what the browser sent along; user is the address in   *)
(* the form, got and new what the answer brings; as, for the properties,   *)
(* is the name the tab then showed, when that is the user lib/session.ts   *)
(* has and renamed is not set.  An answer of code 0 never came.  What sent *)
(* a request may be gone when it is answered: the component ("component")  *)
(* or the whole page load ("page").                                        *)
Request == [op : {"login", "register", "logout", "me", "query", "mutation"},
            pc : {"sent", "looked", "answered", "arrived"},
            tab : Tabs, user : User, sid : Token, token : Token, as : User,
            code : {0, 200, 401, 403, 409, 500}, got : User, new : Token,
            gone : {"none", "component", "page"}]

Idle == [op |-> "none", pc |-> "idle"]

Init ==
  /\ accounts = [e \in Emails |-> IF e \in Registered THEN 1 ELSE 0]
  /\ session  = [s \in Sids |-> [user |-> NoOne, status |-> "free"]]
  /\ txns   = {}
  /\ cookie = NoOne
  /\ tab    = [t \in Tabs |-> NewTab]
  /\ req    = [q \in Reqs |-> Idle]
  /\ used   = [sent |-> 0, moves |-> 0, faults |-> 0]

-----------------------------------------------------------------------------
(* Requests leave *)

Kinds == {"login", "register", "logout", "me", "query", "mutation"}
Forms == {"login", "register"}

(* request() of lib/api.ts: the cookie goes with everything, the token with *)
(* what mutates.  login and register look at neither.                       *)
Fetch(t, op, email) ==
  [op |-> op, pc |-> "sent", tab |-> t, user |-> email,
   sid |-> IF op \in Forms THEN NoOne ELSE cookie,
   token |-> IF op \in {"logout", "mutation"} THEN tab[t].csrf ELSE NoOne,
   as |-> IF op = "mutation" /\ ~ tab[t].renamed /\ tab[t].shown = tab[t].user
          THEN tab[t].shown ELSE NoOne,
   code |-> 0, got |-> NoOne, new |-> NoOne, gone |-> "none"]

(* The requests of tab t of these kinds outlive what sent them. *)
Outlive(t, ops, what) ==
  [q \in Reqs |-> IF req[q].op \in ops /\ req[q].tab = t /\ req[q].gone # "page"
                  THEN [req[q] EXCEPT !.gone = what] ELSE req[q]]

Free == {q \in Reqs : req[q] = Idle}

(* Whichever slot is free does: slots have no names in the program. *)
Send(slots, r) == Free # {} /\ req' = [slots EXCEPT ![CHOOSE q \in Free : TRUE] = r]

Click == /\ used.sent < MaxSent
         /\ used' = [used EXCEPT !.sent = @ + 1]

(* SignIn.handleSubmit, for either mode of the form.  The button stays     *)
(* disabled while the form's own request is out.                           *)
Submit(t) ==
  /\ Click
  /\ tab[t].page = "sign-in"
  /\ \A q \in Reqs : ~ (req[q].op \in Forms /\ req[q].tab = t /\ req[q].gone = "none")
  /\ \E op \in Forms, e \in Emails : Send(req, Fetch(t, op, e))
  /\ UNCHANGED <<accounts, session, txns, cookie, tab>>

(* Layout draws the rail, the page and the Exit button only once authed:   *)
(* the page's queries and mutations and handleLogout's request follow.     *)
Use(t) ==
  /\ Click
  /\ tab[t].page = "app" /\ tab[t].auth = "authed"
  /\ \E op \in {"query", "mutation", "logout"} : Send(req, Fetch(t, op, NoOne))
  /\ UNCHANGED <<accounts, session, txns, cookie, tab>>

-----------------------------------------------------------------------------
(* Moving between the pages *)

Move == /\ used.moves < MaxMoves
        /\ used' = [used EXCEPT !.moves = @ + 1]

(* Layout when it mounts, and again when the path changes under it, as its *)
(* effect depends on navigate: a known user is shown at once.              *)
Guarded(r, home) ==
  IF r.user # NoOne
  THEN [r EXCEPT !.page = "app", !.home = home, !.auth = "authed", !.shown = r.user,
                 !.out = FALSE]
  ELSE IF r.page = "app" THEN [r EXCEPT !.home = home]
  ELSE [r EXCEPT !.page = "app", !.home = home, !.auth = "checking", !.shown = NoOne,
                 !.out = FALSE]

(* To a path the tab does not show. *)
OtherPaths(r) == IF r.home THEN {FALSE} ELSE BOOLEAN

(* A user it does not know it asks the API for; an earlier question of its *)
(* is cancelled, and the form that the tab leaves outlived.                *)
Enter(t) ==
  /\ Move
  /\ \E home \in OtherPaths(tab[t]) : tab' = [tab EXCEPT ![t] = Guarded(@, home)]
  /\ LET left == Outlive(t, Forms \union {"me"}, "component")
     IN IF tab[t].user # NoOne THEN req' = left
        ELSE Send(left, Fetch(t, "me", NoOne))
  /\ UNCHANGED <<accounts, session, txns, cookie>>

Away(r) == [r EXCEPT !.page = "sign-in", !.home = FALSE, !.auth = "anon", !.shown = NoOne]

(* Back to the sign-in page, which login() left in the history: the Layout *)
(* unmounts, the cache stays.                                              *)
Back(t) ==
  /\ Move
  /\ tab[t].page = "app"
  /\ tab' = [tab EXCEPT ![t] = Away(@)]
  /\ req' = Outlive(t, {"me"}, "component")
  /\ UNCHANGED <<accounts, session, txns, cookie>>

(* Seeded bug: the token is kept in memory only. *)
Reloaded_Forgets(r) ==
  [NewTab EXCEPT !.page = r.page, !.home = r.home, !.settled = r.settled,
                 !.auth = IF r.page = "app" THEN "checking" ELSE "anon"]

(* A reload loses everything but the token in sessionStorage.              *)
Reloaded(r) ==
  [NewTab EXCEPT !.csrf = r.csrf, !.page = r.page, !.home = r.home, !.settled = r.settled,
                 !.auth = IF r.page = "app" THEN "checking" ELSE "anon"]

Reload(t) ==
  /\ Move
  /\ tab' = [tab EXCEPT ![t] = Reloaded(@)]
  /\ LET left == Outlive(t, Kinds, "page")
     IN IF tab[t].page = "sign-in" THEN req' = left
        ELSE Send(left, Fetch(t, "me", NoOne))
  /\ UNCHANGED <<accounts, session, txns, cookie>>

-----------------------------------------------------------------------------
(* The API handles them *)

Answered(r, code) == [r EXCEPT !.pc = "answered", !.code = code]

Answer(q, code) == req' = [req EXCEPT ![q] = Answered(@, code)]

Handling(q, op) == req[q].pc = "sent" /\ req[q].op = op

(* register looks the address up ... *)
RegisterLookup(q) ==
  /\ Handling(q, "register")
  /\ IF accounts[req[q].user] > 0 THEN Answer(q, 409)
     ELSE req' = [req EXCEPT ![q].pc = "looked"]
  /\ UNCHANGED <<accounts, session, txns, cookie, tab, used>>

(* ... and inserts the row: the unique column makes it wait for a          *)
(* transaction that inserted the same address, and refuses it when that    *)
(* one committed.  Its own commit is left to get_db, after the answer.     *)
Inserting(e) == [kind |-> "register", id |-> e]

(* Seeded bug: the column is not unique. *)
Unique_Unchecked(e) == TRUE

Unique(e) == accounts[e] = 0

RegisterInsert(q) ==
  /\ req[q].pc = "looked"
  /\ Inserting(req[q].user) \notin txns
  /\ \/ /\ ~ Unique(req[q].user)
        /\ Answer(q, 500)
        /\ UNCHANGED txns
     \/ /\ Unique(req[q].user)
        /\ Answer(q, 200)
        /\ txns' = txns \union {Inserting(req[q].user)}
  /\ UNCHANGED <<accounts, session, cookie, tab, used>>

(* login: the user is not found, or the password wrong; or a new session   *)
(* is committed, and then answered with.                                   *)
LoginDenied(q) ==
  /\ Handling(q, "login")
  /\ Answer(q, 401)
  /\ UNCHANGED <<accounts, session, txns, cookie, tab, used>>

Unused == {s \in Sids : session[s].status = "free"}

LoginGranted(q) ==
  /\ Handling(q, "login")
  /\ accounts[req[q].user] > 0
  /\ Unused # {}
  /\ LET s == CHOOSE s \in Unused : TRUE IN
       /\ session' = [session EXCEPT ![s] = [user |-> req[q].user, status |-> "live"]]
       /\ req' = [req EXCEPT ![q] = [Answered(@, 200) EXCEPT !.new = s]]
  /\ UNCHANGED <<accounts, txns, cookie, tab, used>>

(* Seeded bug: any token does. *)
CsrfPass_AnyToken(r) ==
  r.sid = NoOne \/ (session[r.sid].status \in {"live", "expired"} /\ r.token # NoOne)

(* CSRFMiddleware: a mutation that comes with a cookie needs the token of  *)
(* that cookie's session, expired or not.                                  *)
CsrfPass(r) ==
  r.sid = NoOne \/ (session[r.sid].status \in {"live", "expired"} /\ r.token = r.sid)

(* get_current_user: the session of the cookie, while it is valid. *)
SignedInAs(r) == r.sid # NoOne /\ session[r.sid].status = "live"

(* logout deletes the row it finds in a transaction that get_db commits    *)
(* after the answer; the answer drops the cookie whatever was found.       *)
Deleting(s) == [kind |-> "logout", id |-> s]

LeftToCommit(r) == IF r.sid = NoOne THEN {} ELSE {Deleting(r.sid)}

Logout(q) ==
  /\ Handling(q, "logout")
  /\ IF CsrfPass(req[q])
     THEN /\ Answer(q, 200)
          /\ txns' = txns \union LeftToCommit(req[q])
     ELSE Answer(q, 403) /\ UNCHANGED txns
  /\ UNCHANGED <<accounts, session, cookie, tab, used>>

(* me and every other GET need a user only. *)
Read(q) ==
  /\ Handling(q, "me") \/ Handling(q, "query")
  /\ IF SignedInAs(req[q])
     THEN req' = [req EXCEPT ![q] = [Answered(@, 200) EXCEPT !.got = session[req[q].sid].user]]
     ELSE Answer(q, 401)
  /\ UNCHANGED <<accounts, session, txns, cookie, tab, used>>

(* What mutates passes the middleware first. *)
Mutate(q) ==
  /\ Handling(q, "mutation")
  /\ Answer(q, IF ~ CsrfPass(req[q]) THEN 403 ELSE IF SignedInAs(req[q]) THEN 200 ELSE 401)
  /\ UNCHANGED <<accounts, session, txns, cookie, tab, used>>

(* A commit that get_db left for after the answer. *)
Commit(x) ==
  /\ txns' = txns \ {x}
  /\ CASE x.kind = "register" -> /\ accounts' = [accounts EXCEPT ![x.id] = @ + 1]
                                 /\ UNCHANGED session
       [] x.kind = "logout"   -> /\ session' = [session EXCEPT ![x.id].status = "gone"]
                                 /\ UNCHANGED accounts
  /\ UNCHANGED <<cookie, tab, req, used>>

Fault == /\ used.faults < MaxFaults
         /\ used' = [used EXCEPT !.faults = @ + 1]

(* A session passes its expires_at. *)
Expire(s) ==
  /\ Fault
  /\ session[s].status = "live"
  /\ session' = [session EXCEPT ![s].status = "expired"]
  /\ UNCHANGED <<accounts, txns, cookie, tab, req>>

-----------------------------------------------------------------------------
(* Answers are heard *)

SetsCookie(r) == r.op \in {"login", "logout"} /\ r.code = 200

(* The browser takes the answer's Set-Cookie before the page's code runs;  *)
(* whether it still does for a page load that is gone is its own business. *)
Arrive(q) ==
  /\ req[q].pc = "answered" /\ SetsCookie(req[q])
  /\ \/ /\ cookie' = req[q].new
        /\ tab' = [t \in Tabs |-> [tab[t] EXCEPT !.settled = FALSE]]
     \/ req[q].gone = "page" /\ UNCHANGED <<cookie, tab>>
  /\ req' = [req EXCEPT ![q].pc = "arrived"]
  /\ UNCHANGED <<accounts, session, txns, used>>

Heard(q) == /\ req[q].pc = IF SetsCookie(req[q]) THEN "arrived" ELSE "answered"
            /\ req[q].gone # "page"

(* Seeded bug: the token is cleared to the empty text, not to none. *)
Cleared_Empty(r) == [r EXCEPT !.csrf = "", !.user = NoOne, !.settled = FALSE]

(* clearSession *)
Cleared(r) == [r EXCEPT !.csrf = NoOne, !.user = NoOne, !.settled = FALSE]

(* queryClient.clear() and the way to the sign-in page: what the sign-outs *)
(* below have in common.                                                   *)
SignedOut(r) == [Away(Cleared(r)) EXCEPT !.cache = {}, !.out = TRUE]

(* Seeded bug: the cache is emptied, and what is on its way still gets in. *)
SignOut_KeepsLoading(q, t) ==
  /\ tab' = [tab EXCEPT ![t] = SignedOut(@)]
  /\ req' = [Outlive(t, {"me"}, "component") EXCEPT ![q] = Idle]

(* What the cleared cache had asked for is dropped when it comes.          *)
SignOut(q, t) ==
  /\ tab' = [tab EXCEPT ![t] = SignedOut(@)]
  /\ req' = [Outlive(t, {"me", "query"}, "component") EXCEPT ![q] = Idle]

(* Any 401 clears the session and calls Layout's handler. *)
Unauthorized(q) ==
  /\ Heard(q) /\ req[q].code = 401
  /\ SignOut(q, req[q].tab)
  /\ UNCHANGED <<accounts, session, txns, cookie, used>>

(* handleLogout, when logout() succeeds and when it throws: its finally    *)
(* clears the session all the same, but the page stays where it is.        *)
LoggedOut(q) ==
  /\ Heard(q) /\ req[q].op = "logout" /\ req[q].code = 200
  /\ SignOut(q, req[q].tab)
  /\ UNCHANGED <<accounts, session, txns, cookie, used>>

LogoutFailed(q) ==
  /\ Heard(q) /\ req[q].op = "logout" /\ req[q].code \in {0, 403}
  /\ tab' = [tab EXCEPT ![req[q].tab] = Cleared(@)]
  /\ req' = [req EXCEPT ![q] = Idle]
  /\ UNCHANGED <<accounts, session, txns, cookie, used>>

(* login() keeps the token and the user, and handleSubmit goes on to the   *)
(* operations page, also when the user has left the form meanwhile.  On a  *)
(* tab that shows that page already no effect of Layout runs: it keeps the *)
(* name it shows, and goes on waiting for the /me it had sent.             *)
SignedIn(r, s, e, waits) ==
  LET known == [r EXCEPT !.csrf = s, !.user = e, !.settled = cookie = s]
  IN IF r.home THEN [known EXCEPT !.renamed = waits]
     ELSE [Guarded(known, TRUE) EXCEPT !.renamed = FALSE]

Waits(t) == \E q \in Reqs : req[q].op = "me" /\ req[q].tab = t /\ req[q].gone = "none"

LoggedIn(q) ==
  /\ Heard(q) /\ req[q].op = "login" /\ req[q].code = 200
  /\ LET r    == req[q]
         left == IF tab[r.tab].home THEN Forms ELSE Forms \union {"me"}
     IN /\ tab' = [tab EXCEPT ![r.tab] = SignedIn(@, r.new, r.user, Waits(r.tab))]
        /\ req' = [Outlive(r.tab, left, "component") EXCEPT ![q] = Idle]
  /\ UNCHANGED <<accounts, session, txns, cookie, used>>

(* register() logs in as soon as it is answered. *)
SignedUp(q) ==
  /\ Heard(q) /\ req[q].op = "register" /\ req[q].code = 200
  /\ req' = [req EXCEPT ![q] = [Fetch(req[q].tab, "login", req[q].user)
                                  EXCEPT !.gone = req[q].gone]]
  /\ UNCHANGED <<accounts, session, txns, cookie, tab, used>>

(* fetchCurrentUser keeps the user whether or not Layout still waits for   *)
(* it; Layout itself ignores a cancelled answer.                           *)
Known(r, e, awaited) ==
  IF awaited THEN [r EXCEPT !.user = e, !.auth = "authed", !.shown = e]
  ELSE [r EXCEPT !.user = e, !.renamed = TRUE]

Recognised(q) ==
  /\ Heard(q) /\ req[q].op = "me" /\ req[q].code = 200
  /\ tab' = [tab EXCEPT ![req[q].tab] = Known(@, req[q].got, req[q].gone = "none")]
  /\ req' = [req EXCEPT ![q] = Idle]
  /\ UNCHANGED <<accounts, session, txns, cookie, used>>

(* Seeded bug: only a user that is there ends the waiting. *)
NotRecognised_Waits(q) ==
  /\ Heard(q) /\ req[q].op = "me" /\ req[q].code = 0
  /\ req' = [req EXCEPT ![q] = Idle]
  /\ UNCHANGED <<accounts, session, txns, cookie, tab, used>>

(* Any other failure of it looks like nobody being signed in. *)
NotRecognised(q) ==
  /\ Heard(q) /\ req[q].op = "me" /\ req[q].code = 0
  /\ tab' = IF req[q].gone = "none"
            THEN [tab EXCEPT ![req[q].tab] = Away(@)]
            ELSE tab
  /\ req' = [req EXCEPT ![q] = Idle]
  /\ UNCHANGED <<accounts, session, txns, cookie, used>>

Filled(r, e) == [r EXCEPT !.cache = @ \union {e}]

(* A query's data goes into the cache, unless the cache it was asked for   *)
(* has been cleared.                                                       *)
Loaded(q) ==
  /\ Heard(q) /\ req[q].op = "query" /\ req[q].code = 200
  /\ tab' = IF req[q].gone = "none"
            THEN [tab EXCEPT ![req[q].tab] = Filled(@, req[q].got)]
            ELSE tab
  /\ req' = [req EXCEPT ![q] = Idle]
  /\ UNCHANGED <<accounts, session, txns, cookie, used>>

(* Every other answer only shows a message, or nothing at all once the     *)
(* page load that asked is gone.                                           *)
Shown(q) ==
  /\ req[q].pc \in {"answered", "arrived"}
  /\ \/ /\ req[q].gone = "page"
        /\ SetsCookie(req[q]) => req[q].pc = "arrived"
     \/ Heard(q) /\ \/ req[q].op \in Forms /\ req[q].code \in {0, 409, 500}
                    \/ req[q].op = "mutation" /\ req[q].code \in {0, 200, 403}
                    \/ req[q].op = "query" /\ req[q].code = 0
  /\ req' = [req EXCEPT ![q] = Idle]
  /\ UNCHANGED <<accounts, session, txns, cookie, tab, used>>

(* The network loses a request on its way. *)
Lose(q) ==
  /\ Fault
  /\ req[q].pc = "sent"
  /\ Answer(q, 0)
  /\ UNCHANGED <<accounts, session, txns, cookie, tab>>

-----------------------------------------------------------------------------
Handle(q) == \/ RegisterLookup(q) \/ RegisterInsert(q) \/ LoginDenied(q) \/ LoginGranted(q)
             \/ Logout(q) \/ Read(q) \/ Mutate(q)

Hear(q) == \/ Arrive(q) \/ Unauthorized(q) \/ LoggedOut(q) \/ LogoutFailed(q) \/ LoggedIn(q)
           \/ SignedUp(q) \/ Recognised(q) \/ NotRecognised(q) \/ Loaded(q) \/ Shown(q)

Next == \/ \E t \in Tabs : Submit(t) \/ Use(t) \/ Enter(t) \/ Back(t) \/ Reload(t)
        \/ \E q \in Reqs : Handle(q) \/ Hear(q) \/ Lose(q)
        \/ \E x \in txns : Commit(x)
        \/ \E s \in Sids : Expire(s)

Spec == Init /\ [][Next]_vars

(* The API handles what it is sent and commits what it began, and a tab's  *)
(* event loop runs the continuation of every answer.  Nobody is bound to   *)
(* click or to move on, nor must a request be lost or a session expire.    *)
CommitAny == \E x \in txns : Commit(x)

FairSpec == /\ Spec
            /\ WF_vars(CommitAny)
            /\ \A q \in Reqs : WF_vars(Handle(q)) /\ WF_vars(Hear(q))

-----------------------------------------------------------------------------
(* Properties *)

(* Every variable keeps to its type. *)
TypeOK ==
  /\ accounts \in [Emails -> Nat]
  /\ session \in [Sids -> [user : User, status : {"free", "live", "expired", "gone"}]]
  /\ txns \subseteq Transaction
  /\ cookie \in Token
  /\ tab \in [Tabs -> Tab]
  /\ req \in [Reqs -> Request \union {Idle}]
  /\ used \in [sent : 0 .. MaxSent, moves : 0 .. MaxMoves, faults : 0 .. MaxFaults]

(* However two registrations of one address overlap, the address ends up   *)
(* with one account (auth.py register and the unique column behind it).    *)
OneAccountPerAddress == \A e \in Emails : accounts[e] <= 1

(* What a tab changes is done as the user whose name the tab shows: two    *)
(* tabs signing in as two people never act for each other (double-submit   *)
(* token, csrf.py dispatch).  Two exceptions: a tab whose user the answer  *)
(* to a /me of before its login replaces (auth.ts:48), and a tab that      *)
(* showed /operations when the login was answered and so still shows the   *)
(* user of before (Layout.tsx:70).                                         *)
ActsAsShown ==
  \A q \in Reqs :
    req[q].op = "mutation" /\ req[q].code = 200 /\ req[q].as # NoOne =>
      session[req[q].sid].user = req[q].as

(* A tab that signed out, or that a 401 sent away, holds no token and      *)
(* nobody's data, whatever answers were still under way (api.ts request,   *)
(* Layout's handler and handleLogout).                                     *)
SignedOutForgets ==
  \A t \in Tabs : tab[t].page = "sign-in" /\ tab[t].out =>
                    tab[t].csrf = NoOne /\ tab[t].cache = {}

(* Once signed in, a tab can mutate until it hears a 401 or a failed       *)
(* logout, or some tab signs in or out: a reload takes nothing from it     *)
(* (session.ts keeps the token in sessionStorage for this).                *)
ReloadKeepsRights == \A t \in Tabs : tab[t].settled => tab[t].csrf # NoOne /\ tab[t].csrf = cookie

(* Session s has had its logout answered well. *)
Revoked(s) == \E q \in Reqs : req[q].op = "logout" /\ req[q].sid = s /\ req[q].code = 200

Served(p) == req[p].pc = "sent" /\ req'[p].pc = "answered" /\ req'[p].code = 200

(* What docs/security.md:113 says of a logout: the cookie stops working    *)
(* immediately, so that no request that carries it is served once the      *)
(* logout is answered.  The code deletes the session after the answer.     *)
LogoutIsImmediate ==
  [][\A p \in Reqs : Served(p) /\ req[p].op \in {"me", "query", "mutation"}
                       => ~ Revoked(req[p].sid)]_vars

(* Nobody is left at the loading screen: a tab that asks who is signed in  *)
(* hears it or goes to the sign-in page, however the user moves meanwhile  *)
(* and whatever is lost (Layout's effect, auth.ts fetchCurrentUser).       *)
CheckingEnds == \A t \in Tabs : tab[t].auth = "checking" ~> tab[t].auth # "checking"

===============================================================================
