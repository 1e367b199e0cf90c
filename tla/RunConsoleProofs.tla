--------------------------- MODULE RunConsoleProofs ---------------------------
(***************************************************************************)
(* Proofs about RunConsole: type correctness, that no page offers what the  *)
(* API would refuse of the version of the run it shows, and that the graph  *)
(* of a run shows no state the run has not been in.                         *)
(***************************************************************************)
EXTENDS RunConsole, FiniteSetTheorems, TLAPS

(* An entry shows a version that there is. *)
Sound(c) == \A k \in Queries : c[k] \in Entry(0 .. Current(k))

TypeInv ==
  /\ TypeOK
  /\ dialog.op = "none" => dialog = NoDialog
  /\ log # <<>>
  /\ Sound(cache)

Dialog == [by : Components, op : Ops \union {"none"}, at : Nat]

-----------------------------------------------------------------------------
(* The query cache *)

LEMMA EntryOperators ==
  ASSUME NEW V, 0 \in V, NEW e \in Entry(V), NEW v \in V, NEW b \in BOOLEAN
  PROVE  /\ Mounted(NoEntry) \in Entry(V) /\ NoEntry \in Entry(V)
         /\ Joined(e) \in Entry(V) /\ Mounted(e) \in Entry(V) /\ Mounted(Aged(e)) \in Entry(V)
         /\ Refetched(e) \in Entry(V) /\ Invalidated(e, b) \in Entry(V)
         /\ Served(e, v) \in Entry(V) /\ Landed(e) \in Entry(V) /\ Failed(e) \in Entry(V)
<1>1. \A x \in Entry(V) : HasData(x) \in BOOLEAN /\ Sent(x) \in Entry(V)
  BY DEF Sent, HasData, Entry
<1>2. \A x \in Entry(V) : Joined(x) \in Entry(V)
  BY <1>1 DEF Joined
<1>3. \A x \in Entry(V) : Mounted(x) \in Entry(V)
  BY <1>2 DEF Mounted
<1>4. \A x \in Entry(V) : Refetched(x) \in Entry(V)
  BY <1>1, <1>2 DEF Refetched
<1>5. NoEntry \in Entry(V)
  BY DEF NoEntry, Entry
<1>6. Aged(e) \in Entry(V)
  BY DEF Aged, Entry
<1>7. Invalidated(e, b) \in Entry(V)
  <2> DEFINE marked == [e EXCEPT !.stale = HasData(e)]
  <2>1. marked \in Entry(V)
    BY <1>1 DEF Entry
  <2> HIDE DEF marked
  <2>2. Refetched(marked) \in Entry(V)
    BY <1>4, <2>1
  <2>3. Invalidated(e, b) = IF b THEN Refetched(marked) ELSE marked
    BY DEF Invalidated, marked
  <2> QED
    BY <2>1, <2>2, <2>3
<1>8. Served(e, v) \in Entry(V)
  BY DEF Served, Entry
<1>9. Landed(e) \in Entry(V)
  BY DEF Landed, NoEntry, Entry
<1>10. Failed(e) \in Entry(V)
  BY <1>1 DEF Failed, Entry
<1> QED
  BY <1>2, <1>3, <1>4, <1>5, <1>6, <1>7, <1>8, <1>9, <1>10

LEMMA Versions ==
  ASSUME TypeOK, NEW k
  PROVE  Current(k) \in Nat /\ 0 \in 0 .. Current(k) /\ Current(k) \in 0 .. Current(k)
BY DEF TypeOK, Current

LEMMA SoundEntries ==
  ASSUME TypeOK, NEW c, Sound(c), NEW k \in Queries
  PROVE  c[k] \in Entry(Nat)
BY Versions DEF Sound, Entry

LEMMA MountKeeps ==
  ASSUME TypeOK, NEW c, Sound(c), NEW keys, Mount(c, keys)
  PROVE  cache' \in [Queries -> Entry(Nat)] /\ Sound(cache')
<1>1. PICK old :
        cache' = [k \in Queries |-> IF k \in old THEN Mounted(Aged(c[k]))
                                    ELSE IF k \in keys THEN Mounted(c[k]) ELSE c[k]]
  BY DEF Mount
<1>2. ASSUME NEW k \in Queries PROVE cache'[k] \in Entry(0 .. Current(k))
  <2>1. /\ c[k] \in Entry(0 .. Current(k)) /\ Mounted(c[k]) \in Entry(0 .. Current(k))
        /\ Mounted(Aged(c[k])) \in Entry(0 .. Current(k))
    BY EntryOperators, Versions DEF Sound
  <2> QED
    BY <1>1, <2>1
<1>3. Sound(cache')
  BY <1>2 DEF Sound
<1>4. \A k \in Queries : cache'[k] \in Entry(Nat)
  BY <1>3, SoundEntries
<1> QED
  BY <1>1, <1>3, <1>4

LEMMA InvalidatedKeeps ==
  ASSUME TypeOK, NEW c, Sound(c), NEW keys
  PROVE  InvalidatedIn(c, keys) \in [Queries -> Entry(Nat)] /\ Sound(InvalidatedIn(c, keys))
<1> DEFINE d == InvalidatedIn(c, keys)
<1>1. d = [k \in Queries |-> IF k \in keys THEN Invalidated(c[k], k \in Watched(page, c, chosen))
                                           ELSE c[k]]
  BY DEF InvalidatedIn
<1>2. ASSUME NEW k \in Queries PROVE d[k] \in Entry(0 .. Current(k))
  <2> DEFINE b == k \in Watched(page, c, chosen)
  <2>1. b \in BOOLEAN
    OBVIOUS
  <2>2. d[k] = IF k \in keys THEN Invalidated(c[k], b) ELSE c[k]
    BY <1>1
  <2> HIDE DEF b, d
  <2>3. /\ c[k] \in Entry(0 .. Current(k)) /\ Invalidated(c[k], b) \in Entry(0 .. Current(k))
    BY <2>1, EntryOperators, Versions DEF Sound
  <2> QED
    BY <2>2, <2>3
<1> HIDE DEF d
<1>3. Sound(d)
  BY <1>2 DEF Sound
<1>4. \A k \in Queries : d[k] \in Entry(Nat)
  BY <1>3, SoundEntries
<1> QED
  BY <1>1, <1>3, <1>4 DEF d

(* One entry changes, the others stay. *)
LEMMA OneEntry ==
  ASSUME TypeOK, Sound(cache), NEW k \in Queries, NEW e \in Entry(0 .. Current(k))
  PROVE  LET c == [cache EXCEPT ![k] = e]
         IN c \in [Queries -> Entry(Nat)] /\ Sound(c)
<1> DEFINE c == [cache EXCEPT ![k] = e]
<1>1. cache \in [Queries -> Entry(Nat)]
  BY DEF TypeOK
<1>2. Sound(c)
  BY <1>1 DEF Sound
<1>3. \A x \in Queries : c[x] \in Entry(Nat)
  BY <1>2, SoundEntries
<1> QED
  BY <1>1, <1>2, <1>3

-----------------------------------------------------------------------------
(* The rest of a tab *)

LEMMA UsedKept ==
  ASSUME TypeOK, Turn \/ Step \/ used' = used
  PROVE  used' \in [steps : 0 .. MaxSteps, turns : 0 .. MaxTurns]
<1>1. /\ MaxSteps \in Nat /\ MaxTurns \in Nat
      /\ used \in [steps : 0 .. MaxSteps, turns : 0 .. MaxTurns]
  BY ConstantsAssumption DEF TypeOK
<1>2. CASE Turn
  <2>1. used.turns + 1 \in 0 .. MaxTurns /\ used' = [used EXCEPT !.turns = used.turns + 1]
    BY <1>1, <1>2 DEF Turn
  <2> QED
    BY <1>1, <2>1
<1>3. CASE Step
  <2>1. used.steps + 1 \in 0 .. MaxSteps /\ used' = [used EXCEPT !.steps = used.steps + 1]
    BY <1>1, <1>3 DEF Step
  <2> QED
    BY <1>1, <2>1
<1> QED
  BY <1>1, <1>2, <1>3

LEMMA NoDialogTyped == NoDialog \in Dialog
BY DEF NoDialog, Dialog, Components

LEMMA MountedChanged ==
  ASSUME NEW a \in Action, NEW m \in BOOLEAN
  PROVE  LET b == [a EXCEPT !.mounted = m]
         IN b \in Action /\ b.op = a.op /\ b.at = a.at /\ b.code = a.code
BY DEF Action

LEMMA RedrawnActs ==
  ASSUME acts \subseteq Action, NEW c, NEW pick, Redraw(c, pick)
  PROVE  \A b \in acts' : b \in Action /\ \E a \in acts : b.op = a.op /\ b.at = a.at /\ b.code = a.code
<1> DEFINE m(a) == a.mounted /\ Alive(a.by, page, c, pick)
<1>1. acts' = {[a EXCEPT !.mounted = m(a)] : a \in acts}
  BY DEF Redraw
<1>2. \A a \in acts : a \in Action /\ m(a) \in BOOLEAN
  OBVIOUS
<1> HIDE DEF m
<1>3. \A a \in acts :
        LET b == [a EXCEPT !.mounted = m(a)]
        IN b \in Action /\ b.op = a.op /\ b.at = a.at /\ b.code = a.code
  BY <1>2, MountedChanged
<1> QED
  BY <1>1, <1>3

(* Drawing the page anew keeps all types. *)
LEMMA Redrawn ==
  ASSUME TypeOK, NEW c, Sound(c), NEW pick \in 0 .. 2, Redraw(c, pick)
  PROVE  /\ cache' \in [Queries -> Entry(Nat)] /\ Sound(cache')
         /\ chosen' \in 0 .. 2 /\ dialog' \in {dialog, NoDialog} /\ page' = page
         /\ acts' \subseteq Action
<1>1. cache' \in [Queries -> Entry(Nat)] /\ Sound(cache')
  BY MountKeeps DEF Redraw
<1>2. acts' \subseteq Action
  BY RedrawnActs DEF TypeOK
<1> QED
  BY <1>1, <1>2 DEF Redraw

(* The invariant of a step that keeps the history. *)
LEMMA Typed ==
  ASSUME TypeInv,
         log' \in Seq(RunState), log' # <<>>, Len(log') >= Len(log),
         trail' \in Nat, trail' >= trail,
         cache' \in [Queries -> Entry(Nat)], Sound(cache'),
         page' \in Pages, chosen' \in 0 .. 2,
         dialog' \in Dialog, dialog'.op = "none" => dialog' = NoDialog,
         acts' \subseteq Action, owed' \in [run : Nat, events : Nat],
         used' \in [steps : 0 .. MaxSteps, turns : 0 .. MaxTurns]
  PROVE  TypeInv'
<1>1. TypeOK'
  BY DEF TypeOK, Dialog
<1>2. Sound(cache)'
  <2>1. ASSUME NEW k \in Queries PROVE cache'[k] \in Entry(0 .. Current(k))'
    <3>1. Current(k) \in Nat /\ Current(k)' \in Nat /\ Current(k) <= Current(k)'
      BY DEF Current, TypeInv, TypeOK
    <3>2. cache'[k] \in Entry(0 .. Current(k))
      BY DEF Sound
    <3> DEFINE m == Current(k)
               n == Current(k)'
    <3> HIDE DEF m, n
    <3>3. Entry(0 .. m) \subseteq Entry(0 .. n)
      BY <3>1 DEF Entry, m, n
    <3>4. (Entry(0 .. Current(k)))' = Entry(0 .. n)
      BY DEF n, Entry
    <3> QED
      BY <3>2, <3>3, <3>4 DEF m
  <2> QED
    BY <2>1 DEF Sound
<1> QED
  BY <1>1, <1>2 DEF TypeInv, NoDialog

-----------------------------------------------------------------------------
(* The owner's actions *)

(* What the API grants of a run in this state. *)
Fits(op, state) ==
  /\ op \in Decisions => state \in APPROVAL_STATES
  /\ op \in RunState => validate_transition(state, op)

Codes == {0, 200, 409, 422}

LEMMA ActionFields ==
  Action = [n : 1 .. MaxSteps, by : Components, op : Ops, at : Nat, mounted : BOOLEAN,
            pc : {"sent", "decided", "answered"}, code : Codes, wrote : Nat]
BY DEF Action, Codes

LEMMA CodeSet ==
  ASSUME NEW a \in Action, NEW code \in Codes
  PROVE  LET b == [a EXCEPT !.pc = "answered", !.code = code]
         IN b \in Action /\ b.op = a.op /\ b.at = a.at /\ b.code = code
BY ActionFields

LEMMA WroteSet ==
  ASSUME NEW a \in Action, NEW version \in Nat
  PROVE  LET b == [a EXCEPT !.wrote = version]
         IN b \in Action /\ b.op = a.op /\ b.at = a.at /\ b.code = a.code
BY ActionFields

LEMMA DecidedSet ==
  ASSUME NEW a \in Action, NEW version \in Nat
  PROVE  LET b == [a EXCEPT !.pc = "decided", !.wrote = version]
         IN b \in Action /\ b.op = a.op /\ b.at = a.at /\ b.code = a.code
BY ActionFields

(* A conflict is answered only to what does not fit; otherwise the log      *)
(* stays or grows by a state.                                               *)
Decided(a) ==
  /\ log' = log \/ \E state \in RunState : log' = Append(log, state)
  /\ \E b \in Action : /\ Replaced(a, b) /\ b.op = a.op /\ b.at = a.at
                       /\ b.code = 409 => a.code = 409 \/ (~ Fits(a.op, Now) /\ log' = log)

LEMMA DecideOutcomes ==
  ASSUME TypeInv, NEW a \in acts, Decide(a)
  PROVE  Decided(a)
<1>1. (\A gate \in ApprovalGates : gate.next \in RunState) /\ "CANCELLED" \in RunState
  BY DEF ApprovalGates, RunState
<1>2. \/ Refuse(a, 422)
      \/ Refuse(a, 409) /\ ~ Fits(a.op, Now)
      \/ /\ Replaced(a, [a EXCEPT !.pc = "answered", !.code = 200, !.wrote = Len(log)])
         /\ UNCHANGED log
      \/ \E state \in RunState : Commit(a, state)
  BY <1>1 DEF Decide, Fits
<1>3. a \in Action /\ Len(log) \in Nat /\ Len(log) + 1 \in Nat
  BY DEF TypeInv, TypeOK
<1>4. ASSUME NEW code \in Codes, Refuse(a, code), code = 409 => ~ Fits(a.op, Now)
      PROVE  Decided(a)
  <2> DEFINE b == [a EXCEPT !.pc = "answered", !.code = code]
  <2>1. b \in Action /\ b.op = a.op /\ b.at = a.at /\ b.code = code
    BY <1>3, CodeSet
  <2>2. Replaced(a, b) /\ log' = log
    BY <1>4 DEF Refuse
  <2> HIDE DEF b
  <2> QED
    BY <1>4, <2>1, <2>2 DEF Decided
<1>5. ASSUME NEW code \in Codes, code = 200, UNCHANGED log,
             Replaced(a, [a EXCEPT !.pc = "answered", !.code = code, !.wrote = Len(log)])
      PROVE  Decided(a)
  <2> DEFINE c == [a EXCEPT !.pc = "answered", !.code = code]
             b == [c EXCEPT !.wrote = Len(log)]
  <2>2. Replaced(a, b) /\ log' = log
    BY <1>5
  <2>3. c \in Action /\ c.op = a.op /\ c.at = a.at /\ c.code = code
    BY <1>3, CodeSet
  <2> HIDE DEF c
  <2>1. b \in Action /\ b.op = a.op /\ b.at = a.at /\ b.code = code
    BY <1>3, <2>3, WroteSet
  <2> HIDE DEF b
  <2> QED
    BY <1>5, <2>1, <2>2 DEF Decided
<1>6. ASSUME NEW state \in RunState, Commit(a, state)
      PROVE  Decided(a)
  <2> DEFINE n == Len(log) + 1
             b == [a EXCEPT !.pc = "decided", !.wrote = n]
  <2>1. log' = Append(log, state) /\ Replaced(a, b)
    BY <1>6 DEF Commit
  <2>2. n \in Nat /\ 0 \in Codes
    BY <1>3 DEF Codes
  <2> HIDE DEF n
  <2>3. b \in Action /\ b.op = a.op /\ b.at = a.at /\ b.code = a.code
    BY <1>3, <2>2, DecidedSet
  <2> HIDE DEF b
  <2> QED
    BY <2>1, <2>3 DEF Decided
<1>7. CASE Refuse(a, 422)
  <2> DEFINE code == 422
  <2>1. code \in Codes /\ code # 409 /\ Refuse(a, code)
    BY <1>7 DEF Codes
  <2> HIDE DEF code
  <2> QED
    BY <1>4, <2>1
<1>8. CASE Refuse(a, 409) /\ ~ Fits(a.op, Now)
  <2> DEFINE code == 409
  <2>1. code \in Codes /\ Refuse(a, code) /\ ~ Fits(a.op, Now)
    BY <1>8 DEF Codes
  <2> HIDE DEF code
  <2> QED
    BY <1>4, <2>1
<1>9. CASE /\ Replaced(a, [a EXCEPT !.pc = "answered", !.code = 200, !.wrote = Len(log)])
           /\ UNCHANGED log
  <2> DEFINE code == 200
  <2>1. /\ code \in Codes /\ code = 200 /\ UNCHANGED log
        /\ Replaced(a, [a EXCEPT !.pc = "answered", !.code = code, !.wrote = Len(log)])
    BY <1>9 DEF Codes
  <2> HIDE DEF code
  <2> QED
    BY <1>5, <2>1
<1> QED
  BY <1>2, <1>6, <1>7, <1>8, <1>9

(* Its event is written, too. *)
LEMMA RecordOutcome ==
  ASSUME TypeInv, NEW a \in acts, Record(a)
  PROVE  \E b \in Action : /\ Replaced(a, b) /\ b.op = a.op /\ b.at = a.at /\ b.code # 409
<1> DEFINE code == 200
           b == [a EXCEPT !.pc = "answered", !.code = code]
<1>1. code \in Codes /\ code # 409 /\ a \in Action /\ 0 \in Nat
  BY DEF Codes, TypeInv, TypeOK
<1>2. Replaced(a, b)
  BY DEF Record
<1> HIDE DEF code
<1>3. b \in Action /\ b.op = a.op /\ b.at = a.at /\ b.code = code
  BY <1>1, CodeSet
<1> HIDE DEF b
<1> QED
  BY <1>1, <1>2, <1>3

LEMMA Sending ==
  ASSUME TypeInv, NEW by \in Components, NEW op \in Ops, NEW at \in Nat, Send(by, op, at)
  PROVE  /\ acts' \subseteq Action /\ used' \in [steps : 0 .. MaxSteps, turns : 0 .. MaxTurns]
         /\ \A b \in acts' : b \in acts \/ (b.op = op /\ b.at = at /\ b.code = 0)
<1>1. used' \in [steps : 0 .. MaxSteps, turns : 0 .. MaxTurns]
  BY UsedKept DEF Send, TypeInv
<1>2. used.steps + 1 \in 1 .. MaxSteps
  BY ConstantsAssumption DEF Send, Step, TypeInv, TypeOK
<1> DEFINE b == [n |-> used.steps + 1, by |-> by, op |-> op, at |-> at, mounted |-> TRUE,
                 pc |-> "sent", code |-> 0, wrote |-> 0]
<1>3. b \in Action /\ b.op = op /\ b.at = at /\ b.code = 0
  BY <1>2 DEF Action
<1>4. acts' = acts \union {b}
  BY DEF Send
<1> HIDE DEF b
<1> QED
  BY <1>1, <1>3, <1>4 DEF TypeInv, TypeOK

-----------------------------------------------------------------------------
(* Type correctness *)

LEMMA TypeInit == Init => TypeInv
<1> SUFFICES ASSUME Init PROVE TypeInv
  OBVIOUS
<1>1. log \in Seq(RunState) /\ log # <<>> /\ trail \in Nat
  BY ConstantsAssumption DEF Init
<1>2. \A k : 0 \in 0 .. Current(k)
  BY <1>1 DEF Current
<1>3. ASSUME NEW k \in Queries
      PROVE  cache[k] \in Entry(0 .. Current(k)) /\ cache[k] \in Entry(Nat)
  <2>1. cache[k] \in {Mounted(NoEntry), NoEntry}
    BY DEF Init
  <2>2. ASSUME NEW V, 0 \in V PROVE NoEntry \in Entry(V) /\ Mounted(NoEntry) \in Entry(V)
    <3>1. NoEntry \in Entry(V)
      BY <2>2 DEF NoEntry, Entry
    <3>2. TRUE \in BOOLEAN
      OBVIOUS
    <3> QED
      BY <2>2, <3>1, <3>2, EntryOperators
  <2>3. /\ cache[k] \in Entry(0 .. Current(k))
    BY <1>2, <2>1, <2>2
  <2>4. cache[k] \in Entry(Nat)
    BY <2>1, <2>2
  <2> QED
    BY <2>3, <2>4
<1>4. cache \in [Queries -> Entry(Nat)] /\ Sound(cache)
  BY <1>3 DEF Init, Sound
<1>5. dialog \in Dialog /\ dialog = NoDialog
  BY NoDialogTyped DEF Init
<1>6. /\ page \in Pages /\ chosen \in 0 .. 2 /\ acts \subseteq Action
      /\ owed \in [run : Nat, events : Nat]
      /\ used \in [steps : 0 .. MaxSteps, turns : 0 .. MaxTurns]
  BY ConstantsAssumption DEF Init, NothingOwed
<1> QED
  BY <1>1, <1>4, <1>5, <1>6 DEF TypeInv, TypeOK, Dialog

LEMMA TypeStep == TypeInv /\ [Next]_vars => TypeInv'
<1> SUFFICES ASSUME TypeInv, [Next]_vars PROVE TypeInv'
  OBVIOUS
<1> USE DEF TypeInv
<1>1. /\ log \in Seq(RunState) /\ log # <<>> /\ Len(log) \in Nat /\ trail \in Nat
      /\ cache \in [Queries -> Entry(Nat)] /\ Sound(cache)
      /\ page \in Pages /\ chosen \in 0 .. 2
      /\ dialog \in Dialog /\ NoDialog \in Dialog /\ (dialog.op = "none" => dialog = NoDialog)
      /\ acts \subseteq Action /\ owed \in [run : Nat, events : Nat]
      /\ used \in [steps : 0 .. MaxSteps, turns : 0 .. MaxTurns]
  BY NoDialogTyped DEF TypeOK, Dialog
<1>2. {"run", "runs"} \subseteq Queries /\ Main(page) \in {"run", "runs"}
  BY ConstantsAssumption DEF Main
<1>3. CASE UNCHANGED vars
  BY <1>1, <1>3, Typed DEF vars
<1>4. ASSUME NEW p \in Pages, Visit(p) PROVE TypeInv'
  <2>1. cache' \in [Queries -> Entry(Nat)] /\ Sound(cache')
    BY <1>1, <1>4, MountKeeps DEF Visit
  <2>2. acts' \subseteq Action
    BY <1>1, <1>4, MountedChanged DEF Visit
  <2>3. used' \in [steps : 0 .. MaxSteps, turns : 0 .. MaxTurns]
    BY <1>4, UsedKept DEF Visit
  <2>4. owed' \in [run : Nat, events : Nat]
    BY <1>4 DEF Visit, NothingOwed
  <2> QED
    BY <1>1, <1>4, <2>1, <2>2, <2>3, <2>4, Typed DEF Visit
<1>5. ASSUME NEW pick \in {1, 2}, Choose(pick) PROVE TypeInv'
  <2>1. pick \in 0 .. 2 /\ Redraw(cache, pick) /\ UNCHANGED <<log, trail, owed>>
    BY <1>5 DEF Choose
  <2>2. used' \in [steps : 0 .. MaxSteps, turns : 0 .. MaxTurns]
    BY <1>5, UsedKept DEF Choose
  <2> QED
    BY <1>1, <2>1, <2>2, Redrawn, Typed
<1>6. ASSUME NEW k \in Queries, Poll(k) \/ Serve(k) PROVE TypeInv'
  <2>1. cache[k] \in Entry(0 .. Current(k))
    BY DEF Sound
  <2>2. /\ Joined(cache[k]) \in Entry(0 .. Current(k))
        /\ Served(cache[k], Current(k)) \in Entry(0 .. Current(k))
    <3>1. TRUE \in BOOLEAN /\ Current(k) \in 0 .. Current(k) /\ 0 \in 0 .. Current(k)
      BY Versions
    <3> QED
      BY <2>1, <3>1, EntryOperators
  <2>3. PICK e \in Entry(0 .. Current(k)) : cache' = [cache EXCEPT ![k] = e]
    BY <1>6, <2>2 DEF Poll, Serve
  <2>4. cache' \in [Queries -> Entry(Nat)] /\ Sound(cache')
    BY <2>3, OneEntry
  <2> QED
    BY <1>1, <1>6, <2>4, Typed DEF Poll, Serve
<1>7. CASE Retry
  <2> DEFINE k == Main(page)
  <2>1. k \in Queries /\ cache' = [cache EXCEPT ![k] = Refetched(cache[k])]
    BY <1>2, <1>7 DEF Retry
  <2> HIDE DEF k
  <2>2. cache[k] \in Entry(0 .. Current(k))
    BY <2>1 DEF Sound
  <2>3. Refetched(cache[k]) \in Entry(0 .. Current(k))
    <3>1. TRUE \in BOOLEAN /\ 0 \in 0 .. Current(k)
      BY Versions
    <3> QED
      BY <2>2, <3>1, EntryOperators
  <2>4. cache' \in [Queries -> Entry(Nat)] /\ Sound(cache')
    BY <2>1, <2>3, OneEntry
  <2> QED
    BY <1>1, <1>7, <2>4, Typed DEF Retry
<1>8. ASSUME NEW k \in Queries, Deliver(k) \/ Fail(k) PROVE TypeInv'
  <2>1. cache[k] \in Entry(0 .. Current(k))
    BY DEF Sound
  <2>2. Landed(cache[k]) \in Entry(0 .. Current(k)) /\ Failed(cache[k]) \in Entry(0 .. Current(k))
    <3>1. TRUE \in BOOLEAN /\ 0 \in 0 .. Current(k)
      BY Versions
    <3> QED
      BY <2>1, <3>1, EntryOperators
  <2> DEFINE landed == [cache EXCEPT ![k] = Landed(@)]
             failed == [cache EXCEPT ![k] = Failed(@)]
  <2>3. Sound(landed) /\ Sound(failed)
    BY <2>2, OneEntry
  <2> HIDE DEF landed, failed
  <2>4. Sound(InvalidatedIn(landed, InvalidatedWhenFinal))
    BY <2>3, InvalidatedKeeps
  <2>5. PICK c : Sound(c) /\ Redraw(c, chosen)
    BY <1>8, <2>3, <2>4 DEF Deliver, Fail, landed, failed
  <2>6. used' \in [steps : 0 .. MaxSteps, turns : 0 .. MaxTurns]
    BY <1>8, UsedKept DEF Deliver, Fail
  <2>7. UNCHANGED <<log, trail>> /\ owed' \in [run : Nat, events : Nat]
    BY <1>1, <1>8 DEF Deliver, Fail
  <2> QED
    BY <1>1, <2>5, <2>6, <2>7, Redrawn, Typed
<1>9. ASSUME NEW by \in Components, NEW op \in Ops, Press(by, op) PROVE TypeInv'
  <2>1. cache[Main(page)].data \in Nat
    BY <1>1, <1>2 DEF Entry
  <2>2. Send(by, op, cache[Main(page)].data)
    BY <1>9 DEF Press
  <2>3. acts' \subseteq Action /\ used' \in [steps : 0 .. MaxSteps, turns : 0 .. MaxTurns]
    BY <2>1, <2>2, Sending
  <2> QED
    BY <1>1, <1>9, <2>3, Typed DEF Press
<1>10. ASSUME NEW by \in Components, NEW op \in Ops, Open(by, op) PROVE TypeInv'
  <2>1. cache[Main(page)].data \in Nat
    BY <1>1, <1>2 DEF Entry
  <2>2. dialog' \in Dialog /\ dialog'.op # "none"
    BY <1>10, <2>1 DEF Open, Dialog, Ops, Decisions
  <2> QED
    BY <1>1, <1>10, <2>2, Typed DEF Open
<1>11. CASE Dismiss
  BY <1>1, <1>11, Typed DEF Dismiss
<1>12. CASE Confirm
  <2>1. dialog.by \in Components /\ dialog.op \in Ops /\ dialog.at \in Nat
    BY <1>1, <1>12 DEF Confirm, Dialog
  <2>2. Send(dialog.by, dialog.op, dialog.at)
    BY <1>12 DEF Confirm
  <2>3. acts' \subseteq Action /\ used' \in [steps : 0 .. MaxSteps, turns : 0 .. MaxTurns]
    BY <2>1, <2>2, Sending
  <2> QED
    BY <1>1, <1>12, <2>3, Typed DEF Confirm
<1>13. ASSUME NEW a \in acts, Decide(a) PROVE TypeInv'
  <2>1. UNCHANGED <<trail, cache, page, chosen, dialog, owed, used>>
    BY <1>13 DEF Decide
  <2>2. acts' \subseteq Action
    BY <1>1, <1>13, DecideOutcomes DEF Decided, Replaced
  <2>3. log' \in Seq(RunState) /\ log' # <<>> /\ Len(log') >= Len(log)
    <3>1. CASE log' = log
      BY <1>1, <3>1
    <3>2. ASSUME NEW state \in RunState, log' = Append(log, state)
          PROVE  log' \in Seq(RunState) /\ log' # <<>> /\ Len(log') >= Len(log)
      BY <1>1, <3>2
    <3> QED
      BY <1>13, <3>1, <3>2, DecideOutcomes DEF Decided
  <2> QED
    BY <1>1, <2>1, <2>2, <2>3, Typed
<1>14. ASSUME NEW a \in acts, Record(a) PROVE TypeInv'
  <2>1. acts' \subseteq Action
    BY <1>1, <1>14, RecordOutcome DEF Replaced
  <2> QED
    BY <1>1, <1>14, <2>1, Typed DEF Record
<1>15. ASSUME NEW a \in acts, Succeed(a) PROVE TypeInv'
  <2> DEFINE keys == Queries \intersect Invalidates(a.by, a.op)
  <2>1. cache' = InvalidatedIn(cache, keys)
    BY <1>15 DEF Succeed
  <2>2. owed' \in [run : Nat, events : Nat]
    <3>1. a.wrote \in Nat /\ trail \in Nat /\ owed.events \in Nat
      BY <1>1 DEF Action
    <3>2. \/ owed' = owed
          \/ \E v \in {trail, owed.events} : owed' = [run |-> a.wrote, events |-> v]
      BY <1>15 DEF Succeed
    <3> QED
      BY <1>1, <3>1, <3>2
  <2>4. acts' \subseteq Action /\ dialog' \in {dialog, NoDialog}
    BY <1>1, <1>15 DEF Succeed
  <2> HIDE DEF keys
  <2>3. cache' \in [Queries -> Entry(Nat)] /\ Sound(cache')
    BY <2>1, InvalidatedKeeps
  <2>5. UNCHANGED <<log, trail, page, chosen, used>>
    BY <1>15 DEF Succeed
  <2> QED
    BY <1>1, <2>2, <2>3, <2>4, <2>5, Typed
<1>16. ASSUME NEW a \in acts, Refused(a) PROVE TypeInv'
  BY <1>1, <1>16, Typed DEF Refused
<1>17. ASSUME NEW state \in RunState, Move(state) PROVE TypeInv'
  <2>1. used' \in [steps : 0 .. MaxSteps, turns : 0 .. MaxTurns]
    BY <1>17, UsedKept DEF Move
  <2>2. log' \in Seq(RunState) /\ log' # <<>> /\ Len(log') >= Len(log)
    BY <1>1, <1>17 DEF Move
  <2> QED
    BY <1>1, <1>17, <2>1, <2>2, Typed DEF Move
<1>18. CASE RecordElsewhere
  <2>1. trail' \in Nat /\ trail' >= trail
    BY <1>1, <1>18 DEF RecordElsewhere
  <2> QED
    BY <1>1, <1>18, <2>1, Typed DEF RecordElsewhere
<1> QED
  BY <1>3, <1>4, <1>5, <1>6, <1>7, <1>8, <1>9, <1>10, <1>11, <1>12, <1>13, <1>14, <1>15,
     <1>16, <1>17, <1>18 DEF Next

(* Every variable of the tab and of the run keeps to its type, for any     *)
(* histories, queries and bounds.                                          *)
THEOREM TypeCorrect == Spec => []TypeOK
<1>1. TypeInv => TypeOK
  BY DEF TypeInv
<1> QED
  BY <1>1, TypeInit, TypeStep, PTL DEF Spec

-----------------------------------------------------------------------------
(* Nothing illegal is offered *)

(* An action, or one that waits to be confirmed, was legal for the version  *)
(* of the run it was offered for.                                           *)
Backed(op, at) == at \in 1 .. Len(log) /\ Fits(op, log[at])

OfferInv ==
  /\ \A a \in acts : Backed(a.op, a.at) /\ (a.code = 409 => Len(log) > a.at)
  /\ dialog.op # "none" => Backed(dialog.op, dialog.at)

(* The pages' tables against the API's. *)
LEMMA OffersFit ==
  ASSUME NEW p \in Pages, NEW state \in RunState, NEW by, NEW op,
         <<by, op>> \in Offers(p, state)
  PROVE  Fits(op, state)
<1>1. \/ op \in Controls(state) \/ op \in GateOffers(state) \/ op \in RowOffers(state)
      \/ op \in ProjectRowOffers(state) \/ op \in CardOffers(state)
  BY DEF Offers, Pages
<1>2. \A s \in {"approve", "reject", "cancel"} : s \notin RunState
  BY DEF RunState
<1>3. CASE op \in GateOffers(state) \/ op \in RowOffers(state) \/ op \in ProjectRowOffers(state)
             \/ op \in CardOffers(state)
  <2>1. op \in {"approve", "reject", "cancel"} /\ (op \in Decisions => state \in APPROVAL_STATES)
    BY <1>3 DEF GateOffers, RowOffers, ProjectRowOffers, CardOffers, Decisions
  <2> QED
    BY <1>2, <2>1 DEF Fits
<1>4. CASE op \in Controls(state)
  <2>1. op = "cancel" \/ op \in NEXT_STEP(state)
    BY <1>4 DEF Controls
  <2>2. CASE op = "cancel"
    BY <1>2, <2>2 DEF Fits, Decisions
  <2>3. CASE op \in NEXT_STEP(state)
    <3>1. <<state, op>> \in {<<"DRAFT", "PLANNING">>, <<"PLANNING", "AWAITING_PLAN_APPROVAL">>,
                             <<"PAUSED", "QUEUED">>, <<"FAILED", "DRAFT">>}
      BY <2>3 DEF NEXT_STEP
    <3>2. validate_transition(state, op)
      BY <3>1 DEF validate_transition, LEGAL_TRANSITIONS
    <3>3. op \notin Decisions
      BY <3>1 DEF Decisions
    <3> QED
      BY <3>2, <3>3 DEF Fits
  <2> QED
    BY <2>1, <2>2, <2>3
<1> QED
  BY <1>1, <1>3, <1>4

LEMMA OfferedBacked ==
  ASSUME TypeInv, NEW by, NEW op, Offered(by, op)
  PROVE  Backed(op, cache[Main(page)].data)
<1> DEFINE at == cache[Main(page)].data
<1>1. Main(page) \in Queries /\ Main(page) \in {"run", "runs"}
  BY ConstantsAssumption DEF Main
<1>2. log \in Seq(RunState) /\ page \in Pages /\ Len(log) \in Nat
  BY DEF TypeInv, TypeOK
<1>3. cache[Main(page)] \in Entry(0 .. Len(log))
  BY <1>1 DEF TypeInv, Sound, Current
<1>4. at \in 1 .. Len(log)
  BY <1>2, <1>3 DEF Entry, Offered, Sees, HasData
<1>5. <<by, op>> \in Offers(page, log[at]) /\ log[at] \in RunState
  BY <1>2, <1>4 DEF Offered, ShownState
<1> QED
  BY <1>2, <1>4, <1>5, OffersFit DEF Backed

LEMMA BackedGrows ==
  ASSUME log \in Seq(RunState), NEW state \in RunState, log' = Append(log, state),
         NEW op, NEW at, Backed(op, at)
  PROVE  Backed(op, at)' /\ Len(log') > at
BY DEF Backed

(* Steps that leave the log, and forget dialogs and actions at most. *)
LEMMA OffersKept ==
  ASSUME TypeInv, OfferInv, log' = log, dialog' \in {dialog, NoDialog},
         \A b \in acts' : \E a \in acts : b.op = a.op /\ b.at = a.at /\ b.code \in {a.code, 0}
  PROVE  OfferInv'
<1>1. NoDialog.op = "none"
  BY DEF NoDialog
<1> QED
  BY <1>1 DEF OfferInv, Backed

LEMMA OfferInit == Init => OfferInv
BY DEF Init, OfferInv, NoDialog

LEMMA OfferStep == TypeInv /\ OfferInv /\ [Next]_vars => OfferInv'
<1> SUFFICES ASSUME TypeInv, OfferInv, [Next]_vars PROVE OfferInv'
  OBVIOUS
<1>1. log \in Seq(RunState) /\ acts \subseteq Action /\ dialog \in Dialog
  BY DEF TypeInv, TypeOK, Dialog
<1>2. CASE UNCHANGED <<log, dialog>> /\ acts' \subseteq acts
  BY <1>2, OffersKept
<1>3. ASSUME NEW p \in Pages, Visit(p) PROVE OfferInv'
  <2>1. ASSUME NEW a \in acts
        PROVE  LET b == [a EXCEPT !.mounted = FALSE] IN b.op = a.op /\ b.at = a.at /\ b.code = a.code
    BY <1>1 DEF Action
  <2>2. acts' = {[a EXCEPT !.mounted = FALSE] : a \in acts}
    BY <1>3 DEF Visit
  <2>3. \A b \in acts' : \E a \in acts : b.op = a.op /\ b.at = a.at /\ b.code = a.code
    BY <2>1, <2>2
  <2> QED
    BY <1>3, <2>3, OffersKept DEF Visit
<1>4. ASSUME NEW c, NEW pick, Redraw(c, pick), log' = log PROVE OfferInv'
  <2>1. \A b \in acts' : \E a \in acts : b.op = a.op /\ b.at = a.at /\ b.code = a.code
    BY <1>1, <1>4, RedrawnActs
  <2>2. dialog' \in {dialog, NoDialog}
    BY <1>4 DEF Redraw
  <2> QED
    BY <1>4, <2>1, <2>2, OffersKept
<1>5. ASSUME NEW pick \in {1, 2}, Choose(pick) PROVE OfferInv'
  BY <1>4, <1>5 DEF Choose
<1>6. ASSUME NEW k \in Queries, Deliver(k) \/ Fail(k) PROVE OfferInv'
  BY <1>4, <1>6 DEF Deliver, Fail
<1>7. ASSUME NEW by \in Components, NEW op \in Ops, NEW at \in Nat, Send(by, op, at),
             Backed(op, at), UNCHANGED <<log, dialog>>
      PROVE  OfferInv'
  BY <1>7, Sending DEF OfferInv, Backed
<1>8. ASSUME NEW by \in Components, NEW op \in Ops, Press(by, op) PROVE OfferInv'
  <2> DEFINE at == cache[Main(page)].data
  <2>1. Backed(op, at) /\ Send(by, op, at) /\ UNCHANGED <<log, dialog>>
    BY <1>8, OfferedBacked DEF Press
  <2>2. at \in Nat
    BY <2>1 DEF Backed
  <2> HIDE DEF at
  <2> QED
    BY <1>7, <2>1, <2>2
<1>9. ASSUME NEW by \in Components, NEW op \in Ops, Open(by, op) PROVE OfferInv'
  <2> DEFINE at == cache[Main(page)].data
  <2>1. Backed(op, at) /\ dialog' = [by |-> by, op |-> op, at |-> at] /\ UNCHANGED <<log, acts>>
    BY <1>9, OfferedBacked DEF Open
  <2> HIDE DEF at
  <2> QED
    BY <2>1 DEF OfferInv, Backed
<1>10. CASE Confirm
  <2>1. /\ dialog.by \in Components /\ dialog.op \in Ops /\ dialog.at \in Nat
        /\ dialog.op # "none"
    BY <1>1, <1>10 DEF Confirm, Dialog, TypeInv
  <2>2. Backed(dialog.op, dialog.at) /\ Send(dialog.by, dialog.op, dialog.at)
    BY <1>10, <2>1 DEF Confirm, OfferInv
  <2> QED
    BY <1>7, <1>10, <2>1, <2>2 DEF Confirm
<1>11. ASSUME NEW a \in acts, NEW b, Replaced(a, b), b.op = a.op, b.at = a.at, UNCHANGED dialog,
              log' = log \/ \E state \in RunState : log' = Append(log, state),
              b.code = 409 => a.code = 409 \/ (~ Fits(a.op, Now) /\ log' = log)
       PROVE  OfferInv'
  <2>1. ASSUME NEW op, NEW at, Backed(op, at)
        PROVE  Backed(op, at)' /\ Len(log') >= Len(log) /\ Len(log) \in Nat /\ Len(log') \in Nat
    <3>1. CASE log' = log
      BY <1>1, <2>1, <3>1 DEF Backed
    <3>2. ASSUME NEW state \in RunState, log' = Append(log, state)
          PROVE  Backed(op, at)' /\ Len(log') >= Len(log) /\ Len(log) \in Nat /\ Len(log') \in Nat
      BY <1>1, <2>1, <3>2, BackedGrows
    <3> QED
      BY <1>11, <3>1, <3>2
  <2>2. b.code = 409 => Len(log') > b.at
    <3>1. Backed(a.op, a.at) /\ (a.code = 409 => Len(log) > a.at)
      BY DEF OfferInv
    <3>2. ~ Fits(a.op, Now) => Len(log) > a.at
      BY <1>1, <3>1 DEF Backed, Now
    <3> QED
      BY <1>11, <2>1, <3>1, <3>2 DEF Backed
  <2>3. ASSUME NEW x \in acts' PROVE Backed(x.op, x.at)' /\ (x.code = 409 => Len(log') > x.at)
    <3>1. CASE x = b
      BY <1>11, <2>1, <2>2, <3>1 DEF OfferInv
    <3>2. CASE x \in acts
      <4>1. Backed(x.op, x.at) /\ (x.code = 409 => Len(log) > x.at)
        BY <3>2 DEF OfferInv
      <4>2. x.at \in Nat
        BY <4>1 DEF Backed
      <4> QED
        BY <2>1, <4>1, <4>2
    <3> QED
      BY <1>11, <3>1, <3>2 DEF Replaced
  <2>4. (dialog.op # "none" => Backed(dialog.op, dialog.at))'
    BY <1>11, <2>1 DEF OfferInv, Backed
  <2> QED
    BY <2>3, <2>4 DEF OfferInv
<1>12. ASSUME NEW a \in acts, Decide(a) PROVE OfferInv'
  BY <1>11, <1>12, DecideOutcomes DEF Decided, Decide
<1>13. ASSUME NEW a \in acts, Record(a) PROVE OfferInv'
  BY <1>11, <1>13, RecordOutcome DEF Record
<1>14. ASSUME NEW state \in RunState, Move(state) PROVE OfferInv'
  <2>1. log' = Append(log, state) /\ UNCHANGED <<acts, dialog>>
    BY <1>14 DEF Move
  <2>2. ASSUME NEW op, NEW at, Backed(op, at) PROVE Backed(op, at)' /\ Len(log') > at
    BY <1>1, <2>1, <2>2, BackedGrows
  <2> QED
    BY <2>1, <2>2 DEF OfferInv
<1>15. ASSUME NEW a \in acts, Succeed(a) PROVE OfferInv'
  <2>1. log' = log /\ dialog' \in {dialog, NoDialog} /\ acts' \subseteq acts
    BY <1>15 DEF Succeed
  <2> QED
    BY <2>1, OffersKept
<1>16. CASE Dismiss
  BY <1>16, OffersKept DEF Dismiss
<1> QED
  BY <1>2, <1>3, <1>5, <1>6, <1>8, <1>9, <1>10, <1>12, <1>13, <1>14, <1>15, <1>16
     DEF Next, vars, Poll, Serve, Retry, Refused, RecordElsewhere

(* No page offers what the API would refuse of the version of the run it   *)
(* shows: a conflict is answered only when the run has moved since, however *)
(* old the page's data, and whatever is confirmed late (NEXT_STEP, the     *)
(* gates, rows and cards of the pages against validate_transition).        *)
THEOREM OffersLegal == Spec => []RefusedOnlyIfMoved
<1>1. OfferInv => RefusedOnlyIfMoved
  BY DEF OfferInv, RefusedOnlyIfMoved
<1> QED
  BY <1>1, TypeInit, TypeStep, OfferInit, OfferStep, PTL DEF Spec

-----------------------------------------------------------------------------
(* The execution graph *)

(* A history that the transition table allows. *)
LegalPath(h) == h[1] = "DRAFT" /\ \A i \in 2 .. Len(h) : validate_transition(h[i - 1], h[i])

(* The states that an attempt in this one has been through, unless it ended *)
(* early.                                                                   *)
Behind(state) ==
  CASE state = "DRAFT"    -> {"DRAFT"}
    [] state = "PLANNING" -> {"DRAFT", "PLANNING"}
    [] state = "AWAITING_PLAN_APPROVAL" -> {"DRAFT", "PLANNING", "AWAITING_PLAN_APPROVAL"}
    [] state = "QUEUED"   -> {"DRAFT", "PLANNING", "AWAITING_PLAN_APPROVAL", "QUEUED"}
    [] state \in {"RUNNING", "AWAITING_ACTION_APPROVAL", "PAUSED"} ->
         {"DRAFT", "PLANNING", "AWAITING_PLAN_APPROVAL", "QUEUED", "RUNNING"}
    [] state = "COMPLETED" ->
         {"DRAFT", "PLANNING", "AWAITING_PLAN_APPROVAL", "QUEUED", "RUNNING", "COMPLETED"}
    [] OTHER -> {}

(* Attempt for any history, and the versions it takes in.                   *)
Since(h, version) == {i \in 1 .. version : \A j \in i + 1 .. version : h[j] # "DRAFT"}
Seen(h, version)  == {h[i] : i \in Since(h, version)}

(* A legal move adds the state it goes to, and a retry starts afresh.       *)
LEMMA MoveAddsItself ==
  ASSUME NEW s \in RunState, NEW t \in RunState, validate_transition(s, t)
  PROVE  Behind(t) \subseteq (IF t = "DRAFT" THEN {} ELSE Behind(s)) \union {t}
<1>1. \/ s = "DRAFT"    /\ t \in {"PLANNING", "CANCELLED"}
      \/ s = "PLANNING" /\ t \in {"AWAITING_PLAN_APPROVAL", "FAILED", "CANCELLED"}
      \/ s = "AWAITING_PLAN_APPROVAL" /\ t \in {"QUEUED", "CANCELLED"}
      \/ s = "QUEUED"   /\ t \in {"RUNNING", "FAILED", "CANCELLED"}
      \/ s = "RUNNING"  /\ t \in {"AWAITING_ACTION_APPROVAL", "PAUSED", "COMPLETED", "FAILED", "CANCELLED"}
      \/ s = "AWAITING_ACTION_APPROVAL" /\ t \in {"RUNNING", "CANCELLED"}
      \/ s = "PAUSED"   /\ t \in {"QUEUED", "CANCELLED"}
      \/ s = "FAILED"   /\ t = "DRAFT"
  BY DEF validate_transition, LEGAL_TRANSITIONS
<1>2. CASE t \in {"FAILED", "CANCELLED"}
  BY <1>2 DEF Behind
<1>3. CASE t \notin {"FAILED", "CANCELLED"}
  BY <1>1, <1>3 DEF Behind
<1> QED
  BY <1>2, <1>3

(* A set of naturals that is not empty has a smallest member. *)
LEMMA SmallestExists ==
  ASSUME NEW S \in SUBSET Nat, NEW n \in S
  PROVE  \E m \in S : \A x \in S : m <= x
<1> DEFINE Low == {x \in S : x <= n}
           T == {0 .. x : x \in Low}
<1>0. n \in Nat
  OBVIOUS
<1>1. n \in Nat /\ Low \in SUBSET Nat /\ n \in Low
  <2>1. n <= n
    BY <1>0
  <2>2. Low \in SUBSET Nat
    OBVIOUS
  <2> QED
    BY <1>0, <2>1, <2>2
<1>2. IsFiniteSet(0 .. n)
  BY <1>1, FS_Interval
<1>3. IsWellFoundedOn(StrictSubsetOrdering(0 .. n), SUBSET (0 .. n))
  BY <1>2, FS_FiniteSubsetsOfFinite, FS_StrictSubsetOrderingWellFounded
<1>4. T \subseteq SUBSET (0 .. n) /\ T # {}
  <2>1. \A x \in Low : x \in Nat /\ x <= n
    BY <1>1
  <2> HIDE DEF Low
  <2> QED
    BY <1>1, <2>1
<1>5. \E Z \in T : \A Y \in T : ~ (<<Y, Z>> \in StrictSubsetOrdering(0 .. n))
  <2> HIDE DEF T
  <2> QED
    BY <1>3, <1>4, WFMin
<1>6. PICK m \in Low : \A x \in Low : ~ (<<0 .. x, 0 .. m>> \in StrictSubsetOrdering(0 .. n))
  BY <1>5
<1>7. m \in Nat /\ m \in S /\ m <= n
  BY <1>1
<1>8. ASSUME NEW x \in S, x < m PROVE FALSE
  <2>1. x \in Nat /\ x \in Low
    BY <1>7, <1>8
  <2>2. 0 .. x \subseteq 0 .. m /\ m \in 0 .. m /\ m \notin 0 .. x /\ 0 .. x \subseteq 0 .. n /\ 0 .. m \subseteq 0 .. n
    BY <1>1, <1>7, <1>8, <2>1
  <2>3. 0 .. x # 0 .. m
    BY <2>2
  <2>4. <<0 .. x, 0 .. m>> \in StrictSubsetOrdering(0 .. n)
    BY <2>2, <2>3 DEF StrictSubsetOrdering
  <2> QED
    BY <1>6, <2>1, <2>4
<1>9. \A x \in S : x \in Nat
  OBVIOUS
<1> QED
  BY <1>7, <1>8, <1>9

(* What lies behind a run on a legal path is on the path, and after its     *)
(* last draft: look at the first version for which it is not.               *)
LEMMA PathCovers ==
  ASSUME NEW h \in Seq(RunState), LegalPath(h), NEW version \in 1 .. Len(h)
  PROVE  Behind(h[version]) \subseteq Seen(h, version)
<1> DEFINE Bad == {v \in 1 .. Len(h) : ~ (Behind(h[v]) \subseteq Seen(h, v))}
<1> SUFFICES ASSUME version \in Bad PROVE FALSE
  OBVIOUS
<1>1. Bad \in SUBSET Nat /\ Len(h) \in Nat
  OBVIOUS
<1>2. PICK m \in Bad : \A x \in Bad : m <= x
  <2> HIDE DEF Bad
  <2> QED
    BY <1>1, SmallestExists
<1>3. m \in 1 .. Len(h) /\ h[m] \in RunState /\ ~ (Behind(h[m]) \subseteq Seen(h, m))
  OBVIOUS
<1>4. h[m] \in Seen(h, m)
  <2>1. m \in Since(h, m)
    BY <1>3 DEF Since
  <2> QED
    BY <2>1 DEF Seen
<1>5. CASE m = 1 \/ h[m] = "DRAFT"
  <2>1. h[m] = "DRAFT" /\ Behind("DRAFT") = {"DRAFT"}
    BY <1>5 DEF LegalPath, Behind
  <2> QED
    BY <1>3, <1>4, <2>1
<1>6. CASE m # 1 /\ h[m] # "DRAFT"
  <2>1. m - 1 \in 1 .. Len(h) /\ m \in 2 .. Len(h) /\ m - 1 < m /\ h[m - 1] \in RunState
    BY <1>1, <1>3, <1>6
  <2>2. Behind(h[m - 1]) \subseteq Seen(h, m - 1)
    BY <1>2, <2>1
  <2>3. Seen(h, m - 1) \subseteq Seen(h, m)
    <3>1. ASSUME NEW i \in Since(h, m - 1) PROVE i \in Since(h, m)
      <4>1. i \in 1 .. m - 1 /\ i \in 1 .. m
        BY <1>3, <2>1 DEF Since
      <4>2. ASSUME NEW j \in i + 1 .. m PROVE h[j] # "DRAFT"
        <5>1. j = m \/ j \in i + 1 .. m - 1
          BY <1>3, <4>1
        <5> QED
          BY <1>6, <5>1 DEF Since
      <4> QED
        BY <4>1, <4>2 DEF Since
    <3> QED
      BY <3>1 DEF Seen
  <2>4. Behind(h[m]) \subseteq Behind(h[m - 1]) \union {h[m]}
    BY <1>3, <1>6, <2>1, MoveAddsItself DEF LegalPath
  <2> QED
    BY <1>3, <1>4, <2>2, <2>3, <2>4
<1> QED
  BY <1>5, <1>6

(* What deriveGraph draws as passed is behind the run. *)
LEMMA PassedLiesBehind ==
  ASSUME NEW state \in RunState \ {"FAILED", "CANCELLED"}, NEW node \in PassedNodes(state)
  PROVE  Through[node] \subseteq Behind(state)
<1>1. /\ DOMAIN Through = {"planning", "queue", "execution"}
      /\ Through["planning"] = {"PLANNING", "AWAITING_PLAN_APPROVAL"}
      /\ Through["queue"] = {"QUEUED", "RUNNING"}
      /\ Through["execution"] = {"RUNNING", "COMPLETED"}
  BY DEF Through
<1>2. /\ node \in {"planning", "queue", "execution"}
      /\ node = "planning" => order(state) > 1
      /\ node = "queue" => order(state) > 3
      /\ node = "execution" => order(state) > 4
  BY <1>1 DEF PassedNodes
<1>3. CASE state \in {"DRAFT", "PLANNING"}
  <2>1. CASE state = "DRAFT"
    <3>1. order(state) = 0
      BY <2>1 DEF order, FinalStates
    <3> QED
      BY <1>2, <3>1
  <2>2. CASE state = "PLANNING"
    <3>1. order(state) = 1
      BY <2>2 DEF order, FinalStates
    <3> QED
      BY <1>2, <3>1
  <2> QED
    BY <1>3, <2>1, <2>2
<1>4. CASE state = "AWAITING_PLAN_APPROVAL"
  <2>1. order(state) = 2 /\ Behind(state) = {"DRAFT", "PLANNING", "AWAITING_PLAN_APPROVAL"}
    BY <1>4 DEF order, Behind, FinalStates
  <2> QED
    BY <1>1, <1>2, <2>1
<1>5. CASE state = "QUEUED"
  <2>1. order(state) = 3 /\ Behind(state) = {"DRAFT", "PLANNING", "AWAITING_PLAN_APPROVAL", "QUEUED"}
    BY <1>5 DEF order, Behind, FinalStates
  <2> QED
    BY <1>1, <1>2, <2>1
<1>6. CASE state \in {"RUNNING", "AWAITING_ACTION_APPROVAL", "PAUSED"}
  <2>1. Behind(state) = {"DRAFT", "PLANNING", "AWAITING_PLAN_APPROVAL", "QUEUED", "RUNNING"}
    BY <1>6 DEF Behind
  <2>2. order(state) = 4
    BY <1>6 DEF order, FinalStates
  <2> QED
    BY <1>1, <1>2, <2>1, <2>2
<1>7. CASE state = "COMPLETED"
  <2>1. Behind(state) = {"DRAFT", "PLANNING", "AWAITING_PLAN_APPROVAL", "QUEUED", "RUNNING", "COMPLETED"}
    BY <1>7 DEF Behind
  <2> QED
    BY <1>1, <1>2, <2>1
<1> QED
  BY <1>3, <1>4, <1>5, <1>6, <1>7 DEF RunState

LEMMA PathGrows ==
  ASSUME log \in Seq(RunState), log # <<>>, LegalPath(log),
         NEW state \in RunState, validate_transition(Now, state), log' = Append(log, state)
  PROVE  LegalPath(log')
<1>1. Len(log) \in Nat \ {0} /\ Len(log') = Len(log) + 1
  OBVIOUS
<1>2. log'[1] = log[1]
  BY <1>1
<1>3. ASSUME NEW i \in 2 .. Len(log') PROVE validate_transition(log'[i - 1], log'[i])
  <2>1. CASE i <= Len(log)
    <3>1. i \in 2 .. Len(log) /\ log'[i - 1] = log[i - 1] /\ log'[i] = log[i]
      BY <1>1, <2>1
    <3> QED
      BY <3>1 DEF LegalPath
  <2>2. CASE i = Len(log) + 1
    <3>1. log'[i - 1] = Now /\ log'[i] = state
      BY <1>1, <2>2 DEF Now
    <3> QED
      BY <3>1
  <2> QED
    BY <1>1, <2>1, <2>2
<1> QED
  BY <1>2, <1>3 DEF LegalPath

(* The handlers' own checks are never laxer than the table. *)
LEMMA DecisionsLegal ==
  ASSUME TypeInv, NEW a \in acts, Decide(a)
  PROVE  log' = log \/ \E state \in RunState : validate_transition(Now, state) /\ log' = Append(log, state)
<1>1. Now \in RunState
  BY DEF TypeInv, TypeOK, Now
<1>2. \A gate \in ApprovalGates : gate.next \in RunState /\ validate_transition(gate.at, gate.next)
  BY DEF ApprovalGates, RunState, validate_transition, LEGAL_TRANSITIONS
<1>3. Now \in APPROVAL_STATES \/ Now \notin TERMINAL_STATES => validate_transition(Now, "CANCELLED")
  BY <1>1 DEF APPROVAL_STATES, TERMINAL_STATES, RunState, validate_transition, LEGAL_TRANSITIONS
<1>4. "CANCELLED" \in RunState
  BY DEF RunState
<1>5. \/ \E gate \in ApprovalGates : gate.at = Now /\ log' = Append(log, gate.next)
      \/ (Now \in APPROVAL_STATES \/ Now \notin TERMINAL_STATES) /\ log' = Append(log, "CANCELLED")
      \/ a.op \in RunState /\ validate_transition(Now, a.op) /\ log' = Append(log, a.op)
      \/ log' = log
  BY DEF Decide, Commit, Refuse
<1> QED
  BY <1>2, <1>3, <1>4, <1>5

LEMMA PathStep == TypeInv /\ LegalPath(log) /\ [Next]_vars => LegalPath(log)'
<1> SUFFICES ASSUME TypeInv, LegalPath(log), [Next]_vars PROVE LegalPath(log')
  BY DEF LegalPath
<1>1. log \in Seq(RunState) /\ log # <<>>
  BY DEF TypeInv, TypeOK
<1>2. log' = log \/ \E state \in RunState : validate_transition(Now, state) /\ log' = Append(log, state)
  <2>1. ASSUME NEW a \in acts, Decide(a)
        PROVE  log' = log \/ \E state \in RunState : validate_transition(Now, state) /\ log' = Append(log, state)
    BY <2>1, DecisionsLegal
  <2>2. CASE \E state \in RunState : Move(state)
    BY <2>2 DEF Move
  <2>3. CASE ~ (\E state \in RunState : Move(state)) /\ ~ \E a \in acts : Decide(a)
    BY <2>3 DEF Next, vars, Visit, Choose, Poll, Serve, Deliver, Fail, Retry, Dismiss, Confirm, Press, Open,
       Record, Succeed, Refused, RecordElsewhere
  <2> QED
    BY <2>1, <2>2, <2>3
<1> QED
  BY <1>1, <1>2, PathGrows

(* GraphTruthful, for any histories the table allows, any number of retries *)
(* and however old the version a page shows: deriveGraph looks at the state *)
(* alone, and on every path of the table the state tells what the attempt   *)
(* has been through (planning, queue and execution; the other nodes claim   *)
(* what the run's states do not tell).                                      *)
THEOREM GraphIsTruthful == Spec => []GraphTruthful
<1>1. Init => LegalPath(log)
  BY HistoriesAssumption DEF Init, LegalPath
<1>2. TypeInv /\ LegalPath(log) => GraphTruthful
  <2> SUFFICES ASSUME TypeInv, LegalPath(log), NEW p \in {"detail", "operations"}, page = p,
                      Sees(p, cache, chosen), ShownState(p, cache) \notin {"FAILED", "CANCELLED"},
                      NEW node \in PassedNodes(ShownState(p, cache))
               PROVE  Through[node] \subseteq Attempt(cache[Main(p)].data)
    BY DEF GraphTruthful
  <2> DEFINE version == cache[Main(p)].data
  <2>1. log \in Seq(RunState) /\ Len(log) \in Nat
    BY DEF TypeInv, TypeOK
  <2>2. version \in 1 .. Len(log)
    <3>1. Main(p) \in Queries /\ Main(p) \in {"run", "runs"}
      BY ConstantsAssumption DEF Main
    <3>2. cache[Main(p)] \in Entry(0 .. Len(log))
      BY <3>1 DEF TypeInv, Sound, Current
    <3> QED
      BY <2>1, <3>2 DEF Entry, Sees, HasData
  <2>3. ShownState(p, cache) = log[version]
    BY DEF ShownState
  <2> HIDE DEF version
  <2>4. /\ log[version] \in RunState \ {"FAILED", "CANCELLED"}
        /\ Behind(log[version]) \subseteq Seen(log, version)
    BY <2>1, <2>2, <2>3, PathCovers
  <2>5. Through[node] \subseteq Behind(log[version])
    BY <2>3, <2>4, PassedLiesBehind
  <2>6. Seen(log, version) = Attempt(version)
    BY DEF Seen, Since, Attempt
  <2> QED
    BY <2>4, <2>5, <2>6 DEF version
<1> QED
  BY <1>1, <1>2, TypeInit, TypeStep, PathStep, PTL DEF Spec

=============================================================================
