-------------------------------- MODULE Console --------------------------------
(***************************************************************************)
(* One tab on one page of the owner's dashboard or the admins' console:    *)
(* the React state of the page, its handlers in flight and the records of  *)
(* the server.  A handler runs to its fetch, the server serves the request *)
(* (or it is lost), and the rest of the handler runs when the answer is    *)
(* there, with the values it captured at the start.                        *)
(***************************************************************************)
EXTENDS PageLanguage

CONSTANTS
  Site,        \* the pages: names to descriptions (PageLanguage)
  Drifting,    \* those that show a failure as a success, or write back old rows
  Mixing,      \* those that keep details of the record opened before
  MaxCalls,    \* bound: requests in flight when the user starts one more
  MaxPresses   \* bound, for each page: buttons pressed and clicks that start requests

ASSUME ConsoleAssumption == MaxCalls \in Nat /\ MaxPresses \in [DOMAIN Site -> Nat]

\* The handlers and panels a page names are its own; a flag that holds a record's id belongs
\* to a handler that is called with the record.
Closed(p) ==
  LET names == DOMAIN p.handlers
  IN /\ p.first \in DOMAIN p.panels /\ p.mount \cup p.polls \subseteq names
     /\ \A h \in names :
          /\ p.handlers[h].then \subseteq names
          /\ p.handlers[h].own # {} => "active" \in p.slots
          /\ \/ p.handlers[h].shuts \cup p.handlers[h].own \cup p.handlers[h].leaves = {}
             \/ p.handlers[h].goto \in DOMAIN p.panels
     /\ \A q \in DOMAIN p.panels :
          /\ \A b \in p.panels[q].buttons : b.do \in names
          /\ \A m \in p.panels[q].moves : m.to \in DOMAIN p.panels /\ m.starts \subseteq names
RecordFlagged(p) ==
  \A h \in DOMAIN p.handlers :
    p.handlers[h].flag = "record" => p.handlers[h].kind # "load" /\ p.handlers[h].on # "new"

ASSUME SiteAssumption == \A p \in DOMAIN Site : Closed(Site[p]) /\ RecordFlagged(Site[p])

VARIABLES
  page,      \* the page this tab shows
  docs,      \* the server's records
  view,      \* the page's state
  calls,     \* handlers in flight
  presses,   \* number of presses
  missed,    \* history: a change that no list served since can show, or answers that crossed
  crossed    \* history: a record was opened while details of another were on their way

vars == <<page, docs, view, calls, presses, missed, crossed>>

This == Site[page]
Handler(h) == This.handlers[h]
PanelNow == This.panels[view.panel]

-----------------------------------------------------------------------------
(* Beginning a handler                                                     *)

NoRows == [r \in Recs |-> Absent]

\* The same handler may run twice at once: its runs are numbered.
Runs(cs, h) == {k.nth : k \in {l \in cs : l.do = h}}
FreeNumber(cs, h) == CHOOSE n \in 1 .. Cardinality(cs) + 1 : n \notin Runs(cs, h)

\* The values a handler captures: its record, the rows if it writes them back, the record the
\* drawer was last opened for if it compares the two.
NewCall(cs, h, r, v) ==
  [do |-> h, nth |-> FreeNumber(cs, h), rec |-> r, phase |-> "sent", holds |-> {},
   rows |-> IF Handler(h).patch \in {"captured", "before"} THEN v.rows ELSE NoRows, data |-> NoRows,
   open |-> IF Handler(h).marks THEN v.open ELSE None,
   active |-> IF Handler(h).own # {} THEN v.slots["active"] ELSE None]

\* A busy flag may hold the id of the record it is about.
FlagFor(f, r) == IF f = "record" THEN r ELSE f
FlagsOf(hs, r) == {FlagFor(Handler(h).flag, r) : h \in hs} \ {None}
SharedWith(fs) == IF fs \cap This.shared = {} THEN {} ELSE This.shared
Raised(busy, fs) == (busy \ SharedWith(fs)) \cup fs
WithFlags(busy, hs, r) == Raised(busy, FlagsOf(hs, r))

Enabled(off, r, v) == \A f \in off : FlagFor(f, r) \notin v.busy

\* The handlers hs begin, for record r, in a page whose state is v.
CallsOf(cs, hs, r, v) ==
  {NewCall(cs, h, IF Handler(h).kind = "load" THEN None ELSE r, v) : h \in hs}
Begin(hs, r, v) ==
  /\ view' = [v EXCEPT !.busy = WithFlags(@, hs, r)]
  /\ calls' = calls \cup CallsOf(calls, hs, r, v)

Start(p) ==
  [panel |-> p.first,
   rows |-> [r \in Recs |-> IF r \in p.recs THEN p.demo[r] ELSE Absent],
   open |-> None, seen |-> Absent,
   slots |-> [s \in p.slots |-> None], busy |-> {}]

StartBusy == [Start(This) EXCEPT !.busy = WithFlags({}, This.mount, None)]

Init ==
  /\ page \in DOMAIN Site
  /\ docs \in {d \in [Recs -> Site[page].begin \cup {Absent}] :
                \A r \in Recs : IF r \in This.recs THEN d[r] \in This.begin ELSE d[r] = Absent}
  /\ view = StartBusy
  /\ calls = CallsOf({}, This.mount, None, Start(This))
  /\ presses = 0
  /\ missed = FALSE /\ crossed = FALSE

-----------------------------------------------------------------------------
(* What a handler does to the page when its answer is there                *)

\* The finally block; the first form clears every flag of the page.
SettleAll(v, fs) == [v EXCEPT !.busy = {}]
Settle(v, fs) == [v EXCEPT !.busy = @ \ (fs \cup SharedWith(fs))]
FlagsHeld(k) == FlagsOf({k.do}, k.rec) \cup k.holds

\* A record the page makes up gets a row of its own.
RowOf(k, v) == IF k.rec # None THEN {k.rec} ELSE {r \in This.recs : v.rows[r] = Absent}

\* The row of record r written back, in the rows shown or in those captured; setSelected...
\* changes whichever copy is shown by now.
Rewritten(h, k, r, v, how) ==
  LET marked == h.marks /\ k.open = r
  IN [v EXCEPT !.rows = [IF how = "current" THEN @ ELSE k.rows EXCEPT ![r] = h.to],
               !.seen = IF marked THEN h.to ELSE @,
               !.slots = [s \in DOMAIN @ |-> IF marked /\ s = "copy" THEN r ELSE @[s]]]

\* Are the rows those of the answer?  First, never those of an empty one.
TakesFull(k, how) == how \in {"answer", "unlessEmpty"} /\ k.data # NoRows
TakesAnswer(k, how) == how = "answer" \/ (how = "unlessEmpty" /\ k.data # NoRows)

Patched(h, k, v, how) ==
  IF TakesAnswer(k, how) THEN [v EXCEPT !.rows = k.data]
  ELSE IF how = "before" THEN [v EXCEPT !.rows = k.rows]
  ELSE IF how \in {"current", "captured"} /\ RowOf(k, v) # {}
  THEN Rewritten(h, k, CHOOSE r \in RowOf(k, v) : TRUE, v, how)
  ELSE v

Spared(h, k, v) == k.rec # None /\ v.rows[k.rec] \in h.spares

Filled(h, k, v) == IF h.slot = None THEN v ELSE [v EXCEPT !.slots[h.slot] = k.rec]

Shut(h, k, v) ==
  IF v.panel \in h.shuts \/ (v.panel \in h.own /\ k.active = k.rec)
  THEN [v EXCEPT !.panel = h.goto] ELSE v

-----------------------------------------------------------------------------
(* The user                                                                *)

MayStart(hs) == hs # {} => presses < MaxPresses[page] /\ Cardinality(calls) < MaxCalls

\* The records a button may be pressed for, and the states they are shown in.
Subjects(h, b) ==
  CASE h.on = "row"  -> {r \in Recs : view.rows[r] \in b.when}
    [] h.on = "open" -> {r \in Recs : r = view.open /\ (b.when = {} \/ view.seen \in b.when)}
    [] h.on \in Recs -> {r \in Recs : r = h.on /\ (b.when = {} \/ view.rows[r] \in b.when)}
    [] OTHER -> {None}

\* A handler that sends nothing is over at once.
BeginLocal(h, k, r) == Begin(h.then, r, Shut(h, k, Patched(h, k, view, h.patch)))

Press(h, b, r) ==
  /\ MayStart({b.do}) /\ Enabled(b.off, r, view) /\ r \in Subjects(h, b)
  /\ IF h.kind = "local" THEN BeginLocal(h, NewCall(calls, b.do, r, view), r)
     ELSE Begin({b.do}, r, view)
  /\ presses' = presses + 1
  /\ UNCHANGED <<page, docs, missed, crossed>>

\* The page once a panel is opened; first, with the details of the last one kept.
ClickedKeeping(m, r) ==
  [view EXCEPT !.panel = m.to, !.open = r, !.seen = IF m.picks THEN view.rows[r] ELSE @]
Clicked(m, r) ==
  [view EXCEPT !.panel = m.to, !.open = r, !.seen = IF m.picks THEN view.rows[r] ELSE @,
               !.slots = [s \in DOMAIN @ |-> IF s \in m.empties THEN None
                                           ELSE IF s \in m.fills THEN r ELSE @[s]]]
Click(m, r) ==
  /\ MayStart(m.starts) /\ Enabled(m.off, r, view)
  /\ IF m.picks THEN r \in Recs /\ view.rows[r] \in m.when ELSE r = view.open
  /\ Begin(m.starts, r, Clicked(m, r))
  /\ presses' = IF m.starts = {} THEN presses ELSE presses + 1
  /\ crossed' = (crossed \/ \E k \in calls : /\ k.rec # r
                                            /\ (Handler(k.do).slot # None \/ Handler(k.do).marks))
  /\ UNCHANGED <<page, docs, missed>>

\* setInterval.
Poll(h) ==
  /\ Cardinality(calls) < MaxCalls /\ \A k \in calls : k.do # h
  /\ Begin({h}, None, view)
  /\ UNCHANGED <<page, docs, presses, missed, crossed>>

Reload ==
  /\ view' = [StartBusy EXCEPT !.rows = IF This.cached THEN view.rows ELSE @]
  /\ calls' = CallsOf({}, This.mount, None, Start(This))
  /\ missed' = (missed \/ \E k \in calls : k.phase = "ok")
  /\ presses' = 0 /\ crossed' = FALSE
  /\ UNCHANGED <<page, docs>>

-----------------------------------------------------------------------------
(* The server                                                              *)

Become(k, l) == calls' = (calls \ {k}) \cup {l}

ServeLoad(h, k) ==
  /\ h.kind = "load"
  /\ Become(k, [k EXCEPT !.phase = "ok", !.data = docs])
  /\ missed' = \E l \in calls \ {k} : Handler(l.do).kind \in {"load", "post"}
  /\ UNCHANGED docs

ServeFetch(h, k) ==
  /\ h.kind = "fetch"
  /\ k.rec = None \/ docs[k.rec] # Absent
  /\ Become(k, [k EXCEPT !.phase = "ok"])
  /\ UNCHANGED <<docs, missed>>

\* The answer to a post may carry the list.
ServePost(h, k, r) ==
  /\ h.kind = "post"
  /\ r \in This.recs /\ (h.on = "new" \/ r = k.rec)
  /\ docs[r] \in h.from \cup h.keeps
  /\ docs' = [docs EXCEPT ![r] = IF @ \in h.keeps THEN @ ELSE h.to]
  /\ Become(k, [k EXCEPT !.rec = r, !.phase = "ok",
                         !.data = IF h.patch = "answer" THEN docs' ELSE NoRows])
  /\ missed' = (missed \/ \E l \in calls : Handler(l.do).kind = "load" /\ l.phase = "ok")

ServeAsk(h, k) ==
  /\ h.kind = "ask"
  /\ Become(k, [k EXCEPT !.phase = "ok"])
  /\ UNCHANGED <<docs, missed>>

Serve(h, k) ==
  /\ k.phase = "sent"
  /\ ServeLoad(h, k) \/ ServeFetch(h, k) \/ (\E r \in Recs : ServePost(h, k, r)) \/ ServeAsk(h, k)
  /\ UNCHANGED <<page, view, presses, crossed>>

\* The other party, another tab, the server's own jobs.
Elsewhere(r, s) ==
  /\ <<docs[r], s>> \in This.others
  /\ docs' = [docs EXCEPT ![r] = s]
  /\ missed' = TRUE
  /\ UNCHANGED <<page, view, calls, presses, crossed>>

-----------------------------------------------------------------------------
(* The rest of the handler                                                 *)

\* The handlers called next, with the flags of one that awaits them.
CallsNext(h, k, waits, v) ==
  {[l EXCEPT !.holds = IF waits THEN FlagsHeld(k) ELSE {}] : l \in CallsOf(calls, h.then, k.rec, v)}
GoesOn(h, k, waits, v) ==
  /\ view' = [v EXCEPT !.busy = WithFlags(@, h.then, k.rec)]
  /\ calls' = (calls \ {k}) \cup CallsNext(h, k, waits, v)

\* A handler that awaits the ones it calls keeps its flag until they end.
Waits(h) == h.awaits /\ h.then # {}
Done(h, k) == Shut(h, k, Filled(h, k, Patched(h, k, view, h.patch)))
Succeeds(h, k) ==
  GoesOn(h, k, Waits(h), IF Waits(h) THEN Done(h, k) ELSE Settle(Done(h, k), FlagsHeld(k)))

\* An error that is shown as a success.
Pretends(h, k, how) ==
  LET patch == IF Spared(h, k, view) THEN "none" ELSE h[how]
  IN view' = Settle(Shut(h, k, Patched(h, k, view, patch)), FlagsHeld(k))

\* An error that ends in a toast.
Left(h) == IF view.panel \in h.leaves THEN [view EXCEPT !.panel = h.goto] ELSE view
GivesUnsettled(h, k) == view' = Left(h)    \* without the finally block
Gives(h, k) == view' = IF h.settles THEN Settle(Left(h), FlagsHeld(k)) ELSE Left(h)

Arrive(h, k) ==
  /\ k.phase = "ok" \/ h.kind = "timer"
  /\ Succeeds(h, k)
  /\ UNCHANGED <<page, docs, presses, missed, crossed>>

\* The server refuses the request, or the request or its answer is lost.
Fail(h, k, how) ==
  /\ h.kind # "timer"
  /\ k.phase = "sent" \/ how = "lost"
  /\ IF h[how] = "error" THEN Gives(h, k) ELSE Pretends(h, k, how)
  /\ calls' = calls \ {k}
  /\ missed' = (missed \/ h.kind = "load" \/ k.phase = "ok")
  /\ UNCHANGED <<page, docs, presses, crossed>>

-----------------------------------------------------------------------------

UserStep ==
  \/ \E b \in PanelNow.buttons, r \in Recs \cup {None} : Press(Handler(b.do), b, r)
  \/ \E m \in PanelNow.moves, r \in Recs \cup {None} : Click(m, r)
  \/ \E h \in This.polls : Poll(h)
  \/ Reload

CallStep(h, k) == Serve(h, k) \/ Arrive(h, k) \/ \E how \in {"refused", "lost"} : Fail(h, k, how)

Next ==
  \/ UserStep
  \/ \E k \in calls : CallStep(Handler(k.do), k)
  \/ \E r \in Recs, s \in This.states : Elsewhere(r, s)

Spec == Init /\ [][Next]_vars

-----------------------------------------------------------------------------
(* Properties                                                              *)

Flags == Recs \cup FlagsOf(DOMAIN This.handlers, "a")

TypeOK ==
  /\ page \in DOMAIN Site
  /\ docs \in [Recs -> This.states \cup {Absent}]
  /\ view \in [panel: DOMAIN This.panels, rows: [Recs -> This.states \cup {Absent}],
               open: Recs \cup {None}, seen: This.states \cup {Absent},
               slots: [This.slots -> Recs \cup {None}],
               busy: SUBSET Flags]
  /\ calls \subseteq [do: DOMAIN This.handlers, nth: Nat \ {0}, rec: Recs \cup {None},
                      phase: {"sent", "ok"}, holds: SUBSET Flags,
                      rows: [Recs -> This.states \cup {Absent}],
                      data: [Recs -> This.states \cup {Absent}], open: Recs \cup {None},
                      active: Recs \cup {None}]
  /\ presses \in 0 .. MaxPresses[page] /\ {missed, crossed} \subseteq BOOLEAN

-----------------------------------------------------------------------------
(* What the theorems ask of a site                                         *)

\* The states named are states of the page's records.
Typed(p) ==
  LET shown == p.states \cup {Absent}
  IN /\ p.recs \subseteq Recs /\ p.begin \subseteq shown /\ p.demo \in [Recs -> shown]
     /\ \A h \in DOMAIN p.handlers : p.handlers[h].to \in shown
     /\ IsFiniteSet(DOMAIN p.handlers)
AllTyped == \A p \in DOMAIN Site : Typed(Site[p])

Entries(p, q) == {m \in UNION {p.panels[o].moves : o \in DOMAIN p.panels} : m.to = q}
Started(p) == UNION {m.starts : m \in UNION {p.panels[o].moves : o \in DOMAIN p.panels}}
Called(p) == p.mount \cup p.polls \cup UNION {p.handlers[h].then : h \in DOMAIN p.handlers}
Fillers(p, s) == {h \in DOMAIN p.handlers : p.handlers[h].slot = s}

\* Every way into panel q empties slot s, or fetches it again behind a spinner and out of q
\* when that fails.
Emptied(p, q, s) == \A m \in Entries(p, q) : s \in m.empties
Fetched(p, q, s) ==
  /\ \A m \in Entries(p, q) :
       \E h \in m.starts \cap Fillers(p, s) : p.handlers[h].flag \in p.panels[q].hidden
  /\ \A h \in Fillers(p, s) : q \in p.handlers[h].leaves

\* A slot is filled for the open record, under a flag of its own, or not at all.
FillsOpen(p, h) ==
  LET d == p.handlers[h]
  IN /\ d.kind = "fetch" /\ d.on = "open" /\ d.refused = "error" /\ d.lost = "error"
     /\ d.then = {} /\ h \notin Called(p)
     /\ d.flag \notin Recs \cup p.shared \cup {"record", None}
     /\ \A g \in DOMAIN p.handlers : p.handlers[g].flag = d.flag => p.handlers[g].slot = d.slot

\* A handler that changes the copy shown is called with a record, by a button.
MarksItsOwn(p, h) ==
  /\ p.handlers[h].kind # "load" /\ p.handlers[h].on \in {"row", "open"} \cup Recs
  /\ h \notin Called(p) \cup Started(p)

Careful(p) ==
  /\ \A q \in DOMAIN p.panels :
       /\ p.panels[q].shows \subseteq p.slots \ {None}
       /\ \A s \in p.panels[q].shows : Emptied(p, q, s) \/ Fetched(p, q, s)
  /\ \A h \in DOMAIN p.handlers :
       /\ p.handlers[h].slot # None => FillsOpen(p, h)
       /\ p.handlers[h].marks => MarksItsOwn(p, h)
       /\ \/ p.handlers[h].shuts \cup p.handlers[h].own \cup p.handlers[h].leaves = {}
          \/ p.panels[p.handlers[h].goto].shows = {}
AllCareful == \A p \in DOMAIN Site \ Mixing : Careful(Site[p])

\* The list is fetched when the page is mounted and again after every change; nothing else
\* touches the rows.
Loads(p) == {h \in DOMAIN p.handlers : p.handlers[h].kind = "load"}
Lists(p) == p.cached \/ Loads(p) # {}
Reloads(p) ==
  /\ p.mount \cap Loads(p) # {}
  /\ \A h \in DOMAIN p.handlers :
       LET d == p.handlers[h]
       IN /\ d.kind = "load" \/ {d.refused, d.lost} \subseteq {"error", "none"}
          /\ \/ d.kind = "load" /\ d.patch = "answer"
             \/ d.kind # "load" /\ d.then \cap Loads(p) # {}
             \/ d.kind \notin {"load", "post"} /\ d.patch = "none"
AllReload == \A p \in DOMAIN Site \ Drifting : Lists(Site[p]) => Reloads(Site[p])

\* A flag guards a page's buttons if it is a state variable of its own and disables every
\* button and link that starts a handler with that flag, which nothing else starts.
Guards(p, f) ==
  /\ f \notin p.shared \cup Recs \cup {None, "record"}
  /\ \A h \in DOMAIN p.handlers : p.handlers[h].flag = f =>
       /\ h \notin Called(p)
       /\ \A q \in DOMAIN p.panels :
            /\ \A b \in p.panels[q].buttons : b.do = h => f \in b.off
            /\ \A m \in p.panels[q].moves : h \in m.starts => f \in m.off

\* A flag is handed on to one handler, and a click starts one handler of a flag.
Orderly(p) ==
  /\ \A h \in DOMAIN p.handlers :
       p.handlers[h].awaits => \A g, i \in p.handlers[h].then : g = i
  /\ \A q \in DOMAIN p.panels : \A m \in p.panels[q].moves : \A g, i \in m.starts :
       g = i \/ p.handlers[g].flag # p.handlers[i].flag \/ ~Guards(p, p.handlers[g].flag)
AllOrderly == \A p \in DOMAIN Site : Orderly(Site[p])

\* Every handler releases its flag, also after a failure: the finally blocks.
AllSettle == \A p \in DOMAIN Site : \A h \in DOMAIN Site[p].handlers : Site[p].handlers[h].settles

\* A spinner or a disabled button belongs to a request in flight whose end releases it, in
\* every order of answers and failures.
NoStuckFlag == \A f \in view.busy : \E k \in calls : f \in FlagsHeld(k)

\* A payment, a review, a deletion is not sent twice: while a request is in flight whose flag
\* guards its buttons, nothing clears that flag, neither the end of another request nor the
\* list that is fetched meanwhile.
SentOnce ==
  \A k, l \in calls :
    Handler(k.do).flag = Handler(l.do).flag /\ Guards(This, Handler(k.do).flag) => k = l

\* When nothing is in flight, and since the last list was served no change was made
\* elsewhere or lost and no answers crossed, the rows shown are the server's records: no
\* handler leaves the list as it was before its own change (fetchData and the handlers of
\* app/dashboard and app/admin).
QuietList == (page \notin Drifting /\ Lists(This) /\ calls = {} /\ ~missed) => view.rows = docs

\* A drawer or dialog shows details of the record it was opened for, unless another was opened
\* while an answer was on its way (openAssetDrawer, openReview, viewScreenshot).
Details ==
  page \notin Mixing /\ ~crossed =>
    \A s \in PanelNow.shows :
      PanelNow.hidden \cap view.busy = {} => view.slots[s] \in {view.open, None}
=============================================================================
