----------------------------- MODULE PageLanguage -----------------------------
(***************************************************************************)
(* The vocabulary in which the pages of app/dashboard and app/admin are    *)
(* described.  A page holds a list of records loaded from the server,      *)
(* panels (tabs, dialogs, drawers) with buttons and links, and handlers,   *)
(* the async functions behind them.  Console.tla says how they run.        *)
(***************************************************************************)
EXTENDS Naturals, FiniteSets, TLC

Recs == {"a", "b"}        \* records of a page's list
None == "none"
Absent == "absent"        \* a record that does not exist, a row that is not shown

\* A handler.
\*   kind    "load" fetches the list, "fetch" details of one record, "post" changes one
\*           record, "ask" sends a request that changes none, "timer" waits for a timeout
\*           and sends nothing, "local" changes the rows at once and sends nothing
\*   on      the record it is about: "row" the button's, "open" the one the panel was
\*           opened for, "new" one that does not exist yet, a record by name, or None
\*   flag    the busy flag it sets first and clears in its finally block; "record": it is
\*           set to the record's id
\*   from,to the server accepts a record in one of the states from and takes it to to; it
\*           accepts one in a state of keeps and leaves it alone
\*   slot    where fetched details go
\*   patch   the rows after success: "none" unchanged, "answer" those of the answer,
\*           "unlessEmpty" the same when there are any, "current" this record changed in the
\*           rows then shown, "captured" in the rows shown when the handler began, "before"
\*           those rows as they were
\*   refused, lost: the rows after an answer that is not ok, after none at all, when the
\*           handler shows that as a success (rows in a state of spares stay as they are);
\*           "error" when it ends in an error toast
\*   marks   whether the copy of the record in slot "copy", which a panel shows, is changed
\*   then    handlers it calls after success, for the same record; awaits: before it ends
\*   shuts   the panels it leaves for goto after success; own: the panels it leaves if slot
\*           "active" held its record when it began; leaves: the panels it leaves after an error
\*   settles whether a failure clears the flag
Post == [kind |-> "post", on |-> "open", flag |-> None, from |-> {}, to |-> Absent, keeps |-> {},
         slot |-> None, patch |-> "none", refused |-> "error", lost |-> "error", spares |-> {},
         marks |-> FALSE,
         then |-> {}, awaits |-> FALSE, shuts |-> {}, own |-> {}, goto |-> "main",
         leaves |-> {}, settles |-> TRUE]
Load == [Post EXCEPT !.kind = "load", !.on = None, !.patch = "answer"]
Fetch(s) == [Post EXCEPT !.kind = "fetch", !.slot = s]
Ask == [Post EXCEPT !.kind = "ask", !.on = None]
Timer == [Post EXCEPT !.kind = "timer", !.on = None]
Local == [Post EXCEPT !.kind = "local", !.patch = "current"]

\* A button: the handler, the flags that disable it, the states of the record it is shown for.
Button(h, off, when) == [do |-> h, off |-> off, when |-> when]
Always(h) == Button(h, {}, {})
Unless(h, off) == Button(h, {off}, {})

\* Any other click: the panel it leads to, whether it is a row's (which is then the open
\* record), the states of the row it is shown for, the slots it empties and those that get
\* the record, the handlers it calls, the flags that disable it.
Move(p) == [to |-> p, picks |-> FALSE, when |-> {}, empties |-> {}, fills |-> {}, starts |-> {},
            off |-> {}]
Open(p, when) == [Move(p) EXCEPT !.picks = TRUE, !.when = when]

\* A part of a panel: what it offers; the slots it shows and the flags under which a spinner
\* stands in their place.  A filter is a button: an effect fetches the list again.
Part == [buttons |-> {}, moves |-> {}, shows |-> {}, hidden |-> {}]
Offers(bs) == [Part EXCEPT !.buttons = bs]
Leads(ms) == [Part EXCEPT !.moves = ms]

\* The parts a panel is made of; a part that is not rendered while a flag is up.
Join(ps) ==
  [buttons |-> UNION {p.buttons : p \in ps}, moves |-> UNION {p.moves : p \in ps},
   shows |-> UNION {p.shows : p \in ps}, hidden |-> UNION {p.hidden : p \in ps}]
Behind(flag, p) ==
  [p EXCEPT !.buttons = {[b EXCEPT !.off = @ \cup {flag}] : b \in p.buttons},
            !.moves = {[m EXCEPT !.off = @ \cup {flag}] : m \in p.moves}]
AllBehind(flag, panels) == [p \in DOMAIN panels |-> Behind(flag, panels[p])]

\* A page: its records, the states they may have and begin in, the rows shown before any
\* answer, and whether these come from the user cached in cookies; its first panel; the
\* handlers called when it is mounted and by an interval; the busy flags that share one
\* state variable; the changes others (the other party, the server's jobs) make; what it
\* remembers details in.
Shown(s) == [r \in Recs |-> s]
Page == [recs |-> Recs, states |-> {}, begin |-> {Absent}, demo |-> Shown(Absent), cached |-> FALSE,
         first |-> "main", mount |-> {}, polls |-> {}, shared |-> {}, others |-> {},
         slots |-> {}, panels |-> <<>>, handlers |-> <<>>]
=============================================================================
