---------------------------- MODULE Console_proofs ----------------------------
(***************************************************************************)
(* Five theorems about every site: its pages, handlers and panels, any     *)
(* number of calls in flight and presses.  What each theorem asks of the   *)
(* site is a hypothesis (AllSettle, AllTyped, AllOrderly, AllCareful,      *)
(* AllReload) that the assumption SiteIsSound of MCConsole states of the   *)
(* pages described; TLC evaluates it.                                      *)
(*                                                                         *)
(* NeverStuck: a flag is up while a call in flight holds it.  A call that  *)
(* begins puts up the flag it holds; one that ends takes its flags down,   *)
(* whoever else put them up, or hands them to the calls it awaits.         *)
(*                                                                         *)
(* TypeCorrect, SentAlwaysOnce, DetailsMatch and ListsQuiet have sections  *)
(* of their own.                                                           *)
(***************************************************************************)
EXTENDS Console, FiniteSetTheorems, TLAPS

PageOpen ==
  /\ page \in DOMAIN Site
  /\ {"busy", "panel"} \subseteq DOMAIN view /\ view.panel \in DOMAIN This.panels

CallsKnown ==
  \A k \in calls : {"do", "rec", "holds"} \subseteq DOMAIN k /\ k.do \in DOMAIN This.handlers

IInv == PageOpen /\ CallsKnown /\ NoStuckFlag

\* The description of the page shown is consistent.
LEMMA ThisSound == page \in DOMAIN Site => Closed(This) /\ RecordFlagged(This)
BY SiteAssumption DEF This

-----------------------------------------------------------------------------
(* Calls that begin                                                        *)

\* A new call is of one of the handlers that begin and holds the flag put up for it.
LEMMA CallsOfKnown ==
  ASSUME NEW cs, NEW hs, NEW r, NEW v
  PROVE  \A k \in CallsOf(cs, hs, r, v) :
           {"do", "rec", "holds"} \subseteq DOMAIN k /\ k.do \in hs
BY DEF CallsOf, NewCall

LEMMA FlagsAreHeld ==
  ASSUME NEW cs, NEW hs, NEW r, NEW v,
         RecordFlagged(This), hs \subseteq DOMAIN This.handlers
  PROVE  \A f \in FlagsOf(hs, r) : \E k \in CallsOf(cs, hs, r, v) : f \in FlagsHeld(k)
<1> SUFFICES ASSUME NEW h \in hs, FlagFor(Handler(h).flag, r) # None
             PROVE  \E k \in CallsOf(cs, hs, r, v) : FlagFor(Handler(h).flag, r) \in FlagsHeld(k)
  BY DEF FlagsOf
<1> DEFINE s == IF Handler(h).kind = "load" THEN None ELSE r
           k == NewCall(cs, h, s, v)
<1>1. k \in CallsOf(cs, hs, r, v)
  BY DEF CallsOf
<1>2. k.do = h /\ k.rec = s
  BY DEF NewCall
<1>3. FlagFor(Handler(h).flag, s) = FlagFor(Handler(h).flag, r)
  BY DEF RecordFlagged, FlagFor, Handler
<1>4. FlagFor(Handler(h).flag, r) \in FlagsHeld(k)
  <2> HIDE DEF k, s
  <2> QED BY <1>2, <1>3 DEF FlagsHeld, FlagsOf
<1> QED BY <1>1, <1>4

\* Flags that are up were up before or were put up for the handlers that begin.
LEMMA FlagsComeFrom ==
  ASSUME NEW busy, NEW hs, NEW r, NEW f \in WithFlags(busy, hs, r)
  PROVE  f \in busy \/ f \in FlagsOf(hs, r)
BY DEF WithFlags, Raised

\* What a success writes into the page leaves its flags alone and shows a panel of its own.
LEMMA PageKept ==
  ASSUME NEW h, NEW k, NEW v, NEW how, "panel" \in DOMAIN v, "busy" \in DOMAIN v
  PROVE  /\ Patched(h, k, v, how).busy = v.busy /\ Patched(h, k, v, how).panel = v.panel
         /\ DOMAIN Patched(h, k, v, how) = DOMAIN v
         /\ Filled(h, k, v).busy = v.busy /\ Filled(h, k, v).panel = v.panel
         /\ DOMAIN Filled(h, k, v) = DOMAIN v
BY DEF Patched, Rewritten, Filled

LEMMA ShutKept ==
  ASSUME NEW d \in DOMAIN This.handlers, NEW h, h = Handler(d), NEW k, NEW v,
         "panel" \in DOMAIN v, "busy" \in DOMAIN v,
         Closed(This), v.panel \in DOMAIN This.panels
  PROVE  /\ Shut(h, k, v).busy = v.busy /\ Shut(h, k, v).panel \in DOMAIN This.panels
         /\ DOMAIN Shut(h, k, v) = DOMAIN v
BY DEF Shut, Closed, Handler

-----------------------------------------------------------------------------
(* Steps                                                                   *)

\* Initially the flags up are those of the handlers called on mount.
LEMMA InitHolds == Init => IInv
<1> SUFFICES ASSUME Init PROVE IInv
  OBVIOUS
<1>1. page \in DOMAIN Site /\ Closed(This) /\ RecordFlagged(This)
  BY ThisSound DEF Init
<1>2. view.busy = WithFlags({}, This.mount, None) /\ PageOpen
  BY <1>1 DEF Init, StartBusy, Start, PageOpen, Closed, This
<1>3. /\ calls = CallsOf({}, This.mount, None, Start(This))
      /\ This.mount \subseteq DOMAIN This.handlers
  BY <1>1 DEF Init, Closed
<1>4. CallsKnown
  BY <1>3, CallsOfKnown DEF CallsKnown
<1>5. NoStuckFlag
  BY <1>1, <1>2, <1>3, FlagsAreHeld, FlagsComeFrom DEF NoStuckFlag
<1> QED BY <1>2, <1>4, <1>5 DEF IInv

\* Handlers that begin in the page as it is, or as a click or a local handler leaves it.
LEMMA BeginKeeps ==
  ASSUME IInv, page' = page, NEW hs, NEW r, NEW v, Begin(hs, r, v),
         hs \subseteq DOMAIN This.handlers, v.busy = view.busy,
         {"busy", "panel"} \subseteq DOMAIN v, v.panel \in DOMAIN This.panels
  PROVE  IInv'
<1>1. Closed(This) /\ RecordFlagged(This) /\ This' = This
  BY ThisSound DEF IInv, PageOpen, This
<1>2. /\ calls' = calls \cup CallsOf(calls, hs, r, v)
      /\ view' = [v EXCEPT !.busy = WithFlags(@, hs, r)]
  BY DEF Begin
<1>3. PageOpen'
  BY <1>1, <1>2 DEF PageOpen, IInv
<1>4. CallsKnown'
  BY <1>1, <1>2, CallsOfKnown DEF CallsKnown, IInv
<1>5. \A k : FlagsHeld(k)' = FlagsHeld(k)
  BY <1>1 DEF FlagsHeld, FlagsOf, FlagFor, Handler
<1>6. view'.busy = WithFlags(view.busy, hs, r)
  BY <1>2
<1>7. ASSUME NEW f \in view'.busy PROVE \E k \in calls' : f \in FlagsHeld(k)
  <2>1. CASE f \in view.busy
    BY <2>1, <1>2 DEF IInv, NoStuckFlag
  <2>2. CASE f \in FlagsOf(hs, r)
    BY <2>2, <1>1, <1>2, FlagsAreHeld
  <2> QED BY <2>1, <2>2, <1>6, FlagsComeFrom
<1> QED BY <1>3, <1>4, <1>5, <1>7 DEF IInv, NoStuckFlag

LEMMA PressKeeps ==
  ASSUME IInv, NEW b \in PanelNow.buttons, NEW r, Press(Handler(b.do), b, r)
  PROVE  IInv'
<1> DEFINE h == Handler(b.do)
<1>1. page' = page /\ Closed(This)
  BY ThisSound DEF Press, IInv, PageOpen
<1>2. b.do \in DOMAIN This.handlers /\ h.then \subseteq DOMAIN This.handlers
  BY <1>1 DEF IInv, PageOpen, PanelNow, Closed, Handler
<1>3. {"busy", "panel"} \subseteq DOMAIN view /\ view.panel \in DOMAIN This.panels
  BY DEF IInv, PageOpen
<1>4. CASE h.kind = "local"
  <2> DEFINE k == NewCall(calls, b.do, r, view)
             u == Patched(h, k, view, h.patch)
  <2>1. Begin(h.then, r, Shut(h, k, u))
    BY <1>4 DEF Press, BeginLocal
  <2> HIDE DEF k
  <2>2. u.busy = view.busy /\ u.panel = view.panel /\ DOMAIN u = DOMAIN view
    BY <1>3, PageKept
  <2> HIDE DEF u
  <2>3. /\ Shut(h, k, u).busy = view.busy /\ Shut(h, k, u).panel \in DOMAIN This.panels
        /\ DOMAIN Shut(h, k, u) = DOMAIN view
    BY <1>1, <1>2, <1>3, <2>2, ShutKept
  <2> QED BY <1>1, <1>2, <1>3, <2>1, <2>3, BeginKeeps
<1>5. CASE h.kind # "local"
  BY <1>1, <1>2, <1>3, <1>5, BeginKeeps DEF Press
<1> QED BY <1>4, <1>5

LEMMA ClickKeeps ==
  ASSUME IInv, NEW m \in PanelNow.moves, NEW r, Click(m, r)
  PROVE  IInv'
<1>1. page' = page /\ Closed(This)
  BY ThisSound DEF Click, IInv, PageOpen
<1>2. m.starts \subseteq DOMAIN This.handlers /\ m.to \in DOMAIN This.panels
  BY <1>1 DEF IInv, PageOpen, PanelNow, Closed
<1> DEFINE v == Clicked(m, r)
<1>3. Begin(m.starts, r, v)
  BY DEF Click
<1>4. {"busy", "panel"} \subseteq DOMAIN v /\ v.busy = view.busy /\ v.panel = m.to
  BY DEF Clicked, IInv, PageOpen
<1> HIDE DEF v
<1> QED BY <1>1, <1>2, <1>3, <1>4, BeginKeeps

LEMMA PollKeeps ==
  ASSUME IInv, NEW h \in This.polls, Poll(h)
  PROVE  IInv'
<1>1. page' = page /\ {h} \subseteq DOMAIN This.handlers /\ Begin({h}, None, view)
  BY ThisSound DEF Poll, IInv, PageOpen, Closed
<1>2. {"busy", "panel"} \subseteq DOMAIN view /\ view.panel \in DOMAIN This.panels
  BY DEF IInv, PageOpen
<1> QED BY <1>1, <1>2, BeginKeeps

LEMMA ReloadKeeps == ASSUME IInv, Reload PROVE IInv'
<1>1. page' = page /\ This' = This /\ Closed(This) /\ RecordFlagged(This)
  BY ThisSound DEF Reload, IInv, PageOpen, This
<1>2. /\ view'.busy = WithFlags({}, This.mount, None) /\ view'.panel = This.first
      /\ {"busy", "panel"} \subseteq DOMAIN view'
  BY DEF Reload, StartBusy, Start, This
<1>3. /\ calls' = CallsOf({}, This.mount, None, Start(This))
      /\ This.mount \subseteq DOMAIN This.handlers
  BY <1>1 DEF Reload, Closed
<1>4. CallsKnown'
  BY <1>1, <1>3, CallsOfKnown DEF CallsKnown
<1>5. \A k : FlagsHeld(k)' = FlagsHeld(k)
  BY <1>1 DEF FlagsHeld, FlagsOf, FlagFor, Handler
<1>6. NoStuckFlag'
  BY <1>1, <1>2, <1>3, <1>5, FlagsAreHeld, FlagsComeFrom DEF NoStuckFlag
<1>7. PageOpen'
  BY <1>1, <1>2 DEF PageOpen, IInv, Closed
<1> QED BY <1>4, <1>6, <1>7 DEF IInv

\* A call is replaced by one that holds the same flags.
LEMMA BecomeKeeps ==
  ASSUME IInv, page' = page, view' = view, NEW k \in calls, NEW l, Become(k, l),
         {"do", "rec", "holds"} \subseteq DOMAIN l, l.do = k.do, FlagsHeld(l) = FlagsHeld(k)
  PROVE  IInv'
<1>1. This' = This /\ calls' = (calls \ {k}) \cup {l}
  BY DEF This, Become
<1>2. \A c : FlagsHeld(c)' = FlagsHeld(c)
  BY <1>1 DEF FlagsHeld, FlagsOf, FlagFor, Handler
<1>3. NoStuckFlag'
  BY <1>1, <1>2 DEF NoStuckFlag, IInv
<1> QED BY <1>1, <1>3 DEF IInv, PageOpen, CallsKnown

\* An answer changes the record of a call only where its flag does not name it.
LEMMA ServeKeeps ==
  ASSUME IInv, NEW k \in calls, Serve(Handler(k.do), k)
  PROVE  IInv'
<1>1. page' = page /\ view' = view /\ RecordFlagged(This)
  BY ThisSound DEF Serve, IInv, PageOpen
<1>2. {"do", "rec", "holds"} \subseteq DOMAIN k /\ k.do \in DOMAIN This.handlers
  BY DEF IInv, CallsKnown
<1> DEFINE l(d) == [k EXCEPT !.phase = "ok", !.data = d]
<1>3. \A d : /\ {"do", "rec", "holds"} \subseteq DOMAIN l(d) /\ l(d).do = k.do
             /\ FlagsHeld(l(d)) = FlagsHeld(k)
  BY <1>2 DEF FlagsHeld
<1>4. CASE ServeLoad(Handler(k.do), k)
  <2>1. Become(k, l(docs))
    BY <1>4 DEF ServeLoad
  <2> HIDE DEF l
  <2> QED BY <1>1, <1>3, <2>1, BecomeKeeps
<1>5. CASE ServeFetch(Handler(k.do), k) \/ ServeAsk(Handler(k.do), k)
  <2> DEFINE n == [k EXCEPT !.phase = "ok"]
  <2>1. Become(k, n)
    BY <1>5 DEF ServeFetch, ServeAsk
  <2>2. {"do", "rec", "holds"} \subseteq DOMAIN n /\ n.do = k.do /\ FlagsHeld(n) = FlagsHeld(k)
    BY <1>2 DEF FlagsHeld
  <2> HIDE DEF n
  <2> QED BY <1>1, <2>1, <2>2, BecomeKeeps
<1>6. ASSUME NEW r, ServePost(Handler(k.do), k, r) PROVE IInv'
  <2> DEFINE n == [k EXCEPT !.rec = r, !.phase = "ok",
                            !.data = IF Handler(k.do).patch = "answer" THEN docs' ELSE NoRows]
  <2>1. Become(k, n)
    BY <1>6 DEF ServePost
  <2>2. {"do", "rec", "holds"} \subseteq DOMAIN n /\ n.do = k.do /\ n.rec = r /\ n.holds = k.holds
    BY <1>2
  <2>3. FlagFor(Handler(k.do).flag, r) = FlagFor(Handler(k.do).flag, k.rec)
    BY <1>1, <1>2, <1>6 DEF ServePost, RecordFlagged, FlagFor, Handler
  <2> HIDE DEF n
  <2>4. FlagsHeld(n) = FlagsHeld(k)
    BY <2>2, <2>3 DEF FlagsHeld, FlagsOf
  <2> QED BY <1>1, <2>1, <2>2, <2>4, BecomeKeeps
<1> QED BY <1>4, <1>5, <1>6 DEF Serve

\* A call ends and takes its flags down, also where others hold them.
LEMMA EndKeeps ==
  ASSUME IInv, page' = page, NEW k \in calls, calls' = calls \ {k}, NEW v,
         view' = Settle(v, FlagsHeld(k)), v.busy = view.busy,
         {"busy", "panel"} \subseteq DOMAIN v, v.panel \in DOMAIN This.panels
  PROVE  IInv'
<1>1. This' = This /\ view'.busy = view.busy \ (FlagsHeld(k) \cup SharedWith(FlagsHeld(k)))
  BY DEF This, Settle
<1>2. \A c : FlagsHeld(c)' = FlagsHeld(c)
  BY <1>1 DEF FlagsHeld, FlagsOf, FlagFor, Handler
<1>3. NoStuckFlag'
  BY <1>1, <1>2 DEF NoStuckFlag, IInv
<1>4. PageOpen'
  BY <1>1 DEF Settle, PageOpen, IInv
<1> QED BY <1>1, <1>3, <1>4 DEF IInv, CallsKnown

LEMMA FailKeeps ==
  ASSUME IInv, AllSettle, NEW k \in calls, NEW how, Fail(Handler(k.do), k, how)
  PROVE  IInv'
<1> DEFINE h == Handler(k.do)
<1>1. page' = page /\ calls' = calls \ {k} /\ Closed(This)
  BY ThisSound DEF Fail, IInv, PageOpen
<1>2. k.do \in DOMAIN This.handlers /\ h.settles
  BY DEF IInv, CallsKnown, PageOpen, AllSettle, This, Handler
<1>3. {"busy", "panel"} \subseteq DOMAIN view /\ view.panel \in DOMAIN This.panels
  BY DEF IInv, PageOpen
<1>4. CASE Gives(h, k)
  <2>1. view' = Settle(Left(h), FlagsHeld(k))
    BY <1>2, <1>4 DEF Gives
  <2>2. /\ Left(h).busy = view.busy /\ DOMAIN Left(h) = DOMAIN view
        /\ Left(h).panel \in DOMAIN This.panels
    BY <1>1, <1>2, <1>3 DEF Closed, Handler, Left
  <2> QED BY <1>1, <1>3, <2>1, <2>2, EndKeeps
<1>5. CASE Pretends(h, k, how)
  <2> DEFINE u == Patched(h, k, view, IF Spared(h, k, view) THEN "none" ELSE h[how])
  <2>1. view' = Settle(Shut(h, k, u), FlagsHeld(k))
    BY <1>5 DEF Pretends
  <2>2. u.busy = view.busy /\ u.panel = view.panel /\ DOMAIN u = DOMAIN view
    BY <1>3, PageKept
  <2> HIDE DEF u
  <2>3. /\ Shut(h, k, u).busy = view.busy /\ Shut(h, k, u).panel \in DOMAIN This.panels
        /\ DOMAIN Shut(h, k, u) = DOMAIN view
    BY <1>1, <1>2, <1>3, <2>2, ShutKept
  <2> QED BY <1>1, <1>3, <2>1, <2>3, EndKeeps
<1> QED BY <1>4, <1>5 DEF Fail

\* A success hands its flags to the calls it awaits, or takes them down.
LEMMA ArriveKeeps ==
  ASSUME IInv, NEW k \in calls, Arrive(Handler(k.do), k)
  PROVE  IInv'
<1> DEFINE h == Handler(k.do)
           waits == Waits(h)
           p == Patched(h, k, view, h.patch)
           done == Shut(h, k, Filled(h, k, p))
           settled == IF waits THEN done ELSE Settle(done, FlagsHeld(k))
           new == CallsOf(calls, h.then, k.rec, settled)
           given(l) == [l EXCEPT !.holds = IF waits THEN FlagsHeld(k) ELSE {}]
           called == {given(l) : l \in new}
<1>1. page' = page /\ This' = This /\ Closed(This) /\ RecordFlagged(This)
  BY ThisSound DEF Arrive, IInv, PageOpen, This
<1>2. k.do \in DOMAIN This.handlers /\ h.then \subseteq DOMAIN This.handlers
  BY <1>1 DEF IInv, CallsKnown, Closed, Handler
<1>3. /\ view' = [settled EXCEPT !.busy = WithFlags(@, h.then, k.rec)]
      /\ calls' = (calls \ {k}) \cup called
  BY DEF Arrive, Succeeds, Done, GoesOn, CallsNext
<1>4. {"busy", "panel"} \subseteq DOMAIN view /\ view.panel \in DOMAIN This.panels
  BY DEF IInv, PageOpen
<1>5. p.busy = view.busy /\ p.panel = view.panel /\ DOMAIN p = DOMAIN view
  BY <1>4, PageKept
<1>6. /\ done.busy = view.busy /\ done.panel \in DOMAIN This.panels
      /\ DOMAIN done = DOMAIN view
  <2> DEFINE q == Filled(h, k, p)
  <2> HIDE DEF p
  <2>1. q.busy = view.busy /\ q.panel = view.panel /\ DOMAIN q = DOMAIN view
    BY <1>4, <1>5, PageKept
  <2> HIDE DEF q
  <2>2. Shut(h, k, q).busy = view.busy /\ Shut(h, k, q).panel \in DOMAIN This.panels
        /\ DOMAIN Shut(h, k, q) = DOMAIN view
    BY <1>1, <1>2, <1>4, <2>1, ShutKept
  <2> QED BY <2>2 DEF q
<1> HIDE DEF done
<1>7. /\ DOMAIN settled = DOMAIN view /\ settled.panel \in DOMAIN This.panels
      /\ settled.busy = IF waits THEN view.busy
                        ELSE view.busy \ (FlagsHeld(k) \cup SharedWith(FlagsHeld(k)))
  BY <1>4, <1>6 DEF Settle
<1> HIDE DEF settled
<1>8. /\ view'.busy = WithFlags(settled.busy, h.then, k.rec)
      /\ DOMAIN view' = DOMAIN view /\ view'.panel = settled.panel
  BY <1>3, <1>4, <1>7
<1>9. \A l \in new : {"do", "rec", "holds"} \subseteq DOMAIN l /\ l.do \in h.then
  BY CallsOfKnown
<1>10. \A l \in new : FlagsOf({l.do}, l.rec) \subseteq FlagsHeld(given(l))
  BY <1>9 DEF FlagsHeld
<1>11. \A l \in new : waits => FlagsHeld(k) \subseteq FlagsHeld(given(l))
  BY <1>9 DEF FlagsHeld
<1>12. waits => new # {}
  BY DEF CallsOf, Waits
<1>13. \A l \in new : l.holds = {}
  BY DEF CallsOf, NewCall
<1>14. \A f \in FlagsOf(h.then, k.rec) : \E l \in new : f \in FlagsOf({l.do}, l.rec)
  <2>1. \A f \in FlagsOf(h.then, k.rec) : \E l \in new : f \in FlagsHeld(l)
    BY <1>1, <1>2, FlagsAreHeld
  <2> HIDE DEF new
  <2> QED BY <1>13, <2>1 DEF FlagsHeld
<1>15. \A c : FlagsHeld(c)' = FlagsHeld(c)
  BY <1>1 DEF FlagsHeld, FlagsOf, FlagFor, Handler
<1>16. \A c \in called : {"do", "rec", "holds"} \subseteq DOMAIN c /\ c.do \in h.then
  <2> HIDE DEF new
  <2> QED BY <1>9
<1> HIDE DEF new, given
<1>17. ASSUME NEW f \in view'.busy PROVE \E c \in calls' : f \in FlagsHeld(c)
  <2>1. CASE f \in FlagsOf(h.then, k.rec)
    BY <2>1, <1>3, <1>10, <1>14
  <2>2. CASE f \in settled.busy
    <3>1. PICK c \in calls : f \in FlagsHeld(c)
      BY <2>2, <1>7 DEF IInv, NoStuckFlag
    <3>2. CASE c # k
      BY <3>1, <3>2, <1>3
    <3>3. CASE c = k
      <4>1. waits
        BY <2>2, <3>1, <3>3, <1>7
      <4> QED BY <3>1, <3>3, <4>1, <1>3, <1>11, <1>12
    <3> QED BY <3>2, <3>3
  <2> QED BY <2>1, <2>2, <1>8, FlagsComeFrom
<1>18. CallsKnown'
  BY <1>1, <1>2, <1>3, <1>16 DEF CallsKnown, IInv
<1>19. PageOpen'
  BY <1>1, <1>4, <1>7, <1>8 DEF PageOpen, IInv
<1> QED BY <1>15, <1>17, <1>18, <1>19 DEF IInv, NoStuckFlag

LEMMA UnseenKeeps ==
  ASSUME IInv, page' = page, view' = view, calls' = calls
  PROVE  IInv'
<1>1. This' = This
  BY DEF This
<1>2. \A c : FlagsHeld(c)' = FlagsHeld(c)
  BY <1>1 DEF FlagsHeld, FlagsOf, FlagFor, Handler
<1> QED BY <1>1, <1>2 DEF IInv, PageOpen, CallsKnown, NoStuckFlag

-----------------------------------------------------------------------------

LEMMA StepKeeps == AllSettle /\ IInv /\ [Next]_vars => IInv'
<1> SUFFICES ASSUME AllSettle, IInv, [Next]_vars PROVE IInv'
  OBVIOUS
<1>1. CASE UserStep
  BY <1>1, PressKeeps, ClickKeeps, PollKeeps, ReloadKeeps DEF UserStep
<1>2. ASSUME NEW k \in calls, CallStep(Handler(k.do), k)
      PROVE  IInv'
  BY <1>2, ServeKeeps, ArriveKeeps, FailKeeps DEF CallStep
<1>3. ASSUME NEW r, NEW s, Elsewhere(r, s) PROVE IInv'
  BY <1>3, UnseenKeeps DEF Elsewhere
<1>4. CASE UNCHANGED vars
  BY <1>4, UnseenKeeps DEF vars
<1> QED BY <1>1, <1>2, <1>3, <1>4 DEF Next

\* A spinner or a disabled button belongs to a request in flight whose end releases it, on
\* every page whose handlers release their flags after success and failure alike.
THEOREM NeverStuck == AllSettle => (Spec => []NoStuckFlag)
<1> SUFFICES ASSUME AllSettle PROVE Spec => []NoStuckFlag
  OBVIOUS
<1>1. Init => IInv
  BY InitHolds
<1>2. IInv /\ [Next]_vars => IInv'
  BY StepKeeps
<1>3. IInv => NoStuckFlag
  BY DEF IInv
<1> QED BY <1>1, <1>2, <1>3, PTL DEF Spec
-----------------------------------------------------------------------------
(* Types                                                                   *)

Rows == [Recs -> This.states \cup {Absent}]
Views == [panel: DOMAIN This.panels, rows: Rows, open: Recs \cup {None},
          seen: This.states \cup {Absent}, slots: [This.slots -> Recs \cup {None}],
          busy: SUBSET Flags]
CallRecords == [do: DOMAIN This.handlers, nth: Nat \ {0}, rec: Recs \cup {None},
                phase: {"sent", "ok"}, holds: SUBSET Flags, rows: Rows, data: Rows,
                open: Recs \cup {None}, active: Recs \cup {None}]

\* FreeNumber finds a number because the calls in flight are finitely many.
TInv == TypeOK /\ IsFiniteSet(calls)

LEMMA TInvParts ==
  TInv <=> /\ page \in DOMAIN Site /\ docs \in Rows /\ view \in Views
           /\ calls \subseteq CallRecords /\ IsFiniteSet(calls)
           /\ presses \in 0 .. MaxPresses[page] /\ missed \in BOOLEAN /\ crossed \in BOOLEAN
BY DEF TInv, TypeOK, Rows, Views, CallRecords

LEMMA SamePage ==
  ASSUME page' = page
  PROVE  /\ This' = This /\ Rows' = Rows /\ Views' = Views /\ CallRecords' = CallRecords
         /\ Flags' = Flags
<1>1. This' = This
  BY DEF This
<1>2. Flags' = Flags
  BY <1>1 DEF Flags, FlagsOf, FlagFor, Handler
<1> QED BY <1>1, <1>2 DEF Rows, Views, CallRecords

LEMMA ThisTyped ==
  ASSUME AllTyped, page \in DOMAIN Site
  PROVE  Typed(This) /\ Closed(This) /\ RecordFlagged(This)
BY ThisSound DEF AllTyped, This

LEMMA FlagsTyped ==
  ASSUME NEW hs \in SUBSET DOMAIN This.handlers, NEW r \in Recs \cup {None}
  PROVE  FlagsOf(hs, r) \subseteq Flags
<1> SUFFICES ASSUME NEW h \in hs, FlagFor(Handler(h).flag, r) # None
             PROVE  FlagFor(Handler(h).flag, r) \in Flags
  BY DEF FlagsOf
<1>1. CASE Handler(h).flag = "record"
  BY <1>1 DEF FlagFor, Flags
<1>2. CASE Handler(h).flag # "record"
  <2>1. FlagFor(Handler(h).flag, r) = FlagFor(Handler(h).flag, "a")
    BY <1>2 DEF FlagFor
  <2> QED BY <2>1 DEF Flags, FlagsOf
<1> QED BY <1>1, <1>2

\* There are more numbers than runs.
LEMMA FreeNumberIsFree ==
  ASSUME NEW cs, IsFiniteSet(cs), NEW h
  PROVE  FreeNumber(cs, h) \in 1 .. Cardinality(cs) + 1 /\ FreeNumber(cs, h) \notin Runs(cs, h)
<1> DEFINE ks == {l \in cs : l.do = h}
           N == 1 .. Cardinality(cs) + 1
           nth == [k \in ks |-> k.nth]
<1>1. IsFiniteSet(ks) /\ Cardinality(ks) <= Cardinality(cs)
  BY FS_Subset
<1>2. nth \in Surjection(ks, Runs(cs, h))
  BY DEF Surjection, Runs
<1>3. IsFiniteSet(Runs(cs, h)) /\ Cardinality(Runs(cs, h)) <= Cardinality(ks)
  <2> HIDE DEF nth, ks
  <2> QED BY <1>1, <1>2, FS_Surjection
<1>4. Cardinality(cs) \in Nat /\ Cardinality(ks) \in Nat /\ Cardinality(Runs(cs, h)) \in Nat
  BY <1>1, <1>3, FS_CardinalityType
<1>5. Cardinality(N) = Cardinality(cs) + 1
  BY <1>4, FS_Interval
<1>6. ~(N \subseteq Runs(cs, h))
  <2> SUFFICES ASSUME N \subseteq Runs(cs, h) PROVE FALSE
    OBVIOUS
  <2>1. Cardinality(N) <= Cardinality(Runs(cs, h))
    BY <1>3, FS_Subset
  <2> QED BY <2>1, <1>1, <1>3, <1>4, <1>5
<1> QED BY <1>6 DEF FreeNumber

LEMMA NewCallTyped ==
  ASSUME page \in DOMAIN Site, NEW cs, IsFiniteSet(cs), NEW h \in DOMAIN This.handlers,
         NEW r \in Recs \cup {None}, NEW v \in Views
  PROVE  NewCall(cs, h, r, v) \in CallRecords
<1>1. FreeNumber(cs, h) \in Nat \ {0}
  BY FreeNumberIsFree, FS_CardinalityType
<1>2. NoRows \in Rows /\ v.rows \in Rows /\ v.open \in Recs \cup {None}
  BY DEF NoRows, Rows, Views
<1>3. Handler(h).own # {} => v.slots["active"] \in Recs \cup {None}
  <2>1. Handler(h).own # {} => "active" \in This.slots
    BY SiteAssumption DEF This, Closed, Handler
  <2> QED BY <2>1 DEF Views
<1> QED BY <1>1, <1>2, <1>3 DEF NewCall, CallRecords

LEMMA CallsOfTyped ==
  ASSUME AllTyped, page \in DOMAIN Site, NEW cs, IsFiniteSet(cs),
         NEW hs \in SUBSET DOMAIN This.handlers, NEW r \in Recs \cup {None}, NEW v \in Views
  PROVE  CallsOf(cs, hs, r, v) \subseteq CallRecords /\ IsFiniteSet(CallsOf(cs, hs, r, v))
<1>1. Typed(This)
  BY ThisTyped
<1> DEFINE call == [h \in hs |-> NewCall(cs, h, IF Handler(h).kind = "load" THEN None ELSE r, v)]
<1>2. \A h \in hs, s \in Recs \cup {None} : NewCall(cs, h, s, v) \in CallRecords
  BY NewCallTyped
<1>3. CallsOf(cs, hs, r, v) \subseteq CallRecords
  BY <1>2 DEF CallsOf
<1>4. IsFiniteSet(hs)
  BY <1>1, FS_Subset DEF Typed
<1>5. call \in Surjection(hs, CallsOf(cs, hs, r, v))
  BY DEF Surjection, CallsOf
<1>6. IsFiniteSet(CallsOf(cs, hs, r, v))
  <2> HIDE DEF call
  <2> QED BY <1>4, <1>5, FS_Surjection
<1> QED BY <1>3, <1>6

\* What a handler writes into the page is of the page's types.
LEMMA PatchedTyped ==
  ASSUME AllTyped, page \in DOMAIN Site, NEW d \in DOMAIN This.handlers, NEW h, h = Handler(d),
         NEW k \in CallRecords, NEW v \in Views, NEW how
  PROVE  Patched(h, k, v, how) \in Views
<1>1. h.to \in This.states \cup {Absent} /\ This.recs \subseteq Recs
  BY ThisTyped DEF Typed, Handler
<1>2. k.data \in Rows /\ k.rows \in Rows /\ k.rec \in Recs \cup {None}
  BY DEF CallRecords
<1>3. RowOf(k, v) \subseteq Recs
  BY <1>1, <1>2 DEF RowOf
<1>4. ASSUME NEW r \in Recs PROVE Rewritten(h, k, r, v, how) \in Views
  <2> DEFINE rows == [IF how = "current" THEN v.rows ELSE k.rows EXCEPT ![r] = h.to]
             marked == h.marks /\ k.open = r
             slots == [s \in DOMAIN v.slots |-> IF marked /\ s = "copy" THEN r ELSE v.slots[s]]
  <2>1. rows \in Rows
    BY <1>1, <1>2 DEF Rows, Views
  <2>2. slots \in [This.slots -> Recs \cup {None}]
    BY DEF Views
  <2>3. Rewritten(h, k, r, v, how) =
          [v EXCEPT !.rows = rows, !.seen = IF marked THEN h.to ELSE @, !.slots = slots]
    BY DEF Rewritten, Views
  <2> HIDE DEF rows, slots, marked
  <2> QED BY <1>1, <2>1, <2>2, <2>3 DEF Views
<1>5. [v EXCEPT !.rows = k.data] \in Views /\ [v EXCEPT !.rows = k.rows] \in Views
  BY <1>2 DEF Views
<1> QED BY <1>3, <1>4, <1>5 DEF Patched

LEMMA FilledTyped ==
  ASSUME NEW h, NEW k \in CallRecords, NEW v \in Views
  PROVE  Filled(h, k, v) \in Views
BY DEF Filled, Views, CallRecords

LEMMA ShutTyped ==
  ASSUME page \in DOMAIN Site, NEW d \in DOMAIN This.handlers, NEW h, h = Handler(d),
         NEW k, NEW v \in Views
  PROVE  Shut(h, k, v) \in Views
BY ThisSound DEF Shut, Views, Closed, Handler

LEMMA SettleTyped == ASSUME NEW v \in Views, NEW fs PROVE Settle(v, fs) \in Views
BY DEF Settle, Views

LEMMA RaisedTyped ==
  ASSUME NEW v \in Views, NEW hs \in SUBSET DOMAIN This.handlers, NEW r \in Recs \cup {None}
  PROVE  [v EXCEPT !.busy = WithFlags(@, hs, r)] \in Views
<1>1. v.busy \subseteq Flags
  BY DEF Views
<1>2. WithFlags(v.busy, hs, r) \subseteq Flags
  BY <1>1, FlagsTyped DEF WithFlags, Raised
<1> QED BY <1>2 DEF Views

LEMMA FlagsHeldTyped == ASSUME NEW k \in CallRecords PROVE FlagsHeld(k) \subseteq Flags
BY FlagsTyped DEF FlagsHeld, CallRecords

-----------------------------------------------------------------------------

LEMMA StartTyped ==
  ASSUME AllTyped, page \in DOMAIN Site
  PROVE  /\ This.mount \subseteq DOMAIN This.handlers
         /\ Start(This) \in Views /\ StartBusy \in Views
         /\ CallsOf({}, This.mount, None, Start(This)) \subseteq CallRecords
         /\ IsFiniteSet(CallsOf({}, This.mount, None, Start(This)))
<1>1. Typed(This) /\ Closed(This)
  BY ThisTyped
<1>2. This.mount \subseteq DOMAIN This.handlers
  BY <1>1 DEF Closed
<1>3. Start(This) \in Views
  <2>1. [r \in Recs |-> IF r \in This.recs THEN This.demo[r] ELSE Absent] \in Rows
    BY <1>1 DEF Rows, Typed
  <2>2. This.first \in DOMAIN This.panels
    BY <1>1 DEF Closed
  <2> QED BY <2>1, <2>2 DEF Start, Views
<1>4. StartBusy \in Views
  <2>1. StartBusy = [Start(This) EXCEPT !.busy = WithFlags(@, This.mount, None)]
    BY DEF StartBusy, Start
  <2> QED BY <1>2, <1>3, <2>1, RaisedTyped
<1>5. IsFiniteSet({})
  BY FS_EmptySet
<1> QED BY <1>2, <1>3, <1>4, <1>5, CallsOfTyped

LEMMA InitTyped == AllTyped /\ Init => TInv
<1> SUFFICES ASSUME AllTyped, Init PROVE TInv
  OBVIOUS
<1>1. page \in DOMAIN Site /\ Typed(This) /\ This = Site[page]
  BY ThisTyped DEF Init, This
<1>2. docs \in Rows
  BY <1>1 DEF Init, Rows, Typed
<1>3. view \in Views /\ calls \subseteq CallRecords /\ IsFiniteSet(calls)
  BY <1>1, StartTyped DEF Init
<1>4. presses \in 0 .. MaxPresses[page] /\ missed \in BOOLEAN /\ crossed \in BOOLEAN
  <2>1. MaxPresses[page] \in Nat
    BY <1>1, ConsoleAssumption
  <2>2. presses = 0 /\ missed \in BOOLEAN /\ crossed \in BOOLEAN
    BY DEF Init
  <2>3. presses \in 0 .. MaxPresses[page]
    BY <2>1, <2>2
  <2> QED BY <2>2, <2>3
<1> QED BY <1>1, <1>2, <1>3, <1>4, TInvParts

\* A step that leaves the page the tab shows.
LEMMA TInvNext ==
  ASSUME TInv, page' = page, docs' \in Rows, view' \in Views, calls' \subseteq CallRecords,
         IsFiniteSet(calls'), presses' \in 0 .. MaxPresses[page],
         missed' \in BOOLEAN, crossed' \in BOOLEAN
  PROVE  TInv'
<1>1. This' = This /\ Rows' = Rows /\ Views' = Views /\ CallRecords' = CallRecords
  BY SamePage
<1>2. page \in DOMAIN Site
  BY DEF TInv, TypeOK
<1> QED BY <1>1, <1>2, TInvParts DEF TInv, TypeOK, Rows, Views, CallRecords

LEMMA BeginTyped ==
  ASSUME AllTyped, TInv, NEW hs \in SUBSET DOMAIN This.handlers, NEW r \in Recs \cup {None},
         NEW v \in Views, Begin(hs, r, v)
  PROVE  view' \in Views /\ calls' \subseteq CallRecords /\ IsFiniteSet(calls')
<1>1. page \in DOMAIN Site /\ calls \subseteq CallRecords /\ IsFiniteSet(calls)
  BY TInvParts
<1>2. /\ CallsOf(calls, hs, r, v) \subseteq CallRecords
      /\ IsFiniteSet(CallsOf(calls, hs, r, v))
  BY <1>1, CallsOfTyped
<1>3. view' \in Views
  BY RaisedTyped DEF Begin
<1> QED BY <1>1, <1>2, <1>3, FS_Union DEF Begin

LEMMA OneMore ==
  ASSUME TInv, presses < MaxPresses[page]
  PROVE  presses + 1 \in 0 .. MaxPresses[page]
BY TInvParts, ConsoleAssumption

LEMMA PressTyped ==
  ASSUME AllTyped, TInv, NEW b \in PanelNow.buttons, NEW r \in Recs \cup {None},
         Press(Handler(b.do), b, r)
  PROVE  TInv'
<1> DEFINE h == Handler(b.do)
<1>1. page \in DOMAIN Site /\ view \in Views /\ IsFiniteSet(calls) /\ calls \subseteq CallRecords
  BY TInvParts
<1>2. Closed(This) /\ PanelNow.buttons = This.panels[view.panel].buttons
      /\ view.panel \in DOMAIN This.panels
  BY <1>1, ThisTyped DEF PanelNow, Views
<1>3. b.do \in DOMAIN This.handlers /\ h.then \subseteq DOMAIN This.handlers
  BY <1>2 DEF Closed, Handler
<1>4. /\ presses < MaxPresses[page]
      /\ page' = page /\ docs' = docs /\ missed' = missed /\ crossed' = crossed
      /\ presses' = presses + 1
  BY DEF Press, MayStart
<1>5. view' \in Views /\ calls' \subseteq CallRecords /\ IsFiniteSet(calls')
  <2>1. CASE h.kind = "local"
    <3> DEFINE k == NewCall(calls, b.do, r, view)
    <3>1. Begin(h.then, r, Shut(h, k, Patched(h, k, view, h.patch)))
      BY <2>1 DEF Press, BeginLocal
    <3>2. k \in CallRecords
      BY <1>1, <1>3, NewCallTyped
    <3> HIDE DEF k
    <3>3. Patched(h, k, view, h.patch) \in Views
      BY <1>1, <1>3, <3>2, PatchedTyped
    <3>4. Shut(h, k, Patched(h, k, view, h.patch)) \in Views
      BY <1>1, <1>3, <3>3, ShutTyped
    <3> QED BY <1>3, <3>1, <3>4, BeginTyped
  <2>2. CASE h.kind # "local"
    <3>1. Begin({b.do}, r, view)
      BY <2>2 DEF Press
    <3> QED BY <1>1, <1>3, <3>1, BeginTyped
  <2> QED BY <2>1, <2>2
<1> QED BY <1>4, <1>5, OneMore, TInvParts, TInvNext

LEMMA ClickTyped ==
  ASSUME AllTyped, TInv, NEW m \in PanelNow.moves, NEW r \in Recs \cup {None}, Click(m, r)
  PROVE  TInv'
<1>1. page \in DOMAIN Site /\ view \in Views
  BY TInvParts
<1>2. m.starts \subseteq DOMAIN This.handlers /\ m.to \in DOMAIN This.panels
  BY <1>1, ThisTyped DEF PanelNow, Views, Closed
<1> DEFINE v == Clicked(m, r)
<1>3. Begin(m.starts, r, v)
  BY DEF Click
<1>4. v \in Views
  <2> DEFINE seen == IF m.picks THEN view.rows[r] ELSE view.seen
             slots == [s \in DOMAIN view.slots |-> IF s \in m.empties THEN None
                                                  ELSE IF s \in m.fills THEN r ELSE view.slots[s]]
  <2>1. m.picks => r \in Recs
    BY DEF Click
  <2>2. seen \in This.states \cup {Absent}
    BY <1>1, <2>1 DEF Views, Rows
  <2>3. slots \in [This.slots -> Recs \cup {None}]
    BY <1>1 DEF Views
  <2>4. v = [view EXCEPT !.panel = m.to, !.open = r, !.seen = seen, !.slots = slots]
    BY <1>1 DEF Clicked, Views
  <2> HIDE DEF v, seen, slots
  <2> QED BY <1>1, <1>2, <2>2, <2>3, <2>4 DEF Views
<1>5. view' \in Views /\ calls' \subseteq CallRecords /\ IsFiniteSet(calls')
  <2> HIDE DEF v
  <2> QED BY <1>2, <1>3, <1>4, BeginTyped
<1>6. presses' \in 0 .. MaxPresses[page]
  BY OneMore, TInvParts DEF Click, MayStart
<1>7. page' = page /\ docs' = docs /\ missed' = missed
  BY DEF Click
<1>8. crossed' \in BOOLEAN
  BY TInvParts DEF Click
<1> QED BY <1>5, <1>6, <1>7, <1>8, TInvParts, TInvNext

LEMMA PollTyped ==
  ASSUME AllTyped, TInv, NEW h \in This.polls, Poll(h)
  PROVE  TInv'
<1>1. page \in DOMAIN Site /\ view \in Views
  BY TInvParts
<1>2. {h} \subseteq DOMAIN This.handlers /\ Begin({h}, None, view)
  BY <1>1, ThisTyped DEF Poll, Closed
<1>3. view' \in Views /\ calls' \subseteq CallRecords /\ IsFiniteSet(calls')
  BY <1>1, <1>2, BeginTyped
<1>4. /\ page' = page /\ docs' = docs /\ presses' = presses /\ missed' = missed
      /\ crossed' = crossed
  BY DEF Poll
<1> QED BY <1>3, <1>4, TInvParts, TInvNext

LEMMA ReloadTyped == ASSUME AllTyped, TInv, Reload PROVE TInv'
<1>1. page \in DOMAIN Site /\ view \in Views
  BY TInvParts
<1>2. view' \in Views
  BY <1>1, StartTyped DEF Reload, Views
<1>3. calls' \subseteq CallRecords /\ IsFiniteSet(calls')
  BY <1>1, StartTyped DEF Reload
<1>4. presses' \in 0 .. MaxPresses[page]
  BY <1>1, ConsoleAssumption DEF Reload
<1>5. page' = page /\ docs' = docs /\ missed' \in BOOLEAN /\ crossed' \in BOOLEAN
  BY TInvParts DEF Reload
<1> QED BY <1>2, <1>3, <1>4, <1>5, TInvParts, TInvNext

LEMMA BecomeTyped ==
  ASSUME TInv, NEW k, NEW l \in CallRecords, Become(k, l)
  PROVE  calls' \subseteq CallRecords /\ IsFiniteSet(calls')
<1>1. calls \subseteq CallRecords /\ IsFiniteSet(calls)
  BY TInvParts
<1>2. IsFiniteSet(calls \ {k})
  BY <1>1, FS_Subset
<1> QED BY <1>1, <1>2, FS_AddElement DEF Become

LEMMA ServeTyped ==
  ASSUME AllTyped, TInv, NEW k \in calls, Serve(Handler(k.do), k)
  PROVE  TInv'
<1> DEFINE h == Handler(k.do)
<1>1. /\ page \in DOMAIN Site /\ docs \in Rows /\ view \in Views /\ k \in CallRecords
      /\ presses \in 0 .. MaxPresses[page] /\ missed \in BOOLEAN /\ crossed \in BOOLEAN
  BY TInvParts
<1>2. page' = page /\ view' = view /\ presses' = presses /\ crossed' = crossed
  BY DEF Serve
<1>3. k.do \in DOMAIN This.handlers /\ h.to \in This.states \cup {Absent}
  BY <1>1, ThisTyped DEF CallRecords, Typed, Handler
<1>4. CASE ServeLoad(h, k)
  <2>1. [k EXCEPT !.phase = "ok", !.data = docs] \in CallRecords
    BY <1>1 DEF CallRecords
  <2>2. calls' \subseteq CallRecords /\ IsFiniteSet(calls')
    BY <1>4, <2>1, BecomeTyped DEF ServeLoad
  <2>3. missed' \in BOOLEAN /\ docs' = docs
    BY <1>4 DEF ServeLoad
  <2> QED BY <1>1, <1>2, <2>2, <2>3, TInvNext
<1>5. CASE ServeFetch(h, k) \/ ServeAsk(h, k)
  <2>1. [k EXCEPT !.phase = "ok"] \in CallRecords
    BY <1>1 DEF CallRecords
  <2>2. calls' \subseteq CallRecords /\ IsFiniteSet(calls')
    BY <1>5, <2>1, BecomeTyped DEF ServeFetch, ServeAsk
  <2>3. missed' = missed /\ docs' = docs
    BY <1>5 DEF ServeFetch, ServeAsk
  <2> QED BY <1>1, <1>2, <2>2, <2>3, TInvNext
<1>6. ASSUME NEW r \in Recs, ServePost(h, k, r) PROVE TInv'
  <2>1. docs' \in Rows
    BY <1>1, <1>3, <1>6 DEF ServePost, Rows
  <2>2. NoRows \in Rows
    BY DEF NoRows, Rows
  <2>3. [k EXCEPT !.rec = r, !.phase = "ok",
                  !.data = IF h.patch = "answer" THEN docs' ELSE NoRows] \in CallRecords
    BY <1>1, <2>1, <2>2 DEF CallRecords
  <2>4. calls' \subseteq CallRecords /\ IsFiniteSet(calls')
    BY <1>6, <2>3, BecomeTyped DEF ServePost
  <2>5. missed' \in BOOLEAN
    BY <1>1, <1>6 DEF ServePost
  <2> QED BY <1>1, <1>2, <2>1, <2>4, <2>5, TInvNext
<1> QED BY <1>4, <1>5, <1>6 DEF Serve

LEMMA ArriveTyped ==
  ASSUME AllTyped, TInv, NEW k \in calls, Arrive(Handler(k.do), k)
  PROVE  TInv'
<1> DEFINE h == Handler(k.do)
           waits == Waits(h)
           patched == Patched(h, k, view, h.patch)
           filled == Filled(h, k, patched)
           done == Shut(h, k, filled)
           settled == IF waits THEN done ELSE Settle(done, FlagsHeld(k))
           new == CallsOf(calls, h.then, k.rec, settled)
           given(l) == [l EXCEPT !.holds = IF waits THEN FlagsHeld(k) ELSE {}]
           called == [l \in new |-> given(l)]
<1>1. /\ page \in DOMAIN Site /\ view \in Views /\ k \in CallRecords
      /\ calls \subseteq CallRecords /\ IsFiniteSet(calls)
  BY TInvParts
<1>2. k.do \in DOMAIN This.handlers /\ h.then \subseteq DOMAIN This.handlers
      /\ k.rec \in Recs \cup {None}
  BY <1>1, ThisTyped DEF CallRecords, Closed, Handler
<1>3. /\ view' = [settled EXCEPT !.busy = WithFlags(@, h.then, k.rec)]
      /\ calls' = (calls \ {k}) \cup {given(l) : l \in new}
      /\ page' = page /\ docs' = docs /\ presses' = presses /\ missed' = missed
      /\ crossed' = crossed
  BY DEF Arrive, Succeeds, Done, GoesOn, CallsNext
<1>4. patched \in Views
  BY <1>1, <1>2, PatchedTyped
<1>5. filled \in Views
  <2> HIDE DEF patched
  <2> QED BY <1>1, <1>4, FilledTyped
<1>6. done \in Views
  <2> HIDE DEF filled
  <2> QED BY <1>1, <1>2, <1>5, ShutTyped
<1>7. settled \in Views
  <2> HIDE DEF done
  <2> QED BY <1>6, SettleTyped
<1> HIDE DEF settled
<1>8. view' \in Views
  BY <1>2, <1>3, <1>7, RaisedTyped
<1>9. new \subseteq CallRecords /\ IsFiniteSet(new)
  BY <1>1, <1>2, <1>7, CallsOfTyped
<1>10. FlagsHeld(k) \subseteq Flags
  BY <1>1, FlagsHeldTyped
<1> HIDE DEF new
<1>11. \A l \in new : given(l) \in CallRecords
  BY <1>9, <1>10 DEF CallRecords
<1>12. called \in Surjection(new, {given(l) : l \in new})
  <2> HIDE DEF given
  <2> QED BY DEF Surjection
<1>13. IsFiniteSet({given(l) : l \in new})
  <2> HIDE DEF called, given
  <2> QED BY <1>9, <1>12, FS_Surjection
<1>14. IsFiniteSet(calls \ {k})
  BY <1>1, FS_Subset
<1>15. calls' \subseteq CallRecords /\ IsFiniteSet(calls')
  <2> HIDE DEF given
  <2> QED BY <1>1, <1>3, <1>11, <1>13, <1>14, FS_Union
<1> QED BY <1>3, <1>8, <1>15, TInvParts, TInvNext

LEMMA FailTyped ==
  ASSUME AllTyped, TInv, NEW k \in calls, NEW how, Fail(Handler(k.do), k, how)
  PROVE  TInv'
<1> DEFINE h == Handler(k.do)
<1>1. /\ page \in DOMAIN Site /\ view \in Views /\ k \in CallRecords
      /\ calls \subseteq CallRecords /\ IsFiniteSet(calls)
  BY TInvParts
<1>2. k.do \in DOMAIN This.handlers
  BY <1>1 DEF CallRecords
<1>3. /\ page' = page /\ docs' = docs /\ presses' = presses /\ crossed' = crossed
      /\ calls' = calls \ {k} /\ missed' \in BOOLEAN
  BY TInvParts DEF Fail
<1>4. CASE Gives(h, k)
  <2>1. Left(h) \in Views
    BY <1>1, <1>2, ThisSound DEF Left, Views, Closed, Handler
  <2>2. view' \in Views
    BY <1>4, <2>1, SettleTyped DEF Gives
  <2> QED BY <1>1, <1>3, <2>2, FS_Subset, TInvParts, TInvNext
<1>5. CASE Pretends(h, k, how)
  <2> DEFINE u == Patched(h, k, view, IF Spared(h, k, view) THEN "none" ELSE h[how])
  <2>1. view' = Settle(Shut(h, k, u), FlagsHeld(k))
    BY <1>5 DEF Pretends
  <2>2. u \in Views
    BY <1>1, <1>2, PatchedTyped
  <2> HIDE DEF u
  <2>3. view' \in Views
    BY <1>1, <1>2, <2>1, <2>2, ShutTyped, SettleTyped
  <2> QED BY <1>1, <1>3, <2>3, FS_Subset, TInvParts, TInvNext
<1> QED BY <1>4, <1>5 DEF Fail

LEMMA ElsewhereTyped ==
  ASSUME AllTyped, TInv, NEW r \in Recs, NEW s \in This.states, Elsewhere(r, s)
  PROVE  TInv'
<1>1. docs' \in Rows
  BY TInvParts DEF Elsewhere, Rows
<1> QED BY <1>1, TInvParts, TInvNext DEF Elsewhere

LEMMA StepTyped == AllTyped /\ TInv /\ [Next]_vars => TInv'
<1> SUFFICES ASSUME AllTyped, TInv, [Next]_vars PROVE TInv'
  OBVIOUS
<1>1. CASE UserStep
  BY <1>1, PressTyped, ClickTyped, PollTyped, ReloadTyped DEF UserStep
<1>2. ASSUME NEW k \in calls, CallStep(Handler(k.do), k)
      PROVE  TInv'
  BY <1>2, ServeTyped, ArriveTyped, FailTyped DEF CallStep
<1>3. ASSUME NEW r \in Recs, NEW s \in This.states, Elsewhere(r, s) PROVE TInv'
  BY <1>3, ElsewhereTyped
<1>4. CASE UNCHANGED vars
  BY <1>4, TInvParts, TInvNext DEF vars
<1> QED BY <1>1, <1>2, <1>3, <1>4 DEF Next

\* The page's rows, slots and flags and the calls in flight stay of their types, on every
\* site whose pages name the states their handlers and lists use.
THEOREM TypeCorrect == AllTyped => (Spec => []TypeOK)
<1> SUFFICES ASSUME AllTyped PROVE Spec => []TypeOK
  OBVIOUS
<1>1. Init => TInv
  BY InitTyped
<1>2. TInv /\ [Next]_vars => TInv'
  BY StepTyped
<1>3. TInv => TypeOK
  BY DEF TInv
<1> QED BY <1>1, <1>2, <1>3, PTL DEF Spec

-----------------------------------------------------------------------------
(* Requests sent once                                                      *)
(*                                                                         *)
(* A flag that guards its buttons has one holder: the call they started,   *)
(* or the one that call awaits.  While there is a holder the flag is up,   *)
(* so that no button starts another; only the holder's end takes it down.  *)

Holds(k, f) == Handler(k.do).flag = f \/ f \in k.holds
OneHolder(cs, busy, f) ==
  /\ \A k \in cs : Holds(k, f) => f \in busy
  /\ \A k, l \in cs : Holds(k, f) /\ Holds(l, f) => k = l
GInv == TInv /\ \A f : Guards(This, f) => OneHolder(calls, view.busy, f)

LEMMA GInvNext ==
  ASSUME TInv', page' = page, \A f : Guards(This, f) => OneHolder(calls', view'.busy, f)
  PROVE  GInv'
<1>1. This' = This
  BY DEF This
<1>2. \A cs, busy, f : OneHolder(cs, busy, f)' = OneHolder(cs', busy', f')
  BY <1>1 DEF OneHolder, Holds, Handler
<1> QED BY <1>1 DEF GInv, OneHolder, Holds, Handler

\* What a call's end takes down of such flags is what it holds.
LEMMA HoldsIsHeld ==
  ASSUME NEW k \in CallRecords, NEW f, Guards(This, f)
  PROVE  f \in FlagsHeld(k) <=> Holds(k, f)
<1>1. f \notin Recs \cup {None, "record"} /\ k.rec \in Recs \cup {None}
  BY DEF Guards, CallRecords
<1> QED BY <1>1 DEF FlagsHeld, FlagsOf, FlagFor, Holds

LEMMA RaisedHas ==
  ASSUME NEW f, Guards(This, f), NEW busy, NEW hs, NEW r
  PROVE  /\ f \in busy => f \in WithFlags(busy, hs, r)
         /\ \A h \in hs : Handler(h).flag = f => f \in WithFlags(busy, hs, r)
<1>1. f \notin {None, "record"} /\ f \notin SharedWith(FlagsOf(hs, r))
  BY DEF Guards, SharedWith
<1>2. \A h \in hs : Handler(h).flag = f => f \in FlagsOf(hs, r)
  BY <1>1 DEF FlagsOf, FlagFor
<1> QED BY <1>1, <1>2 DEF WithFlags, Raised

\* New calls are one for each handler and hold no flag but their own.
LEMMA NewHolders ==
  ASSUME NEW cs, NEW hs, NEW r, NEW v
  PROVE  /\ \A k \in CallsOf(cs, hs, r, v) : k.do \in hs /\ k.holds = {}
         /\ \A k, l \in CallsOf(cs, hs, r, v) : k.do = l.do => k = l
BY DEF CallsOf, NewCall

\* A handler starts only when its guarding flag is down, and alone of those with this flag.
MayBegin(hs) ==
  \A h \in hs : Guards(This, Handler(h).flag) =>
    /\ Handler(h).flag \notin view.busy
    /\ \A g \in hs : Handler(g).flag = Handler(h).flag => g = h

LEMMA BeginOne ==
  ASSUME GInv, TInv', page' = page, NEW hs, NEW r, NEW v, Begin(hs, r, v),
         v.busy = view.busy, "busy" \in DOMAIN v, MayBegin(hs)
  PROVE  GInv'
<1> DEFINE new == CallsOf(calls, hs, r, v)
<1>1. calls' = calls \cup new /\ view'.busy = WithFlags(view.busy, hs, r)
  BY DEF Begin
<1>2. /\ \A k \in new : k.do \in hs /\ k.holds = {}
      /\ \A k, l \in new : k.do = l.do => k = l
  BY NewHolders
<1> HIDE DEF new
<1> SUFFICES ASSUME NEW f, Guards(This, f) PROVE OneHolder(calls', view'.busy, f)
  BY GInvNext
<1>3. OneHolder(calls, view.busy, f)
  BY DEF GInv
<1>4. /\ f \in view.busy => f \in view'.busy
      /\ \A h \in hs : Handler(h).flag = f => f \in view'.busy
  BY <1>1, RaisedHas
<1>5. \A k \in new : Holds(k, f) => Handler(k.do).flag = f /\ f \notin view.busy
  BY <1>2 DEF Holds, MayBegin
<1>6. \A k, l \in new : Holds(k, f) /\ Holds(l, f) => k = l
  BY <1>2, <1>5 DEF MayBegin
<1> QED BY <1>1, <1>2, <1>3, <1>4, <1>5, <1>6 DEF OneHolder

\* What other handlers, the mount and the intervals call guards nothing.
LEMMA CalledUnguarded ==
  ASSUME NEW h \in DOMAIN This.handlers, h \in Called(This)
  PROVE  ~Guards(This, Handler(h).flag)
BY DEF Guards, Handler

LEMMA PressOne ==
  ASSUME AllTyped, GInv, NEW b \in PanelNow.buttons, NEW r \in Recs \cup {None},
         Press(Handler(b.do), b, r)
  PROVE  GInv'
<1> DEFINE h == Handler(b.do)
<1>1. /\ page \in DOMAIN Site /\ view \in Views /\ TInv /\ TInv' /\ page' = page
      /\ {"busy", "panel"} \subseteq DOMAIN view
  BY TInvParts, PressTyped DEF GInv, Press, Views
<1>2. /\ Closed(This) /\ view.panel \in DOMAIN This.panels
      /\ b \in This.panels[view.panel].buttons
  BY <1>1, ThisTyped DEF PanelNow, Views
<1>3. b.do \in DOMAIN This.handlers /\ h.then \subseteq DOMAIN This.handlers
  BY <1>2 DEF Closed, Handler
<1>4. CASE h.kind = "local"
  <2> DEFINE k == NewCall(calls, b.do, r, view)
             u == Patched(h, k, view, h.patch)
             v == Shut(h, k, u)
  <2>1. Begin(h.then, r, v)
    BY <1>4 DEF Press, BeginLocal
  <2> HIDE DEF k
  <2>2. u.busy = view.busy /\ u.panel = view.panel /\ DOMAIN u = DOMAIN view
    BY <1>1, PageKept
  <2> HIDE DEF u
  <2>3. v.busy = view.busy /\ "busy" \in DOMAIN v
    BY <1>1, <1>2, <1>3, <2>2, ShutKept
  <2> HIDE DEF v
  <2>4. MayBegin(h.then)
    BY <1>3, CalledUnguarded DEF MayBegin, Called, Handler
  <2> QED BY <1>1, <2>1, <2>3, <2>4, BeginOne
<1>5. CASE h.kind # "local"
  <2>1. Begin({b.do}, r, view) /\ Enabled(b.off, r, view)
    BY <1>5 DEF Press
  <2>2. Guards(This, h.flag) => h.flag \in b.off /\ h.flag # "record"
    BY <1>2, <1>3 DEF Guards, Handler
  <2>3. MayBegin({b.do})
    BY <2>1, <2>2 DEF MayBegin, Enabled, FlagFor
  <2> QED BY <1>1, <2>1, <2>3, BeginOne
<1> QED BY <1>4, <1>5

LEMMA ClickOne ==
  ASSUME AllTyped, AllOrderly, GInv, NEW m \in PanelNow.moves, NEW r \in Recs \cup {None},
         Click(m, r)
  PROVE  GInv'
<1>1. /\ page \in DOMAIN Site /\ view \in Views /\ TInv /\ TInv' /\ page' = page
      /\ {"busy", "panel"} \subseteq DOMAIN view
  BY TInvParts, ClickTyped DEF GInv, Click, Views
<1>2. /\ Closed(This) /\ view.panel \in DOMAIN This.panels
      /\ m \in This.panels[view.panel].moves /\ Orderly(This)
  BY <1>1, ThisTyped DEF PanelNow, Views, AllOrderly, This
<1>3. m.starts \subseteq DOMAIN This.handlers
  BY <1>2 DEF Closed
<1>4. Begin(m.starts, r, Clicked(m, r)) /\ Enabled(m.off, r, view)
  BY DEF Click
<1>5. Clicked(m, r).busy = view.busy /\ "busy" \in DOMAIN Clicked(m, r)
  BY <1>1 DEF Clicked
<1>6. ASSUME NEW h \in m.starts, Guards(This, Handler(h).flag)
      PROVE  /\ Handler(h).flag \notin view.busy
             /\ \A g \in m.starts : Handler(g).flag = Handler(h).flag => g = h
  <2>1. Handler(h).flag \in m.off /\ Handler(h).flag # "record"
    BY <1>2, <1>3, <1>6 DEF Guards, Handler
  <2> QED BY <1>2, <1>4, <1>6, <2>1 DEF Enabled, FlagFor, Orderly, Handler
<1>7. MayBegin(m.starts)
  BY <1>6 DEF MayBegin
<1> QED BY <1>1, <1>4, <1>5, <1>7, BeginOne

LEMMA PollOne == ASSUME AllTyped, GInv, NEW h \in This.polls, Poll(h) PROVE GInv'
<1>1. /\ page \in DOMAIN Site /\ TInv' /\ page' = page /\ Begin({h}, None, view)
      /\ "busy" \in DOMAIN view
  BY TInvParts, PollTyped DEF GInv, Poll, Views
<1>2. h \in DOMAIN This.handlers /\ h \in Called(This)
  BY <1>1, ThisTyped DEF Closed, Called
<1>3. MayBegin({h})
  BY <1>2, CalledUnguarded DEF MayBegin
<1> QED BY <1>1, <1>3, BeginOne

\* The handlers called on mount hold no flag that guards its buttons.
LEMMA MountHoldsNone ==
  ASSUME AllTyped, page \in DOMAIN Site, NEW cs, NEW v, NEW f, Guards(This, f), NEW busy
  PROVE  OneHolder(CallsOf(cs, This.mount, None, v), busy, f)
<1>1. \A h \in This.mount : h \in DOMAIN This.handlers /\ h \in Called(This)
  BY ThisTyped DEF Closed, Called
<1>2. \A k \in CallsOf(cs, This.mount, None, v) : ~Holds(k, f)
  BY <1>1, CalledUnguarded, NewHolders DEF Holds
<1> QED BY <1>2 DEF OneHolder

LEMMA ReloadOne == ASSUME AllTyped, GInv, Reload PROVE GInv'
<1>1. page \in DOMAIN Site /\ TInv' /\ page' = page
  BY TInvParts, ReloadTyped DEF GInv, Reload
<1> QED BY <1>1, MountHoldsNone, GInvNext DEF Reload

\* An answer leaves a call the flags it holds.
LEMMA ServeOne == ASSUME AllTyped, GInv, NEW k \in calls, Serve(Handler(k.do), k) PROVE GInv'
<1>1. TInv' /\ page' = page /\ view' = view /\ k \in CallRecords
  BY TInvParts, ServeTyped DEF GInv, Serve
<1>2. PICK l : Become(k, l) /\ l.do = k.do /\ l.holds = k.holds
  <2>1. CASE ServeLoad(Handler(k.do), k)
    <3> DEFINE l == [k EXCEPT !.phase = "ok", !.data = docs]
    <3>1. Become(k, l) /\ l.do = k.do /\ l.holds = k.holds
      BY <1>1, <2>1 DEF ServeLoad, CallRecords
    <3> QED BY <3>1
  <2>2. CASE ServeFetch(Handler(k.do), k) \/ ServeAsk(Handler(k.do), k)
    BY <1>1, <2>2 DEF ServeFetch, ServeAsk, CallRecords
  <2>3. ASSUME NEW r \in Recs, ServePost(Handler(k.do), k, r)
        PROVE  \E l : Become(k, l) /\ l.do = k.do /\ l.holds = k.holds
    <3> DEFINE l == [k EXCEPT !.rec = r, !.phase = "ok",
                              !.data = IF Handler(k.do).patch = "answer" THEN docs' ELSE NoRows]
    <3>1. Become(k, l) /\ l.do = k.do /\ l.holds = k.holds
      BY <1>1, <2>3 DEF ServePost, CallRecords
    <3> QED BY <3>1
  <2> QED BY <2>1, <2>2, <2>3 DEF Serve
<1> SUFFICES ASSUME NEW f, Guards(This, f) PROVE OneHolder(calls', view'.busy, f)
  BY <1>1, GInvNext
<1>3. Holds(l, f) <=> Holds(k, f)
  BY <1>2 DEF Holds
<1> QED BY <1>1, <1>2, <1>3 DEF GInv, OneHolder, Become

\* A call that ends takes down its own flags of this kind; the other holders keep theirs.
LEMMA EndOne ==
  ASSUME GInv, TInv', page' = page, NEW k \in calls, calls' = calls \ {k},
         view'.busy = view.busy \/ view'.busy = view.busy \ (FlagsHeld(k) \cup SharedWith(FlagsHeld(k)))
  PROVE  GInv'
<1> SUFFICES ASSUME NEW f, Guards(This, f) PROVE OneHolder(calls', view'.busy, f)
  BY GInvNext
<1>1. OneHolder(calls, view.busy, f) /\ k \in CallRecords
  BY TInvParts DEF GInv
<1>2. f \notin SharedWith(FlagsHeld(k)) /\ (f \in FlagsHeld(k) => Holds(k, f))
  BY <1>1, HoldsIsHeld DEF Guards, SharedWith
<1> QED BY <1>1, <1>2 DEF OneHolder

LEMMA FailOne ==
  ASSUME AllTyped, GInv, NEW k \in calls, NEW how, Fail(Handler(k.do), k, how)
  PROVE  GInv'
<1> DEFINE h == Handler(k.do)
<1>1. /\ page \in DOMAIN Site /\ view \in Views /\ k \in CallRecords /\ Closed(This)
      /\ TInv' /\ page' = page /\ calls' = calls \ {k} /\ k.do \in DOMAIN This.handlers
      /\ {"busy", "panel"} \subseteq DOMAIN view /\ view.panel \in DOMAIN This.panels
  BY TInvParts, ThisTyped, FailTyped DEF GInv, Fail, Views, CallRecords
<1>2. CASE Gives(h, k)
  <2>1. Left(h).busy = view.busy /\ "busy" \in DOMAIN Left(h)
    BY <1>1 DEF Left
  <2>2. \/ view'.busy = view.busy
        \/ view'.busy = view.busy \ (FlagsHeld(k) \cup SharedWith(FlagsHeld(k)))
    BY <1>2, <2>1 DEF Gives, Settle
  <2> QED BY <1>1, <2>2, EndOne
<1>3. CASE Pretends(h, k, how)
  <2> DEFINE u == Patched(h, k, view, IF Spared(h, k, view) THEN "none" ELSE h[how])
             v == Shut(h, k, u)
  <2>1. view' = Settle(v, FlagsHeld(k))
    BY <1>3 DEF Pretends
  <2>2. u.busy = view.busy /\ u.panel = view.panel /\ DOMAIN u = DOMAIN view
    BY <1>1, PageKept
  <2> HIDE DEF u
  <2>3. v.busy = view.busy /\ "busy" \in DOMAIN v
    BY <1>1, <2>2, ShutKept
  <2> HIDE DEF v
  <2>4. view'.busy = view.busy \ (FlagsHeld(k) \cup SharedWith(FlagsHeld(k)))
    BY <2>1, <2>3 DEF Settle
  <2> QED BY <1>1, <2>4, EndOne
<1> QED BY <1>2, <1>3 DEF Fail

\* A success hands its flags to the one call it awaits, or takes them down.
LEMMA ArriveOne ==
  ASSUME AllTyped, AllOrderly, GInv, NEW k \in calls, Arrive(Handler(k.do), k)
  PROVE  GInv'
<1> DEFINE h == Handler(k.do)
           waits == Waits(h)
           p == Patched(h, k, view, h.patch)
           q == Filled(h, k, p)
           done == Shut(h, k, q)
           settled == IF waits THEN done ELSE Settle(done, FlagsHeld(k))
           new == CallsOf(calls, h.then, k.rec, settled)
           given(l) == [l EXCEPT !.holds = IF waits THEN FlagsHeld(k) ELSE {}]
           called == {given(l) : l \in new}
<1>1. /\ page \in DOMAIN Site /\ view \in Views /\ k \in CallRecords /\ Closed(This)
      /\ Orderly(This) /\ TInv' /\ page' = page /\ k.do \in DOMAIN This.handlers
      /\ {"busy", "panel"} \subseteq DOMAIN view /\ view.panel \in DOMAIN This.panels
  BY TInvParts, ThisTyped, ArriveTyped DEF GInv, Arrive, Views, CallRecords, AllOrderly, This
<1>2. /\ view' = [settled EXCEPT !.busy = WithFlags(@, h.then, k.rec)]
      /\ calls' = (calls \ {k}) \cup called
  BY DEF Arrive, Succeeds, Done, GoesOn, CallsNext
<1>3. p.busy = view.busy /\ p.panel = view.panel /\ DOMAIN p = DOMAIN view
  BY <1>1, PageKept
<1> HIDE DEF p
<1>4. q.busy = view.busy /\ q.panel = view.panel /\ DOMAIN q = DOMAIN view
  BY <1>1, <1>3, PageKept
<1> HIDE DEF q
<1>5. done.busy = view.busy /\ DOMAIN done = DOMAIN view
  BY <1>1, <1>4, ShutKept
<1> HIDE DEF done
<1>6. /\ "busy" \in DOMAIN settled
      /\ settled.busy = IF waits THEN view.busy
                        ELSE view.busy \ (FlagsHeld(k) \cup SharedWith(FlagsHeld(k)))
  BY <1>1, <1>5 DEF Settle
<1> HIDE DEF settled
<1>7. view'.busy = WithFlags(settled.busy, h.then, k.rec)
  BY <1>2, <1>6
<1>8. /\ \A l \in new : l.do \in h.then /\ l.holds = {} /\ {"do", "holds"} \subseteq DOMAIN l
      /\ \A l, m \in new : l.do = m.do => l = m
  BY NewHolders, CallsOfKnown
<1>9. h.then \subseteq DOMAIN This.handlers /\ h.then \subseteq Called(This)
  BY <1>1 DEF Closed, Called, Handler
<1>10. waits => \A l, m \in new : l = m
  BY <1>1, <1>8 DEF Waits, Orderly, Handler
<1> HIDE DEF new
<1> SUFFICES ASSUME NEW f, Guards(This, f) PROVE OneHolder(calls', view'.busy, f)
  BY <1>1, GInvNext
<1>11. \A l \in new : Handler(l.do).flag # f
  BY <1>8, <1>9, CalledUnguarded
<1>12. \A l \in new : given(l).do = l.do
                      /\ given(l).holds = IF waits THEN FlagsHeld(k) ELSE {}
  BY <1>8
<1> HIDE DEF given
<1>13. \A l \in new : Holds(given(l), f) => waits /\ Holds(k, f)
  BY <1>1, <1>11, <1>12, HoldsIsHeld DEF Holds
<1>14. OneHolder(calls, view.busy, f) /\ (f \in FlagsHeld(k) => Holds(k, f))
       /\ f \notin SharedWith(FlagsHeld(k))
  BY <1>1, HoldsIsHeld DEF GInv, Guards, SharedWith
<1>15. f \in settled.busy => f \in view'.busy
  BY <1>7, RaisedHas
<1>16. \A c \in calls \ {k} : Holds(c, f) => f \in settled.busy
  BY <1>6, <1>14 DEF OneHolder
<1>17. \A c \in called : Holds(c, f) => waits /\ Holds(k, f) /\ f \in settled.busy
  BY <1>6, <1>13, <1>14 DEF OneHolder
<1>18. \A c, d \in called : Holds(c, f) /\ Holds(d, f) => c = d
  BY <1>10, <1>13
<1> QED BY <1>2, <1>14, <1>15, <1>16, <1>17, <1>18 DEF OneHolder

LEMMA StepOne == AllTyped /\ AllOrderly /\ GInv /\ [Next]_vars => GInv'
<1> SUFFICES ASSUME AllTyped, AllOrderly, GInv, [Next]_vars PROVE GInv'
  OBVIOUS
<1>1. CASE UserStep
  BY <1>1, PressOne, ClickOne, PollOne, ReloadOne DEF UserStep
<1>2. ASSUME NEW k \in calls, CallStep(Handler(k.do), k) PROVE GInv'
  BY <1>2, ServeOne, ArriveOne, FailOne DEF CallStep
<1>3. ASSUME page' = page, view' = view, calls' = calls, TInv' PROVE GInv'
  BY <1>3, GInvNext DEF GInv
<1>4. ASSUME NEW r \in Recs, NEW s \in This.states, Elsewhere(r, s) PROVE GInv'
  BY <1>3, <1>4, ElsewhereTyped DEF GInv, Elsewhere
<1>5. CASE UNCHANGED vars
  BY <1>3, <1>5, StepTyped DEF GInv, vars
<1> QED BY <1>1, <1>2, <1>4, <1>5 DEF Next

\* No request is sent twice behind a button that its own flag disables, on every site whose
\* handlers hand a flag on to one handler.
THEOREM SentAlwaysOnce == AllTyped /\ AllOrderly => (Spec => []SentOnce)
<1> SUFFICES ASSUME AllTyped, AllOrderly PROVE Spec => []SentOnce
  OBVIOUS
<1>1. Init => GInv
  <2> SUFFICES ASSUME Init PROVE GInv
    OBVIOUS
  <2>1. TInv /\ page \in DOMAIN Site
    BY InitTyped, TInvParts
  <2> QED BY <2>1, MountHoldsNone DEF Init, GInv
<1>2. GInv /\ [Next]_vars => GInv'
  BY StepOne
<1>3. GInv => SentOnce
  BY DEF GInv, OneHolder, Holds, SentOnce
<1> QED BY <1>1, <1>2, <1>3, PTL DEF Spec

-----------------------------------------------------------------------------
(* Details                                                                 *)
(*                                                                         *)
(* A slot holds details of the open record or nothing, or else a handler   *)
(* that fills it is on its way and a spinner stands in its place.  Such a  *)
(* handler is called for the record open when it began, and a click that   *)
(* opens another meanwhile sets crossed.  Its flag is taken down by it     *)
(* alone: no other handler of the page raises it, shares it or holds it    *)
(* for a handler it awaits.                                                *)

ShowsOpen(v) ==
  \A s \in This.panels[v.panel].shows :
    \/ v.slots[s] \in {v.open, None}
    \/ /\ Fetched(This, v.panel, s)
       /\ \E h \in Fillers(This, s) : Handler(h).flag \in v.busy \cap This.panels[v.panel].hidden

CallOpen(k, o) ==
  /\ Handler(k.do).slot # None => k.rec = o
  /\ Handler(k.do).marks => k.rec \in Recs /\ (k.open = k.rec => k.rec = o)

SlotFlags ==
  {Handler(g).flag : g \in {h \in DOMAIN This.handlers : Handler(h).slot # None}}
HoldsApart(k) == k.holds \cap SlotFlags = {}

DInv ==
  /\ TInv
  /\ \A k \in calls : HoldsApart(k)
  /\ ~crossed => ShowsOpen(view) /\ \A k \in calls : CallOpen(k, view.open)

LEMMA SamePageToo ==
  ASSUME page' = page
  PROVE  /\ ShowsOpen(view)' = ShowsOpen(view')
         /\ \A k : CallOpen(k, view.open)' = CallOpen(k, view'.open)
         /\ \A k : HoldsApart(k)' = HoldsApart(k)
<1>1. This' = This
  BY DEF This
<1>2. ShowsOpen(view)' = ShowsOpen(view')
  BY <1>1 DEF ShowsOpen, Handler
<1>3. \A k : CallOpen(k, view.open)' = CallOpen(k, view'.open)
  BY <1>1 DEF CallOpen, Handler
<1>4. \A k : HoldsApart(k)' = HoldsApart(k)
  BY <1>1 DEF HoldsApart, SlotFlags, Handler
<1> QED BY <1>2, <1>3, <1>4

-----------------------------------------------------------------------------
(* What a page that is careful rules out                                   *)

LEMMA ThisCareful ==
  ASSUME AllCareful, page \in DOMAIN Site \ Mixing
  PROVE  Careful(This)
BY DEF AllCareful, This

LEMMA FillerKnown ==
  ASSUME Careful(This), NEW h \in DOMAIN This.handlers, Handler(h).slot # None
  PROVE  /\ Handler(h).kind = "fetch" /\ Handler(h).on = "open"
         /\ Handler(h).refused = "error" /\ Handler(h).lost = "error"
         /\ Handler(h).then = {} /\ h \notin Called(This)
         /\ Handler(h).flag \notin Recs \cup This.shared \cup {"record", None}
         /\ \A g \in DOMAIN This.handlers :
              Handler(g).flag = Handler(h).flag => Handler(g).slot = Handler(h).slot
BY DEF Careful, FillsOpen, Handler

LEMMA MarkerKnown ==
  ASSUME Careful(This), NEW h \in DOMAIN This.handlers, Handler(h).marks
  PROVE  /\ Handler(h).kind # "load" /\ Handler(h).on \in {"row", "open"} \cup Recs
         /\ h \notin Called(This) \cup Started(This)
BY DEF Careful, MarksItsOwn, Handler

\* The flag of a handler that fills a slot is raised by handlers of the same slot only.
LEMMA FillersFlag ==
  ASSUME Careful(This), NEW d \in DOMAIN This.handlers, NEW g \in DOMAIN This.handlers,
         NEW r \in Recs \cup {None},
         Handler(g).slot # None, FlagFor(Handler(d).flag, r) = Handler(g).flag
  PROVE  Handler(d).slot = Handler(g).slot
<1>1. /\ Handler(g).flag \notin Recs \cup This.shared \cup {"record", None}
      /\ \A f \in DOMAIN This.handlers :
           Handler(f).flag = Handler(g).flag => Handler(f).slot = Handler(g).slot
  BY FillerKnown
<1>2. Handler(d).flag = Handler(g).flag
  BY <1>1 DEF FlagFor
<1> QED BY <1>1, <1>2

LEMMA FillersFlagHeld ==
  ASSUME Careful(This), NEW k \in CallRecords, HoldsApart(k),
         NEW g \in DOMAIN This.handlers, Handler(g).slot # None,
         Handler(g).flag \in FlagsHeld(k) \cup SharedWith(FlagsHeld(k))
  PROVE  Handler(k.do).slot = Handler(g).slot
<1>1. Handler(g).flag \in SlotFlags /\ Handler(g).flag \notin This.shared
  BY FillerKnown DEF SlotFlags
<1>2. Handler(g).flag \in FlagsOf({k.do}, k.rec)
  BY <1>1 DEF SharedWith, FlagsHeld, HoldsApart
<1>3. k.do \in DOMAIN This.handlers /\ k.rec \in Recs \cup {None}
  BY DEF CallRecords
<1>4. FlagFor(Handler(k.do).flag, k.rec) = Handler(g).flag
  BY <1>2 DEF FlagsOf
<1> QED BY <1>3, <1>4, FillersFlag

-----------------------------------------------------------------------------
(* What a handler writes into the page                                     *)

LEMMA PatchedShows ==
  ASSUME Careful(This), NEW k \in CallRecords, NEW v \in Views, NEW how,
         ShowsOpen(v), CallOpen(k, v.open)
  PROVE  LET u == Patched(Handler(k.do), k, v, how) IN ShowsOpen(u) /\ u.open = v.open
<1> DEFINE h == Handler(k.do)
<1>1. k.do \in DOMAIN This.handlers /\ k.rec \in Recs \cup {None}
  BY DEF CallRecords
<1>2. ASSUME NEW r \in RowOf(k, v)
      PROVE  ShowsOpen(Rewritten(h, k, r, v, how)) /\ Rewritten(h, k, r, v, how).open = v.open
  <2> DEFINE u == Rewritten(h, k, r, v, how)
  <2>1. h.marks /\ k.open = r => r = v.open
    BY <1>1, <1>2 DEF CallOpen, RowOf, Recs, None
  <2>2. u.open = v.open /\ u.panel = v.panel /\ u.busy = v.busy
    BY DEF Rewritten, Views
  <2>3. \A s \in This.slots : u.slots[s] \in {v.slots[s], v.open}
    BY <2>1 DEF Rewritten, Views
  <2>4. v.panel \in DOMAIN This.panels /\ This.panels[v.panel].shows \subseteq This.slots
    BY DEF Views, Careful
  <2> HIDE DEF u
  <2>5. ShowsOpen(u)
    BY <2>2, <2>3, <2>4 DEF ShowsOpen
  <2> QED BY <2>2, <2>5 DEF u
<1>3. \A rows : ShowsOpen([v EXCEPT !.rows = rows]) /\ [v EXCEPT !.rows = rows].open = v.open
  BY DEF ShowsOpen, Views
<1> QED BY <1>2, <1>3 DEF Patched

LEMMA FilledShows ==
  ASSUME Careful(This), NEW k \in CallRecords, NEW v \in Views, ShowsOpen(v), CallOpen(k, v.open)
  PROVE  LET u == Filled(Handler(k.do), k, v) IN
         /\ ShowsOpen(u) /\ u.open = v.open
         /\ Handler(k.do).slot \in This.slots /\ Handler(k.do).slot # None =>
              u.slots[Handler(k.do).slot] = u.open
<1> DEFINE u == Filled(Handler(k.do), k, v)
<1>1. u.open = v.open /\ u.panel = v.panel /\ u.busy = v.busy
  BY DEF Filled, Views
<1>2. \A s \in This.slots : u.slots[s] \in {v.slots[s], v.open}
  BY DEF Filled, Views, CallOpen
<1>3. v.panel \in DOMAIN This.panels /\ This.panels[v.panel].shows \subseteq This.slots
  BY DEF Views, Careful
<1>4. Handler(k.do).slot \in This.slots /\ Handler(k.do).slot # None =>
        u.slots[Handler(k.do).slot] = v.open
  BY DEF Filled, Views, CallOpen
<1> HIDE DEF u
<1>5. ShowsOpen(u)
  BY <1>1, <1>2, <1>3 DEF ShowsOpen
<1> QED BY <1>1, <1>4, <1>5 DEF u

LEMMA ShutShows ==
  ASSUME Careful(This), NEW d \in DOMAIN This.handlers, NEW k, NEW v \in Views, ShowsOpen(v)
  PROVE  LET u == Shut(Handler(d), k, v) IN
         /\ ShowsOpen(u) /\ u.open = v.open /\ u.slots = v.slots
         /\ u # v => This.panels[u.panel].shows = {}
<1>1. \/ Shut(Handler(d), k, v) = v
      \/ /\ Shut(Handler(d), k, v) = [v EXCEPT !.panel = Handler(d).goto]
         /\ This.panels[Handler(d).goto].shows = {}
  BY DEF Shut, Careful, Handler
<1> QED BY <1>1 DEF ShowsOpen, Views

LEMMA LeftShows ==
  ASSUME Careful(This), NEW d \in DOMAIN This.handlers, view \in Views, ShowsOpen(view)
  PROVE  LET u == Left(Handler(d)) IN
         /\ ShowsOpen(u) /\ u.open = view.open /\ u.slots = view.slots
         /\ view.panel \in Handler(d).leaves => This.panels[u.panel].shows = {}
         /\ view.panel \notin Handler(d).leaves => u = view
<1>1. \/ view.panel \notin Handler(d).leaves /\ Left(Handler(d)) = view
      \/ /\ view.panel \in Handler(d).leaves
         /\ Left(Handler(d)) = [view EXCEPT !.panel = Handler(d).goto]
         /\ This.panels[Handler(d).goto].shows = {}
  BY DEF Left, Careful, Handler
<1> DEFINE u == Left(Handler(d))
<1>2. u.open = view.open /\ u.slots = view.slots
  BY <1>1 DEF Views
<1>3. view.panel \in Handler(d).leaves => This.panels[u.panel].shows = {}
  BY <1>1 DEF Views
<1> HIDE DEF u
<1>4. ShowsOpen(u)
  <2>1. CASE u = view
    BY <2>1
  <2>2. CASE This.panels[u.panel].shows = {}
    BY <2>2 DEF ShowsOpen
  <2> QED BY <1>1, <1>3, <2>1, <2>2 DEF u
<1> QED BY <1>1, <1>2, <1>3, <1>4 DEF u

\* Flags taken down do not uncover a slot that is not filled yet.
LEMMA SettleShows ==
  ASSUME Careful(This), NEW v \in Views, ShowsOpen(v), NEW fs,
         \A g \in DOMAIN This.handlers :
           \/ Handler(g).slot = None \/ Handler(g).flag \notin fs \cup SharedWith(fs)
           \/ Handler(g).slot \notin This.panels[v.panel].shows
           \/ ~Fetched(This, v.panel, Handler(g).slot)
           \/ v.slots[Handler(g).slot] \in {v.open, None}
  PROVE  ShowsOpen(Settle(v, fs)) /\ Settle(v, fs).open = v.open
<1> DEFINE u == Settle(v, fs)
<1>1. /\ u.open = v.open /\ u.panel = v.panel /\ u.slots = v.slots
      /\ u.busy = v.busy \ (fs \cup SharedWith(fs))
  BY DEF Settle, Views
<1>2. None \notin This.panels[v.panel].shows
  BY DEF Views, Careful
<1> HIDE DEF u
<1>3. ASSUME NEW s \in This.panels[u.panel].shows, u.slots[s] \notin {u.open, None}
      PROVE  /\ Fetched(This, u.panel, s)
             /\ \E h \in Fillers(This, s) :
                  Handler(h).flag \in u.busy \cap This.panels[u.panel].hidden
  <2>1. Fetched(This, v.panel, s)
    BY <1>1, <1>3 DEF ShowsOpen
  <2>2. PICK h \in Fillers(This, s) : Handler(h).flag \in v.busy \cap This.panels[v.panel].hidden
    BY <1>1, <1>3 DEF ShowsOpen
  <2>3. h \in DOMAIN This.handlers /\ Handler(h).slot = s
    BY DEF Fillers, Handler
  <2>4. Handler(h).flag \notin fs \cup SharedWith(fs)
    BY <1>1, <1>2, <1>3, <2>1, <2>3
  <2> QED BY <1>1, <2>1, <2>2, <2>4
<1>4. ShowsOpen(u)
  BY <1>3 DEF ShowsOpen
<1> QED BY <1>1, <1>4 DEF u

LEMMA RaisedShows ==
  ASSUME Careful(This), NEW v \in Views, ShowsOpen(v), NEW hs, NEW r
  PROVE  LET u == [v EXCEPT !.busy = WithFlags(@, hs, r)] IN ShowsOpen(u) /\ u.open = v.open
<1> DEFINE u == [v EXCEPT !.busy = WithFlags(@, hs, r)]
<1>1. /\ u.open = v.open /\ u.panel = v.panel /\ u.slots = v.slots
      /\ u.busy = WithFlags(v.busy, hs, r)
  BY DEF Views
<1>2. None \notin This.panels[v.panel].shows
  BY DEF Views, Careful
<1> HIDE DEF u
<1>3. ASSUME NEW s \in This.panels[u.panel].shows, u.slots[s] \notin {u.open, None}
      PROVE  /\ Fetched(This, u.panel, s)
             /\ \E h \in Fillers(This, s) :
                  Handler(h).flag \in u.busy \cap This.panels[u.panel].hidden
  <2>1. Fetched(This, v.panel, s)
    BY <1>1, <1>3 DEF ShowsOpen
  <2>2. PICK h \in Fillers(This, s) : Handler(h).flag \in v.busy \cap This.panels[v.panel].hidden
    BY <1>1, <1>3 DEF ShowsOpen
  <2>3. h \in DOMAIN This.handlers /\ Handler(h).slot # None
    BY <1>1, <1>2, <1>3 DEF Fillers, Handler
  <2>4. Handler(h).flag \notin This.shared
    BY <2>3, FillerKnown
  <2>5. Handler(h).flag \in u.busy
    BY <1>1, <2>2, <2>4 DEF WithFlags, Raised, SharedWith
  <2> QED BY <1>1, <2>1, <2>2, <2>5
<1>4. ShowsOpen(u)
  BY <1>3 DEF ShowsOpen
<1> QED BY <1>1, <1>4 DEF u

-----------------------------------------------------------------------------
(* Calls that begin                                                        *)

LEMMA CallsOfApart ==
  ASSUME NEW cs, NEW hs, NEW r, NEW v
  PROVE  \A k \in CallsOf(cs, hs, r, v) : HoldsApart(k)
BY DEF CallsOf, NewCall, HoldsApart

\* Handlers called on mount, by an interval or by another handler fill no slot and mark
\* no copy.
LEMMA CalledOpen ==
  ASSUME Careful(This), NEW hs \in SUBSET DOMAIN This.handlers, hs \subseteq Called(This),
         NEW k, k.do \in hs, NEW o
  PROVE  CallOpen(k, o)
BY FillerKnown, MarkerKnown DEF CallOpen

LEMMA CallsOfOpen ==
  ASSUME Careful(This), NEW cs, NEW hs \in SUBSET DOMAIN This.handlers, NEW r, NEW v \in Views,
         \A h \in hs :
           /\ Handler(h).slot # None => r = v.open
           /\ Handler(h).marks => r \in Recs
  PROVE  \A k \in CallsOf(cs, hs, r, v) : CallOpen(k, v.open)
<1> SUFFICES ASSUME NEW h \in hs
             PROVE  CallOpen(NewCall(cs, h, IF Handler(h).kind = "load" THEN None ELSE r, v),
                             v.open)
  BY DEF CallsOf
<1>1. Handler(h).slot # None => Handler(h).kind # "load"
  BY FillerKnown
<1>2. Handler(h).marks => Handler(h).kind # "load"
  BY MarkerKnown
<1> DEFINE k == NewCall(cs, h, IF Handler(h).kind = "load" THEN None ELSE r, v)
<1>3. /\ k.do = h /\ k.rec = (IF Handler(h).kind = "load" THEN None ELSE r)
      /\ Handler(h).marks => k.open = v.open
  BY DEF NewCall
<1> HIDE DEF k
<1>4. CallOpen(k, v.open)
  BY <1>1, <1>2, <1>3 DEF CallOpen
<1> QED BY <1>4 DEF k

-----------------------------------------------------------------------------
(* Steps                                                                   *)

\* After a step the invariant follows from what the step made of the page.
LEMMA DInvNext ==
  ASSUME TInv', page' = page, \A k \in calls' : HoldsApart(k),
         ~crossed' => ShowsOpen(view') /\ \A k \in calls' : CallOpen(k, view'.open)
  PROVE  DInv'
<1>1. /\ ShowsOpen(view)' = ShowsOpen(view')
      /\ \A k : CallOpen(k, view.open)' = CallOpen(k, view'.open)
      /\ \A k : HoldsApart(k)' = HoldsApart(k)
  BY SamePageToo
<1>2. \A k \in calls' : HoldsApart(k)'
  BY <1>1
<1>3. ~crossed' => \A k \in calls' : CallOpen(k, view.open)'
  BY <1>1
<1>4. ~crossed' => ShowsOpen(view)'
  BY <1>1
<1> QED BY <1>2, <1>3, <1>4 DEF DInv

LEMMA StartShows ==
  ASSUME AllTyped, Careful(This), page \in DOMAIN Site
  PROVE  /\ ShowsOpen(StartBusy) /\ StartBusy.open = None
         /\ \A k \in CallsOf({}, This.mount, None, Start(This)) :
              HoldsApart(k) /\ \A o : CallOpen(k, o)
<1>1. This.mount \subseteq DOMAIN This.handlers /\ This.mount \subseteq Called(This)
  BY StartTyped DEF Called
<1>2. This.first \in DOMAIN This.panels
  BY ThisSound DEF Closed
<1>3. StartBusy.open = None /\ StartBusy.panel = This.first
      /\ StartBusy.slots = [s \in This.slots |-> None]
  BY DEF StartBusy, Start
<1>4. This.panels[This.first].shows \subseteq This.slots
  BY <1>2 DEF Careful
<1>5. ShowsOpen(StartBusy)
  BY <1>3, <1>4 DEF ShowsOpen
<1>6. \A k \in CallsOf({}, This.mount, None, Start(This)) : k.do \in This.mount
  BY CallsOfKnown
<1> QED BY <1>1, <1>3, <1>5, <1>6, CallsOfApart, CalledOpen

LEMMA InitShows == AllTyped /\ AllCareful /\ page \notin Mixing /\ Init => DInv
<1> SUFFICES ASSUME AllTyped, AllCareful, page \notin Mixing, Init PROVE DInv
  OBVIOUS
<1>1. TInv /\ Careful(This) /\ page \in DOMAIN Site
  BY InitTyped, ThisCareful DEF Init
<1>2. view = StartBusy /\ calls = CallsOf({}, This.mount, None, Start(This))
  BY DEF Init
<1> QED BY <1>1, <1>2, StartShows DEF DInv

LEMMA BeginShows ==
  ASSUME AllTyped, Careful(This), DInv, TInv', page' = page,
         NEW hs \in SUBSET DOMAIN This.handlers, NEW r, NEW v \in Views, Begin(hs, r, v),
         ~crossed' => /\ ShowsOpen(v)
                      /\ \A k \in calls : CallOpen(k, v.open)
                      /\ \/ hs \subseteq Called(This)
                         \/ \A h \in hs : /\ Handler(h).slot # None => r = v.open
                                          /\ Handler(h).marks => r \in Recs
  PROVE  DInv'
<1>1. /\ view' = [v EXCEPT !.busy = WithFlags(@, hs, r)]
      /\ calls' = calls \cup CallsOf(calls, hs, r, v)
  BY DEF Begin
<1>2. \A k \in calls' : HoldsApart(k)
  BY <1>1, CallsOfApart DEF DInv
<1>3. ASSUME ~crossed'
      PROVE  ShowsOpen(view') /\ \A k \in calls' : CallOpen(k, view'.open)
  <2>1. ShowsOpen(view') /\ view'.open = v.open
    BY <1>1, <1>3, RaisedShows
  <2>2. \A k \in CallsOf(calls, hs, r, v) : CallOpen(k, v.open)
    <3>1. CASE hs \subseteq Called(This)
      BY <3>1, CallsOfKnown, CalledOpen
    <3>2. CASE \A h \in hs : /\ Handler(h).slot # None => r = v.open
                             /\ Handler(h).marks => r \in Recs
      BY <3>2, CallsOfOpen
    <3> QED BY <1>3, <3>1, <3>2
  <2> QED BY <1>1, <1>3, <2>1, <2>2
<1> QED BY <1>2, <1>3, DInvNext

LEMMA PressShows ==
  ASSUME AllTyped, Careful(This), DInv, NEW b \in PanelNow.buttons, NEW r \in Recs \cup {None},
         Press(Handler(b.do), b, r)
  PROVE  DInv'
<1> DEFINE h == Handler(b.do)
<1>1. page \in DOMAIN Site /\ view \in Views /\ IsFiniteSet(calls) /\ TInv
  BY TInvParts DEF DInv
<1>2. b.do \in DOMAIN This.handlers /\ h.then \subseteq DOMAIN This.handlers
  BY <1>1, ThisTyped DEF PanelNow, Views, Closed, Handler
<1>3. TInv' /\ page' = page /\ crossed' = crossed
  BY <1>1, PressTyped DEF Press
<1>4. h.slot # None => r = view.open
  <2> SUFFICES ASSUME h.slot # None PROVE r = view.open
    OBVIOUS
  <2>1. h.on = "open"
    BY <1>2, FillerKnown
  <2> QED BY <2>1 DEF Press, Subjects, Recs
<1>5. h.marks => r \in Recs
  <2> SUFFICES ASSUME h.marks PROVE r \in Recs
    OBVIOUS
  <2>1. h.on \in {"row", "open"} \cup Recs
    BY <1>2, MarkerKnown
  <2> QED BY <2>1 DEF Press, Subjects, Recs
<1>6. CASE h.kind # "local"
  <2>1. Begin({b.do}, r, view)
    BY <1>6 DEF Press
  <2> QED BY <1>1, <1>2, <1>3, <1>4, <1>5, <2>1, BeginShows DEF DInv
<1>7. CASE h.kind = "local"
  <2> DEFINE k == NewCall(calls, b.do, r, view)
             u == Patched(h, k, view, h.patch)
  <2>1. Begin(h.then, r, Shut(h, k, u))
    BY <1>7 DEF Press, BeginLocal
  <2>2. k \in CallRecords /\ k.do = b.do
    BY <1>1, <1>2, NewCallTyped DEF NewCall
  <2>3. CallOpen(k, view.open)
    BY <1>4, <1>5 DEF CallOpen, NewCall
  <2> HIDE DEF k
  <2>4. u \in Views
    BY <1>1, <1>2, <2>2, PatchedTyped
  <2>5. ~crossed => ShowsOpen(u) /\ u.open = view.open
    BY <1>1, <2>2, <2>3, PatchedShows DEF DInv
  <2> HIDE DEF u
  <2>6. Shut(h, k, u) \in Views
    BY <1>1, <1>2, <2>4, ShutTyped
  <2>7. ~crossed => ShowsOpen(Shut(h, k, u)) /\ Shut(h, k, u).open = view.open
    BY <1>2, <2>4, <2>5, ShutShows
  <2>8. h.then \subseteq Called(This)
    BY <1>2 DEF Called, Handler
  <2> QED BY <1>2, <1>3, <2>1, <2>6, <2>7, <2>8, BeginShows DEF DInv
<1> QED BY <1>6, <1>7

LEMMA ClickShows ==
  ASSUME AllTyped, Careful(This), DInv, NEW m \in PanelNow.moves, NEW r \in Recs \cup {None},
         Click(m, r)
  PROVE  DInv'
<1>1. page \in DOMAIN Site /\ view \in Views /\ TInv
  BY TInvParts DEF DInv
<1>2. /\ m.starts \subseteq DOMAIN This.handlers /\ m.to \in DOMAIN This.panels
      /\ m \in Entries(This, m.to) /\ m.starts \subseteq Started(This)
  <2>1. view.panel \in DOMAIN This.panels /\ m \in This.panels[view.panel].moves
    BY <1>1 DEF PanelNow, Views
  <2>2. m.starts \subseteq DOMAIN This.handlers /\ m.to \in DOMAIN This.panels
    BY <1>1, <2>1, ThisTyped DEF Closed
  <2>3. m \in UNION {This.panels[o].moves : o \in DOMAIN This.panels}
    BY <2>1
  <2> QED BY <2>2, <2>3 DEF Entries, Started
<1>3. TInv' /\ page' = page
  BY <1>1, ClickTyped DEF Click
<1> DEFINE v == Clicked(m, r)
           new == CallsOf(calls, m.starts, r, v)
<1>4. /\ view' = [v EXCEPT !.busy = WithFlags(@, m.starts, r)] /\ calls' = calls \cup new
      /\ crossed' = (crossed \/ \E k \in calls :
                       k.rec # r /\ (Handler(k.do).slot # None \/ Handler(k.do).marks))
  BY DEF Click, Begin
<1>5. /\ v.open = r /\ v.panel = m.to /\ v.busy = view.busy
      /\ \A s \in This.slots : v.slots[s] = IF s \in m.empties THEN None
                                            ELSE IF s \in m.fills THEN r ELSE view.slots[s]
  BY <1>1 DEF Clicked, Views
<1>6. /\ view'.open = r /\ view'.panel = m.to /\ view'.slots = v.slots
      /\ view'.busy = WithFlags(view.busy, m.starts, r)
  BY <1>1, <1>4, <1>5 DEF Clicked, Views
<1>7. \A k \in new : HoldsApart(k)
  BY CallsOfApart
<1>8. \A k \in new : CallOpen(k, r)
  <2> SUFFICES ASSUME NEW h \in m.starts
               PROVE  CallOpen(NewCall(calls, h, IF Handler(h).kind = "load" THEN None ELSE r, v),
                               r)
    BY DEF CallsOf
  <2>1. ~Handler(h).marks
    BY <1>2, MarkerKnown
  <2>2. Handler(h).slot # None => Handler(h).kind # "load"
    BY <1>2, FillerKnown
  <2> HIDE DEF v
  <2> QED BY <2>1, <2>2 DEF CallOpen, NewCall
<1> HIDE DEF v, new
<1>9. ~crossed' => \A k \in calls' : CallOpen(k, r)
  BY <1>4, <1>8 DEF DInv, CallOpen
<1>10. ShowsOpen(view')
  <2> SUFFICES ASSUME NEW s \in This.panels[m.to].shows
               PROVE  \/ view'.slots[s] = None
                      \/ /\ Fetched(This, m.to, s)
                         /\ \E h \in Fillers(This, s) :
                              Handler(h).flag \in view'.busy \cap This.panels[m.to].hidden
    BY <1>6 DEF ShowsOpen
  <2>1. s \in This.slots /\ s # None /\ (Emptied(This, m.to, s) \/ Fetched(This, m.to, s))
    BY <1>2 DEF Careful
  <2>2. CASE Emptied(This, m.to, s)
    BY <1>2, <1>5, <1>6, <2>1, <2>2 DEF Emptied
  <2>3. CASE Fetched(This, m.to, s)
    <3>1. PICK h \in m.starts \cap Fillers(This, s) : Handler(h).flag \in This.panels[m.to].hidden
      BY <1>2, <2>3 DEF Fetched, Handler
    <3>2. h \in DOMAIN This.handlers /\ Handler(h).slot # None
      BY <2>1, <3>1 DEF Fillers, Handler
    <3>3. Handler(h).flag # "record" /\ Handler(h).flag # None
      BY <3>2, FillerKnown
    <3>4. Handler(h).flag \in FlagsOf(m.starts, r)
      BY <3>1, <3>3 DEF FlagsOf, FlagFor
    <3>5. Handler(h).flag \in view'.busy
      BY <1>6, <3>4 DEF WithFlags, Raised
    <3> QED BY <2>3, <3>1, <3>5
  <2> QED BY <2>1, <2>2, <2>3
<1>11. \A k \in calls' : HoldsApart(k)
  BY <1>4, <1>7 DEF DInv
<1> QED BY <1>3, <1>6, <1>9, <1>10, <1>11, DInvNext

LEMMA PollShows ==
  ASSUME AllTyped, Careful(This), DInv, NEW h \in This.polls, Poll(h)
  PROVE  DInv'
<1>1. page \in DOMAIN Site /\ view \in Views /\ TInv
  BY TInvParts DEF DInv
<1>2. {h} \subseteq DOMAIN This.handlers /\ {h} \subseteq Called(This) /\ Begin({h}, None, view)
  BY <1>1, ThisTyped DEF Poll, Closed, Called
<1>3. TInv' /\ page' = page /\ crossed' = crossed
  BY <1>1, PollTyped DEF Poll
<1> QED BY <1>1, <1>2, <1>3, BeginShows DEF DInv

LEMMA ReloadShows == ASSUME AllTyped, Careful(This), DInv, Reload PROVE DInv'
<1>1. page \in DOMAIN Site /\ TInv
  BY TInvParts DEF DInv
<1>2. TInv' /\ page' = page /\ calls' = CallsOf({}, This.mount, None, Start(This))
  BY <1>1, ReloadTyped DEF Reload
<1>3. /\ StartBusy \in Views /\ ShowsOpen(StartBusy)
      /\ \A k \in CallsOf({}, This.mount, None, Start(This)) :
           HoldsApart(k) /\ \A o : CallOpen(k, o)
  BY <1>1, StartShows, StartTyped
<1>4. /\ view'.panel = StartBusy.panel /\ view'.slots = StartBusy.slots
      /\ view'.open = StartBusy.open /\ view'.busy = StartBusy.busy
  BY <1>3 DEF Reload, Views
<1>5. ShowsOpen(view')
  BY <1>3, <1>4 DEF ShowsOpen
<1> QED BY <1>2, <1>3, <1>5, DInvNext

\* A call is replaced by one of the same handler, for the same record.
LEMMA BecomeShows ==
  ASSUME DInv, TInv', page' = page, view' = view, crossed' = crossed,
         NEW k \in calls, NEW l, Become(k, l),
         l.do = k.do, l.holds = k.holds, l.open = k.open,
         l.rec = k.rec \/ (Handler(k.do).slot = None /\ ~Handler(k.do).marks)
  PROVE  DInv'
<1>1. HoldsApart(k) => HoldsApart(l)
  BY DEF HoldsApart
<1>2. CallOpen(k, view.open) => CallOpen(l, view.open)
  BY DEF CallOpen
<1> QED BY <1>1, <1>2, DInvNext DEF DInv, Become

LEMMA ServeShows ==
  ASSUME AllTyped, Careful(This), DInv, NEW k \in calls, Serve(Handler(k.do), k)
  PROVE  DInv'
<1> DEFINE h == Handler(k.do)
<1>1. TInv /\ k \in CallRecords
  BY TInvParts DEF DInv
<1>2. TInv' /\ page' = page /\ view' = view /\ crossed' = crossed
  BY <1>1, ServeTyped DEF Serve
<1>3. k.do \in DOMAIN This.handlers
  BY <1>1 DEF CallRecords
<1>4. CASE ServeLoad(h, k)
  <2> DEFINE l == [k EXCEPT !.phase = "ok", !.data = docs]
  <2>1. Become(k, l)
    BY <1>4 DEF ServeLoad
  <2>2. l.do = k.do /\ l.holds = k.holds /\ l.open = k.open /\ l.rec = k.rec
    BY <1>1 DEF CallRecords
  <2> HIDE DEF l
  <2> QED BY <1>2, <2>1, <2>2, BecomeShows
<1>5. CASE ServeFetch(h, k) \/ ServeAsk(h, k)
  <2> DEFINE l == [k EXCEPT !.phase = "ok"]
  <2>1. Become(k, l)
    BY <1>5 DEF ServeFetch, ServeAsk
  <2>2. l.do = k.do /\ l.holds = k.holds /\ l.open = k.open /\ l.rec = k.rec
    BY <1>1 DEF CallRecords
  <2> HIDE DEF l
  <2> QED BY <1>2, <2>1, <2>2, BecomeShows
<1>6. ASSUME NEW r \in Recs, ServePost(h, k, r) PROVE DInv'
  <2> DEFINE l == [k EXCEPT !.rec = r, !.phase = "ok",
                            !.data = IF h.patch = "answer" THEN docs' ELSE NoRows]
  <2>1. Become(k, l)
    BY <1>6 DEF ServePost
  <2>2. l.do = k.do /\ l.holds = k.holds /\ l.open = k.open /\ l.rec = r
    BY <1>1 DEF CallRecords
  <2> HIDE DEF l
  <2>3. h.slot = None
    BY <1>3, <1>6, FillerKnown DEF ServePost
  <2>4. h.marks => r = k.rec
    <3>1. h.marks => h.on # "new"
      BY <1>3, MarkerKnown DEF Recs
    <3> QED BY <1>6, <3>1 DEF ServePost
  <2> QED BY <1>2, <2>1, <2>2, <2>3, <2>4, BecomeShows
<1> QED BY <1>4, <1>5, <1>6 DEF Serve

LEMMA ArriveShows ==
  ASSUME AllTyped, Careful(This), DInv, NEW k \in calls, Arrive(Handler(k.do), k)
  PROVE  DInv'
<1> DEFINE h == Handler(k.do)
           waits == Waits(h)
           patched == Patched(h, k, view, h.patch)
           filled == Filled(h, k, patched)
           done == Shut(h, k, filled)
           settled == IF waits THEN done ELSE Settle(done, FlagsHeld(k))
           new == CallsOf(calls, h.then, k.rec, settled)
           given(l) == [l EXCEPT !.holds = IF waits THEN FlagsHeld(k) ELSE {}]
<1>1. page \in DOMAIN Site /\ view \in Views /\ k \in CallRecords /\ TInv /\ HoldsApart(k)
  BY TInvParts DEF DInv
<1>2. /\ k.do \in DOMAIN This.handlers /\ h.then \subseteq DOMAIN This.handlers
      /\ h.then \subseteq Called(This) /\ k.rec \in Recs \cup {None}
  BY <1>1, ThisTyped DEF CallRecords, Closed, Handler, Called
<1>3. /\ view' = [settled EXCEPT !.busy = WithFlags(@, h.then, k.rec)]
      /\ calls' = (calls \ {k}) \cup {given(l) : l \in new}
      /\ page' = page /\ crossed' = crossed
  BY DEF Arrive, Succeeds, Done, GoesOn, CallsNext
<1>4. TInv'
  BY <1>1, ArriveTyped
<1>5. patched \in Views
  BY <1>1, <1>2, PatchedTyped
<1>6. ~crossed => ShowsOpen(patched) /\ patched.open = view.open
  BY <1>1, PatchedShows DEF DInv
<1>7. filled \in Views
  <2> HIDE DEF patched
  <2> QED BY <1>1, <1>5, FilledTyped
<1>8. ~crossed => /\ ShowsOpen(filled) /\ filled.open = view.open
                  /\ h.slot \in This.slots /\ h.slot # None => filled.slots[h.slot] = filled.open
  <2> HIDE DEF patched
  <2> QED BY <1>1, <1>5, <1>6, FilledShows DEF DInv
<1>9. done \in Views
  <2> HIDE DEF filled
  <2> QED BY <1>1, <1>2, <1>7, ShutTyped
<1>10. ~crossed => /\ ShowsOpen(done) /\ done.open = view.open
                   /\ h.slot \in This.slots /\ h.slot # None => done.slots[h.slot] = done.open
  <2> HIDE DEF filled
  <2> QED BY <1>2, <1>7, <1>8, ShutShows
<1>11. \A g \in DOMAIN This.handlers :
         Handler(g).slot # None /\ Handler(g).flag \in FlagsHeld(k) \cup SharedWith(FlagsHeld(k))
           => h.slot = Handler(g).slot
  BY <1>1, FillersFlagHeld
<1> HIDE DEF done
<1>12. settled \in Views
  BY <1>9, SettleTyped
<1>13. ASSUME ~crossed PROVE ShowsOpen(settled) /\ settled.open = view.open
  <2>1. CASE waits
    BY <1>10, <1>13, <2>1
  <2>2. CASE ~waits
    <3>1. This.panels[done.panel].shows \subseteq This.slots
      BY <1>9 DEF Views, Careful
    <3>2. \A g \in DOMAIN This.handlers :
            \/ Handler(g).slot = None
            \/ Handler(g).flag \notin FlagsHeld(k) \cup SharedWith(FlagsHeld(k))
            \/ Handler(g).slot \notin This.panels[done.panel].shows
            \/ done.slots[Handler(g).slot] \in {done.open, None}
      BY <1>10, <1>11, <1>13, <3>1
    <3>3. ShowsOpen(Settle(done, FlagsHeld(k))) /\ Settle(done, FlagsHeld(k)).open = done.open
      BY <1>9, <1>10, <1>13, <3>2, SettleShows
    <3> QED BY <1>10, <1>13, <2>2, <3>3
  <2> QED BY <2>1, <2>2
<1> HIDE DEF settled
<1>14. ~crossed => ShowsOpen(view') /\ view'.open = view.open
  BY <1>3, <1>12, <1>13, RaisedShows
<1>15. \A l \in new : l.do \in h.then /\ l \in CallRecords
  <2>1. IsFiniteSet(calls)
    BY <1>1, TInvParts
  <2>2. new \subseteq CallRecords
    BY <1>1, <1>2, <1>12, <2>1, CallsOfTyped
  <2> QED BY <2>2, CallsOfKnown
<1> HIDE DEF new
<1>16. \A l \in new : given(l).do \in h.then
  BY <1>15 DEF CallRecords
<1>17. \A l \in new : \A o : CallOpen(given(l), o)
  <2> HIDE DEF given
  <2> QED BY <1>2, <1>16, CalledOpen
<1>18. waits => FlagsHeld(k) \cap SlotFlags = {}
  <2> SUFFICES ASSUME waits, NEW f \in FlagsHeld(k), f \in SlotFlags PROVE FALSE
    OBVIOUS
  <2>1. PICK g \in DOMAIN This.handlers : Handler(g).slot # None /\ f = Handler(g).flag
    BY DEF SlotFlags
  <2>2. h.slot # None
    BY <1>11, <2>1
  <2>3. h.then = {}
    BY <1>2, <2>2, FillerKnown
  <2> QED BY <2>3 DEF Waits
<1>19. \A l \in new : HoldsApart(given(l))
  <2>1. \A l \in new : given(l).holds = IF waits THEN FlagsHeld(k) ELSE {}
    BY <1>15 DEF CallRecords
  <2> HIDE DEF given
  <2> QED BY <1>18, <2>1 DEF HoldsApart
<1> HIDE DEF given
<1>20. \A l \in calls' : HoldsApart(l)
  BY <1>3, <1>19 DEF DInv
<1>21. ~crossed => \A l \in calls' : CallOpen(l, view.open)
  BY <1>3, <1>17 DEF DInv
<1> QED BY <1>3, <1>4, <1>14, <1>20, <1>21, DInvNext

LEMMA FailShows ==
  ASSUME AllTyped, Careful(This), DInv, NEW k \in calls, NEW how \in {"refused", "lost"},
         Fail(Handler(k.do), k, how)
  PROVE  DInv'
<1> DEFINE h == Handler(k.do)
<1>1. page \in DOMAIN Site /\ view \in Views /\ k \in CallRecords /\ TInv /\ HoldsApart(k)
  BY TInvParts DEF DInv
<1>2. k.do \in DOMAIN This.handlers
  BY <1>1 DEF CallRecords
<1>3. TInv' /\ page' = page /\ crossed' = crossed /\ calls' = calls \ {k}
  BY <1>1, FailTyped DEF Fail
<1>4. \A g \in DOMAIN This.handlers :
        Handler(g).slot # None /\ Handler(g).flag \in FlagsHeld(k) \cup SharedWith(FlagsHeld(k))
          => h.slot = Handler(g).slot
  BY <1>1, FillersFlagHeld
<1>5. ASSUME ~crossed PROVE ShowsOpen(view') /\ view'.open = view.open
  <2>1. CASE h[how] = "error"
    <3> DEFINE u == Left(h)
    <3>1. Gives(h, k) /\ u \in Views
      BY <1>1, <1>2, <2>1, ThisSound DEF Fail, Left, Views, Closed, Handler
    <3>2. /\ ShowsOpen(u) /\ u.open = view.open /\ u.slots = view.slots
          /\ view.panel \in h.leaves => This.panels[u.panel].shows = {}
          /\ view.panel \notin h.leaves => u = view
      BY <1>1, <1>2, <1>5, LeftShows DEF DInv
    <3> HIDE DEF u
    <3>3. \A g \in DOMAIN This.handlers :
            \/ Handler(g).slot = None
            \/ Handler(g).flag \notin FlagsHeld(k) \cup SharedWith(FlagsHeld(k))
            \/ Handler(g).slot \notin This.panels[u.panel].shows
            \/ ~Fetched(This, u.panel, Handler(g).slot)
      <4> SUFFICES ASSUME NEW g \in DOMAIN This.handlers, Handler(g).slot # None,
                          Handler(g).flag \in FlagsHeld(k) \cup SharedWith(FlagsHeld(k)),
                          Fetched(This, u.panel, Handler(g).slot)
                   PROVE  Handler(g).slot \notin This.panels[u.panel].shows
        OBVIOUS
      <4>1. k.do \in Fillers(This, Handler(g).slot)
        BY <1>2, <1>4 DEF Fillers, Handler
      <4>2. u.panel \in h.leaves
        BY <4>1 DEF Fetched, Handler
      <4> QED BY <3>2, <4>2
    <3>4. ShowsOpen(Settle(u, FlagsHeld(k))) /\ Settle(u, FlagsHeld(k)).open = u.open
      BY <3>1, <3>2, <3>3, SettleShows
    <3>5. view' \in {u, Settle(u, FlagsHeld(k))}
      BY <3>1 DEF Gives, u
    <3> QED BY <3>2, <3>4, <3>5
  <2>2. CASE h[how] # "error"
    <3> DEFINE u == Patched(h, k, view, IF Spared(h, k, view) THEN "none" ELSE h[how])
               v == Shut(h, k, u)
    <3>1. view' = Settle(v, FlagsHeld(k))
      BY <2>2 DEF Fail, Pretends
    <3>2. u \in Views
      BY <1>1, <1>2, PatchedTyped
    <3>3. ShowsOpen(u) /\ u.open = view.open
      BY <1>1, <1>5, PatchedShows DEF DInv
    <3> HIDE DEF u
    <3>4. v \in Views
      BY <1>1, <1>2, <3>2, ShutTyped
    <3>5. ShowsOpen(v) /\ v.open = view.open
      BY <1>2, <3>2, <3>3, ShutShows
    <3> HIDE DEF v
    <3>6. h.slot = None
      BY <1>2, <2>2, FillerKnown
    <3> QED BY <1>4, <3>1, <3>4, <3>5, <3>6, SettleShows
  <2> QED BY <2>1, <2>2
<1> QED BY <1>3, <1>5, DInvNext DEF DInv

LEMMA UnseenShows ==
  ASSUME DInv, TInv', page' = page, view' = view, calls' = calls, crossed' = crossed
  PROVE  DInv'
BY DInvNext DEF DInv

LEMMA StepShows == AllTyped /\ AllCareful /\ page \notin Mixing /\ DInv /\ [Next]_vars => DInv'
<1> SUFFICES ASSUME AllTyped, AllCareful, page \notin Mixing, DInv, [Next]_vars PROVE DInv'
  OBVIOUS
<1>1. TInv /\ Careful(This)
  BY TInvParts, ThisCareful DEF DInv
<1>2. TInv'
  BY <1>1, StepTyped
<1>3. CASE UserStep
  BY <1>1, <1>3, PressShows, ClickShows, PollShows, ReloadShows DEF UserStep
<1>4. ASSUME NEW k \in calls, CallStep(Handler(k.do), k)
      PROVE  DInv'
  BY <1>1, <1>4, ServeShows, ArriveShows, FailShows DEF CallStep
<1>5. ASSUME NEW r, NEW s, Elsewhere(r, s) PROVE DInv'
  BY <1>2, <1>5, UnseenShows DEF Elsewhere
<1>6. CASE UNCHANGED vars
  BY <1>2, <1>6, UnseenShows DEF vars
<1> QED BY <1>3, <1>4, <1>5, <1>6 DEF Next

LEMMA PageStays == page \in DOMAIN Site /\ [Next]_vars => page' = page
<1> SUFFICES ASSUME [Next]_vars PROVE page' = page
  OBVIOUS
<1> QED BY DEF Next, UserStep, CallStep, Press, Click, Poll, Reload, Serve, Arrive, Fail,
               Elsewhere, vars

\* A drawer or dialog shows details of the record it was opened for, unless another was opened
\* while an answer was on its way, on every site whose pages are careful: each way into a
\* panel empties its slots or fetches them behind a spinner.
THEOREM DetailsMatch == AllTyped /\ AllCareful => (Spec => []Details)
<1> SUFFICES ASSUME AllTyped, AllCareful PROVE Spec => []Details
  OBVIOUS
<1> DEFINE I == TInv /\ (page \notin Mixing => DInv)
<1>1. Init => I
  BY InitTyped, InitShows
<1>2. I /\ [Next]_vars => I'
  <2> SUFFICES ASSUME I, [Next]_vars PROVE I'
    OBVIOUS
  <2>1. TInv' /\ page' = page
    BY StepTyped, PageStays, TInvParts
  <2>2. page \notin Mixing => DInv'
    BY StepShows
  <2> QED BY <2>1, <2>2
<1>3. I => Details
  <2> SUFFICES ASSUME I, page \notin Mixing, ~crossed,
                      NEW s \in PanelNow.shows, PanelNow.hidden \cap view.busy = {}
               PROVE  view.slots[s] \in {view.open, None}
    BY DEF Details
  <2>1. ShowsOpen(view)
    BY DEF DInv
  <2> QED BY <2>1 DEF ShowsOpen, PanelNow
<1> HIDE DEF I
<1> QED BY <1>1, <1>2, <1>3, PTL DEF Spec

-----------------------------------------------------------------------------
(* Quiet lists                                                             *)
(*                                                                         *)
(* While the rows may differ from the records, a load is in flight, or a   *)
(* post that was served and will call one.  A load that was served and is  *)
(* not missed carries the records as they are.                             *)

LoadPending == \E k \in calls : Handler(k.do).kind = "load"
PostServed == \E k \in calls : Handler(k.do).kind = "post" /\ k.phase = "ok"
AnswersFresh == \A k \in calls : Handler(k.do).kind = "load" /\ k.phase = "ok" => k.data = docs

QInv ==
  /\ TInv
  /\ ~missed => AnswersFresh /\ (LoadPending \/ PostServed \/ view.rows = docs)

LEMMA ThisReloads ==
  ASSUME AllReload, page \in DOMAIN Site \ Drifting, Lists(This)
  PROVE  Reloads(This)
BY DEF AllReload, This

LEMMA HandlerReloads ==
  ASSUME Reloads(This), NEW h \in DOMAIN This.handlers
  PROVE  /\ \/ Handler(h).kind = "load"
            \/ {Handler(h).refused, Handler(h).lost} \subseteq {"error", "none"}
         /\ \/ Handler(h).kind = "load" /\ Handler(h).patch = "answer"
            \/ Handler(h).kind # "load" /\ \E l \in Handler(h).then : Handler(l).kind = "load"
            \/ Handler(h).kind \notin {"load", "post"} /\ Handler(h).patch = "none"
BY DEF Reloads, Loads, Handler

\* After a step the invariant follows from what the step made of the page.
LEMMA QInvNext ==
  ASSUME TInv', page' = page,
         ~missed' =>
           /\ \A k \in calls' : Handler(k.do).kind = "load" /\ k.phase = "ok" => k.data = docs'
           /\ \/ \E k \in calls' : Handler(k.do).kind = "load"
              \/ \E k \in calls' : Handler(k.do).kind = "post" /\ k.phase = "ok"
              \/ view'.rows = docs'
  PROVE  QInv'
<1>1. \A h : Handler(h)' = Handler(h)
  BY DEF Handler, This
<1> QED BY <1>1 DEF QInv, AnswersFresh, LoadPending, PostServed

\* Calls that begin are not answered yet; a load that begins is in flight.
LEMMA CallsOfSent ==
  ASSUME NEW cs, NEW hs, NEW r, NEW v
  PROVE  /\ \A k \in CallsOf(cs, hs, r, v) : k.phase = "sent"
         /\ \A h \in hs : \E k \in CallsOf(cs, hs, r, v) : k.do = h
<1>1. \A k \in CallsOf(cs, hs, r, v) : k.phase = "sent"
  BY DEF CallsOf, NewCall
<1>2. ASSUME NEW h \in hs PROVE \E k \in CallsOf(cs, hs, r, v) : k.do = h
  <2> DEFINE k == NewCall(cs, h, IF Handler(h).kind = "load" THEN None ELSE r, v)
  <2>1. k \in CallsOf(cs, hs, r, v)
    BY DEF CallsOf
  <2>2. k.do = h
    BY DEF NewCall
  <2> QED BY <2>1, <2>2
<1> QED BY <1>1, <1>2

LEMMA RowsKept ==
  ASSUME NEW h, NEW k, NEW v \in Views, NEW fs
  PROVE  /\ Patched(h, k, v, "none").rows = v.rows
         /\ Filled(h, k, v).rows = v.rows /\ Shut(h, k, v).rows = v.rows
         /\ Settle(v, fs).rows = v.rows
BY DEF Patched, TakesAnswer, Filled, Shut, Settle, Views

LEMMA BeginQuiet ==
  ASSUME Reloads(This), QInv, TInv', page' = page, docs' = docs, missed' = missed,
         NEW hs, NEW r, NEW v \in Views, Begin(hs, r, v),
         v.rows = view.rows \/ \E h \in hs : Handler(h).kind = "load"
  PROVE  QInv'
<1> DEFINE new == CallsOf(calls, hs, r, v)
<1>1. calls' = calls \cup new /\ view'.rows = v.rows
  BY DEF Begin, Views
<1>2. /\ \A k \in new : k.phase = "sent"
      /\ \A h \in hs : \E k \in new : k.do = h
  BY CallsOfSent
<1> HIDE DEF new
<1> QED BY <1>1, <1>2, QInvNext DEF QInv, AnswersFresh, LoadPending, PostServed

LEMMA PressQuiet ==
  ASSUME AllTyped, Reloads(This), QInv, NEW b \in PanelNow.buttons, NEW r \in Recs \cup {None},
         Press(Handler(b.do), b, r)
  PROVE  QInv'
<1> DEFINE h == Handler(b.do)
<1>1. page \in DOMAIN Site /\ view \in Views /\ IsFiniteSet(calls) /\ TInv
  BY TInvParts DEF QInv
<1>2. b.do \in DOMAIN This.handlers
  BY <1>1, ThisTyped DEF PanelNow, Views, Closed
<1>3. TInv' /\ page' = page /\ docs' = docs /\ missed' = missed
  BY <1>1, PressTyped DEF Press
<1>4. CASE h.kind # "local"
  BY <1>1, <1>3, <1>4, BeginQuiet DEF Press
<1>5. CASE h.kind = "local"
  <2> DEFINE k == NewCall(calls, b.do, r, view)
             u == Patched(h, k, view, h.patch)
  <2>1. Begin(h.then, r, Shut(h, k, u))
    BY <1>5 DEF Press, BeginLocal
  <2>2. k \in CallRecords
    BY <1>1, <1>2, NewCallTyped
  <2> HIDE DEF k
  <2>3. u \in Views
    BY <1>1, <1>2, <2>2, PatchedTyped
  <2>4. u.rows = view.rows \/ \E l \in h.then : Handler(l).kind = "load"
    BY <1>1, <1>2, <1>5, HandlerReloads, RowsKept
  <2> HIDE DEF u
  <2>5. Shut(h, k, u) \in Views /\ Shut(h, k, u).rows = u.rows
    BY <1>1, <1>2, <2>3, ShutTyped, RowsKept
  <2> QED BY <1>3, <2>1, <2>4, <2>5, BeginQuiet
<1> QED BY <1>4, <1>5

LEMMA ClickQuiet ==
  ASSUME AllTyped, Reloads(This), QInv, NEW m \in PanelNow.moves, NEW r \in Recs \cup {None},
         Click(m, r)
  PROVE  QInv'
<1>1. view \in Views /\ TInv
  BY TInvParts DEF QInv
<1>2. TInv' /\ page' = page /\ docs' = docs /\ missed' = missed
  BY <1>1, ClickTyped DEF Click
<1> DEFINE v == Clicked(m, r)
           new == CallsOf(calls, m.starts, r, v)
<1>3. calls' = calls \cup new /\ view'.rows = view.rows
  BY <1>1 DEF Click, Clicked, Begin, Views
<1>4. \A k \in new : k.phase = "sent"
  BY CallsOfSent
<1> HIDE DEF v, new
<1> QED BY <1>2, <1>3, <1>4, QInvNext DEF QInv, AnswersFresh, LoadPending, PostServed

LEMMA PollQuiet ==
  ASSUME AllTyped, Reloads(This), QInv, NEW h \in This.polls, Poll(h)
  PROVE  QInv'
<1>1. TInv /\ TInv' /\ view \in Views
  BY PollTyped, TInvParts DEF QInv
<1>2. /\ page' = page /\ docs' = docs /\ missed' = missed
      /\ Begin({h}, None, view)
  BY DEF Poll
<1> QED BY <1>1, <1>2, BeginQuiet

\* The page is mounted with a load on its way.
LEMMA MountQuiet ==
  ASSUME Reloads(This)
  PROVE  LET cs == CallsOf({}, This.mount, None, Start(This)) IN
         /\ \A k \in cs : k.phase = "sent"
         /\ \E k \in cs : Handler(k.do).kind = "load"
<1>1. PICK h \in This.mount : Handler(h).kind = "load"
  BY DEF Reloads, Loads, Handler
<1> QED BY <1>1, CallsOfSent

LEMMA ReloadQuiet == ASSUME AllTyped, Reloads(This), QInv, Reload PROVE QInv'
<1>1. TInv' /\ page' = page /\ calls' = CallsOf({}, This.mount, None, Start(This))
  BY ReloadTyped DEF Reload, QInv
<1> QED BY <1>1, MountQuiet, QInvNext

LEMMA ServeQuiet ==
  ASSUME AllTyped, Reloads(This), QInv, NEW k \in calls, Serve(Handler(k.do), k)
  PROVE  QInv'
<1> DEFINE h == Handler(k.do)
<1>1. TInv /\ k \in CallRecords
  BY TInvParts DEF QInv
<1>2. TInv' /\ page' = page /\ view' = view
  BY <1>1, ServeTyped DEF Serve
<1>3. CASE ServeLoad(h, k)
  <2> DEFINE l == [k EXCEPT !.phase = "ok", !.data = docs]
  <2>1. /\ calls' = (calls \ {k}) \cup {l} /\ docs' = docs /\ h.kind = "load"
        /\ missed' = \E c \in calls \ {k} : Handler(c.do).kind \in {"load", "post"}
    BY <1>3 DEF ServeLoad, Become
  <2>2. l.do = k.do /\ l.data = docs
    BY <1>1 DEF CallRecords
  <2> HIDE DEF l
  <2> QED BY <1>2, <2>1, <2>2, QInvNext
<1>4. CASE ServeFetch(h, k) \/ ServeAsk(h, k)
  <2> DEFINE l == [k EXCEPT !.phase = "ok"]
  <2>1. /\ calls' = (calls \ {k}) \cup {l} /\ docs' = docs /\ missed' = missed
        /\ h.kind \notin {"load", "post"}
    BY <1>4 DEF ServeFetch, ServeAsk, Become
  <2>2. l.do = k.do
    BY <1>1 DEF CallRecords
  <2> HIDE DEF l
  <2> QED BY <1>2, <2>1, <2>2, QInvNext DEF QInv, AnswersFresh, LoadPending, PostServed
<1>5. ASSUME NEW r \in Recs, ServePost(h, k, r) PROVE QInv'
  <2> DEFINE l == [k EXCEPT !.rec = r, !.phase = "ok",
                            !.data = IF h.patch = "answer" THEN docs' ELSE NoRows]
  <2>1. /\ calls' = (calls \ {k}) \cup {l} /\ h.kind = "post"
        /\ missed' = (missed \/ \E c \in calls : Handler(c.do).kind = "load" /\ c.phase = "ok")
    BY <1>5 DEF ServePost, Become
  <2>2. l.do = k.do /\ l.phase = "ok"
    BY <1>1 DEF CallRecords
  <2> HIDE DEF l
  <2> QED BY <1>2, <2>1, <2>2, QInvNext
<1> QED BY <1>3, <1>4, <1>5 DEF Serve

LEMMA ArriveQuiet ==
  ASSUME AllTyped, Reloads(This), QInv, NEW k \in calls, Arrive(Handler(k.do), k)
  PROVE  QInv'
<1> DEFINE h == Handler(k.do)
           patched == Patched(h, k, view, h.patch)
           filled == Filled(h, k, patched)
           done == Shut(h, k, filled)
           settled == IF Waits(h) THEN done ELSE Settle(done, FlagsHeld(k))
           new == CallsOf(calls, h.then, k.rec, settled)
           given(l) == [l EXCEPT !.holds = IF Waits(h) THEN FlagsHeld(k) ELSE {}]
<1>1. page \in DOMAIN Site /\ view \in Views /\ k \in CallRecords /\ TInv
  BY TInvParts DEF QInv
<1>2. k.do \in DOMAIN This.handlers
  BY <1>1 DEF CallRecords
<1>3. /\ view' = [settled EXCEPT !.busy = WithFlags(@, h.then, k.rec)]
      /\ calls' = (calls \ {k}) \cup {given(l) : l \in new}
      /\ page' = page /\ docs' = docs /\ missed' = missed
      /\ k.phase = "ok" \/ h.kind = "timer"
  BY DEF Arrive, Succeeds, Done, GoesOn, CallsNext
<1>4. TInv'
  BY <1>1, ArriveTyped
<1>5. patched \in Views
  BY <1>1, <1>2, PatchedTyped
<1>6. filled \in Views /\ filled.rows = patched.rows
  <2> HIDE DEF patched
  <2> QED BY <1>1, <1>5, FilledTyped, RowsKept
<1>7. done \in Views /\ done.rows = patched.rows
  <2> HIDE DEF filled
  <2> QED BY <1>1, <1>2, <1>6, ShutTyped, RowsKept
<1>8. settled \in Views /\ settled.rows = patched.rows
  <2> HIDE DEF done
  <2> QED BY <1>7, SettleTyped, RowsKept
<1> HIDE DEF settled
<1>9. view'.rows = patched.rows
  BY <1>3, <1>8 DEF Views
<1>10. /\ \A l \in new : l.phase = "sent"
       /\ \A d \in h.then : \E l \in new : l.do = d
  BY CallsOfSent
<1>11. \A l \in new : {"do", "rec", "holds"} \subseteq DOMAIN l
  BY CallsOfKnown
<1> HIDE DEF new
<1>12. \A l \in new : given(l).phase = "sent" /\ given(l).do = l.do
  BY <1>10, <1>11
<1>13. CASE h.kind = "load" /\ h.patch = "answer"
  <2>1. view'.rows = k.data /\ k.phase = "ok"
    BY <1>1, <1>3, <1>9, <1>13 DEF Patched, TakesAnswer, Views
  <2> HIDE DEF given, patched
  <2> QED BY <1>3, <1>4, <1>12, <1>13, <2>1, QInvNext DEF QInv, AnswersFresh
<1>14. CASE \E d \in h.then : Handler(d).kind = "load"
  <2> HIDE DEF given, patched
  <2> QED BY <1>3, <1>4, <1>10, <1>12, <1>14, QInvNext DEF QInv, AnswersFresh
<1>15. CASE h.kind \notin {"load", "post"} /\ h.patch = "none"
  <2>1. view'.rows = view.rows
    BY <1>1, <1>9, <1>15, RowsKept
  <2> HIDE DEF given, patched
  <2> QED BY <1>3, <1>4, <1>12, <1>15, <2>1, QInvNext
          DEF QInv, AnswersFresh, LoadPending, PostServed
<1> QED BY <1>2, <1>13, <1>14, <1>15, HandlerReloads

LEMMA FailQuiet ==
  ASSUME AllTyped, Reloads(This), QInv, NEW k \in calls, NEW how \in {"refused", "lost"},
         Fail(Handler(k.do), k, how)
  PROVE  QInv'
<1> DEFINE h == Handler(k.do)
<1>1. page \in DOMAIN Site /\ view \in Views /\ k \in CallRecords /\ TInv
  BY TInvParts DEF QInv
<1>2. k.do \in DOMAIN This.handlers
  BY <1>1 DEF CallRecords
<1>3. /\ TInv' /\ page' = page /\ docs' = docs /\ calls' = calls \ {k}
      /\ missed' = (missed \/ h.kind = "load" \/ k.phase = "ok")
  BY <1>1, FailTyped DEF Fail
<1>4. h.kind # "load" => view'.rows = view.rows
  <2> SUFFICES ASSUME h.kind # "load" PROVE view'.rows = view.rows
    OBVIOUS
  <2>1. CASE h[how] = "error"
    <3>1. Left(h) \in Views /\ Left(h).rows = view.rows
      BY <1>1, <1>2, ThisSound DEF Left, Views, Closed, Handler
    <3> QED BY <2>1, <3>1, RowsKept DEF Fail, Gives
  <2>2. CASE h[how] # "error"
    <3>1. h[how] = "none"
      BY <1>2, <2>2, HandlerReloads
    <3>2. view' = Settle(Shut(h, k, Patched(h, k, view, "none")), FlagsHeld(k))
      BY <2>2, <3>1 DEF Fail, Pretends
    <3>3. Patched(h, k, view, "none") = view
      BY DEF Patched, TakesAnswer
    <3>4. Shut(h, k, view) \in Views /\ Shut(h, k, view).rows = view.rows
      BY <1>1, <1>2, ShutTyped, RowsKept
    <3> QED BY <3>2, <3>3, <3>4, RowsKept
  <2> QED BY <2>1, <2>2
<1> QED BY <1>3, <1>4, QInvNext DEF QInv, AnswersFresh, LoadPending, PostServed

LEMMA StepQuiet ==
  ASSUME AllTyped, Reloads(This), QInv, [Next]_vars
  PROVE  QInv'
<1>1. TInv /\ TInv'
  BY StepTyped DEF QInv
<1>2. CASE UserStep
  BY <1>2, PressQuiet, ClickQuiet, PollQuiet, ReloadQuiet DEF UserStep
<1>3. ASSUME NEW k \in calls, CallStep(Handler(k.do), k)
      PROVE  QInv'
  BY <1>3, ServeQuiet, ArriveQuiet, FailQuiet DEF CallStep
<1>4. ASSUME NEW r, NEW s, Elsewhere(r, s) PROVE QInv'
  BY <1>1, <1>4, QInvNext DEF Elsewhere
<1>5. CASE UNCHANGED vars
  BY <1>1, <1>5, QInvNext DEF vars, QInv, AnswersFresh, LoadPending, PostServed
<1> QED BY <1>2, <1>3, <1>4, <1>5 DEF Next

\* When nothing is in flight the rows shown are the server's records, unless a change was
\* made elsewhere or lost since the last list was served, on every site whose lists are
\* fetched on mount and again after each change.
THEOREM ListsQuiet == AllTyped /\ AllReload => (Spec => []QuietList)
<1> SUFFICES ASSUME AllTyped, AllReload PROVE Spec => []QuietList
  OBVIOUS
<1> DEFINE applies == page \notin Drifting /\ Lists(This)
           I == TInv /\ (applies => QInv)
<1>1. Init => I
  <2> SUFFICES ASSUME Init, TInv, applies PROVE QInv
    BY InitTyped
  <2>1. Reloads(This) /\ calls = CallsOf({}, This.mount, None, Start(This))
    BY ThisReloads, TInvParts DEF Init
  <2> QED BY <2>1, MountQuiet DEF QInv, AnswersFresh, LoadPending
<1>2. I /\ [Next]_vars => I'
  <2> SUFFICES ASSUME I, [Next]_vars PROVE I'
    OBVIOUS
  <2>1. TInv' /\ page' = page /\ This' = This
    BY StepTyped, PageStays, TInvParts, SamePage
  <2>2. applies => QInv'
    BY StepQuiet, ThisReloads, TInvParts
  <2> QED BY <2>1, <2>2
<1>3. I => QuietList
  BY DEF QuietList, QInv, LoadPending, PostServed
<1> HIDE DEF I
<1> QED BY <1>1, <1>2, <1>3, PTL DEF Spec

=============================================================================
