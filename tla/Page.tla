-------------------------------- MODULE Page --------------------------------
(***************************************************************************)
(* One page with one ad slot: the ad tag (adtag.js) and the transport it     *)
(* reports through (adlab.js).  Both run on the one thread of the page, so   *)
(* a callback is one action; what interleaves is when the browser calls      *)
(* them: the observer, the timer, the response and the events of the tab.    *)
(*                                                                         *)
(* The browser is external.  It tells the tag where the slot is, and runs a  *)
(* timer that is due, at most Lag ticks late; it draws no frame, and so      *)
(* observes nothing, while the tab is hidden; "away" is a page navigated      *)
(* from and kept, which may come back.  A hidden or kept page may be killed  *)
(* without a further event: a behaviour that stops there.                    *)
(***************************************************************************)
EXTENDS Integers, Sequences

CONSTANTS
    ViewTicks,  \* VIEW_MS
    Lag,        \* how late the browser may call, in ticks
    MaxEvents,  \* MAX_EVENTS, or as many as fit in MAX_BYTES if they are fewer
    MaxTicks, MaxScrolls, MaxSwitches, MaxPlays,    \* bounds
    None

ASSUME TimeAssumption == ViewTicks \in Nat \ {0} /\ Lag \in Nat
ASSUME QueueAssumption == MaxEvents \in Nat \ {0}
ASSUME NoneAssumption == None \notin Nat

VARIABLES
    browser,    \* whether it has an observer, whether the slot is laid out, endgameArm
    tab,        \* "visible", "hidden" or "away"
    position,   \* of the slot: "far", "near" (within REQUEST_MARGIN) or "inside" (half of it)
    now,        \* Date.now, in ticks
    slot,       \* "waiting", "requested", "filled" or "collapsed"
    page,       \* the variables of the two scripts, see Loaded
    told,       \* what the observer last told of the slot, see Fraction
    late,       \* ticks since what it told went wrong
    spent,      \* scrolls, switches of the tab and plays so far, for the bounds
    \* What really happened, kept for the properties:
    seen,       \* ticks the filled slot was in view of a visible tab
    left,       \* times it went out of view
    absent,     \* ticks since it did
    gap,        \* the longest absence since the timer was last set
    viewable    \* `gap' when ad_viewable was tracked

truth == <<seen, left, absent, gap, viewable>>
vars == <<browser, tab, position, now, slot, page, told, late, spent, truth>>

Visible == tab = "visible"
InView == Visible /\ position = "inside" /\ slot = "filled"

\* As much of the slot as counts, or less; and whether the tag has yet to be told.
Fraction == IF position = "inside" THEN "half" ELSE "less"
Behind == Visible /\ page.observing /\ told # Fraction

Larger(a, b) == IF a > b THEN a ELSE b

-----------------------------------------------------------------------------
(* adlab.js: the transport.  `shown' is document.visibilityState then.        *)

Loaded(start) ==
    [queue |-> start, endgame |-> FALSE,
     observing |-> FALSE, inView |-> FALSE, enteredAt |-> 0, totalMs |-> 0,
     timer |-> None, reported |-> FALSE,
     once |-> {},           \* the listeners of finish that have not run
     viewTimes |-> {}]      \* every ad_view_time tracked, kept for the properties

\* With a beacon or a fetch; what goes wrong with either is swallowed.
Flush(p) == [p EXCEPT !.queue = <<>>]

Push(p, name, shown) ==
    LET q == Append(p.queue, [event |-> name, shown |-> shown])
    IN  IF Len(q) >= MaxEvents THEN Flush(p) ELSE [p EXCEPT !.queue = q]

\* The end of a game reveals the second slot first, and that is tracked on its own.
RevealEndgame(p, shown) ==
    IF p.endgame \/ browser.arm # "on" THEN p
    ELSE Push([p EXCEPT !.endgame = TRUE], "ad_slot_revealed", shown)

Track(p, name, shown) ==
    Push(IF name = "game_end" THEN RevealEndgame(p, shown) ELSE p, name, shown)

-----------------------------------------------------------------------------
(* adtag.js: viewability.                                                    *)

StopKeepsTimer(p) ==
    IF p.inView
    THEN [p EXCEPT !.totalMs = @ + now - p.enteredAt, !.inView = FALSE] ELSE p

StopStaysInView(p) ==
    IF p.inView
    THEN [p EXCEPT !.timer = None, !.totalMs = @ + now - p.enteredAt]
    ELSE [p EXCEPT !.timer = None]

Stop(p) ==
    LET q == [p EXCEPT !.timer = None]
    IN  IF p.inView
        THEN [q EXCEPT !.totalMs = @ + now - p.enteredAt, !.inView = FALSE] ELSE q

Report(p) ==
    IF p.reported THEN p ELSE Track([p EXCEPT !.reported = TRUE], "ad_viewable", Visible)

Enter(p) ==
    [p EXCEPT !.inView = TRUE, !.enteredAt = now,
              !.timer = IF p.reported THEN None ELSE now + ViewTicks]

\* The callback of the observer.
Entry(p, fraction) ==
    LET visible == fraction = "half" /\ Visible
    IN  CASE visible /\ ~p.inView -> Enter(p)
          [] ~visible /\ p.inView -> Stop(p)
          [] OTHER -> p

FinishKeepsObserving(p, shown) ==
    LET q == Stop(p)
        r == [viewed_ms |-> q.totalMs, reached_standard |-> q.reported]
    IN  Track([q EXCEPT !.viewTimes = @ \cup {r}], "ad_view_time", shown)

Finish(p, shown) ==
    LET q == Stop(p)
        r == [viewed_ms |-> q.totalMs, reached_standard |-> q.reported]
    IN  Track([q EXCEPT !.observing = FALSE, !.viewTimes = @ \cup {r}], "ad_view_time", shown)

\* A listener that is called once: on the event, whatever it then does.
Once(p, event, shown) ==
    IF event \notin p.once THEN p
    ELSE LET q == [p EXCEPT !.once = @ \ {event}]
         IN  IF event = "visibilitychange" /\ shown THEN q ELSE Finish(q, shown)

\* The listeners of the document and of the window, in the order the two scripts
\* added them: the transport's is first, so it never sends what finish tracks.
OnHiddenUnflushed(p) == Once(Stop(p), "visibilitychange", FALSE)
OnHidden(p) == Once(Stop(Flush(p)), "visibilitychange", FALSE)

OnShown(p) == Once(p, "visibilitychange", TRUE)
OnPagehide(p, shown) == Once(Flush(p), "pagehide", shown)

-----------------------------------------------------------------------------
(* The page.                                                                 *)

\* A slot that is not laid out is nowhere near.
Positions == IF browser.observable THEN {"far", "near", "inside"} ELSE {"far"}

Init ==
    /\ browser \in [observer : BOOLEAN, observable : BOOLEAN, arm : {"on", "off"}]
    /\ tab \in {"visible", "hidden"}
    /\ position \in Positions
    /\ now = 0
    /\ slot = "waiting"
    \* The first page of a session reports its start.
    /\ \E start \in {<<>>, <<[event |-> "session_start", shown |-> Visible]>>} :
           page = Loaded(start)
    /\ told = "nothing" /\ late = 0
    /\ spent = [scrolls |-> 0, switches |-> 0, plays |-> 0]
    /\ seen = 0 /\ left = 0 /\ absent = 0 /\ gap = 0 /\ viewable = None

Running == tab # "away"

\* The slot comes near the viewport, or there is no way to know that it does.
RequestAd ==
    /\ Running /\ slot = "waiting"
    /\ browser.observer /\ browser.observable => Visible /\ position # "far"
    /\ slot' = "requested"
    /\ page' = Track(page, "ad_request", Visible)
    /\ UNCHANGED <<browser, tab, position, now, told, late, spent, truth>>

\* The answer: an ad, none, or an error; only an ad is rendered and watched.
Render ==
    /\ Running /\ slot = "requested"
    /\ slot' = "filled"
    /\ LET p == Track(Track(page, "ad_impression", Visible), "ad_measurable", Visible)
       IN  page' = IF browser.observer
                   THEN [p EXCEPT !.observing = TRUE,
                                  !.once = {"pagehide", "visibilitychange"}]
                   ELSE p
    /\ UNCHANGED <<browser, tab, position, now, told, late, spent, truth>>

Collapse ==
    /\ Running /\ slot = "requested"
    /\ slot' = "collapsed"
    /\ UNCHANGED <<browser, tab, position, now, page, told, late, spent, truth>>

\* The observer tells when the slot has crossed half since it last told, and at first.
Notify ==
    /\ Behind
    /\ told' = Fraction /\ late' = 0
    /\ page' = Entry(page, Fraction)
    /\ gap' = IF page'.inView THEN 0 ELSE gap
    /\ UNCHANGED <<browser, tab, position, now, slot, spent, seen, left, absent, viewable>>

TimerFires ==
    /\ Running /\ page.timer # None /\ now >= page.timer
    /\ page' = [Report(page) EXCEPT !.timer = None]
    /\ viewable' = gap
    /\ UNCHANGED <<browser, tab, position, now, slot, told, late, spent, seen, left, absent, gap>>

\* The player: a game reports an event or its end, a click on the slot, a scroll.
Play ==
    /\ Running /\ spent.plays < MaxPlays
    /\ \E name \in {"game_move", "game_end", "ad_click"} :
           /\ name = "ad_click" => InView
           /\ page' = Track(page, name, Visible)
    /\ spent' = [spent EXCEPT !.plays = @ + 1]
    /\ UNCHANGED <<browser, tab, position, now, slot, told, late, truth>>

Scroll ==
    /\ Visible /\ spent.scrolls < MaxScrolls
    /\ \E to \in Positions \ {position} : position' = to
    /\ left' = left + IF InView THEN 1 ELSE 0
    /\ absent' = 0
    /\ late' = IF told = Fraction' THEN 0 ELSE late
    /\ spent' = [spent EXCEPT !.scrolls = @ + 1]
    /\ UNCHANGED <<browser, tab, now, slot, page, told, seen, gap, viewable>>

\* The tab is covered or left for another, and shown again.
Hide ==
    /\ Visible /\ spent.switches < MaxSwitches
    /\ tab' = "hidden"
    /\ page' = OnHidden(page)
    /\ late' = 0
    /\ spent' = [spent EXCEPT !.switches = @ + 1]
    /\ UNCHANGED <<browser, position, now, slot, told, truth>>

Show ==
    /\ ~Visible
    /\ tab' = "visible"
    /\ page' = OnShown(page)
    /\ UNCHANGED <<browser, position, now, slot, told, late, spent, truth>>

\* The page is navigated from or closed: pagehide, and if the tab was visible
\* then visibilitychange as well.
Leave ==
    /\ Running /\ spent.switches < MaxSwitches
    /\ tab' = "away"
    /\ page' = LET p == OnPagehide(page, Visible) IN IF Visible THEN OnHidden(p) ELSE p
    /\ late' = 0
    /\ spent' = [spent EXCEPT !.switches = @ + 1]
    /\ UNCHANGED <<browser, position, now, slot, told, truth>>

\* Time passes, but not past a call that is Lag ticks late.
Tick ==
    /\ now < MaxTicks
    /\ Behind => late < Lag
    /\ page.timer # None => now < page.timer + Lag
    /\ now' = now + 1
    /\ late' = IF Behind THEN late + 1 ELSE 0
    /\ seen' = seen + IF InView THEN 1 ELSE 0
    /\ absent' = IF InView THEN 0 ELSE absent + 1
    /\ gap' = Larger(gap, absent')
    /\ UNCHANGED <<browser, tab, position, slot, page, told, spent, left, viewable>>

Next ==
    \/ RequestAd \/ Render \/ Collapse
    \/ Notify \/ TimerFires
    \/ Play \/ Scroll
    \/ Hide \/ Show \/ Leave
    \/ Tick

Spec == Init /\ [][Next]_vars

-----------------------------------------------------------------------------
(* Properties.                                                               *)

EventNames ==
    {"session_start", "ad_request", "ad_impression", "ad_measurable", "ad_viewable",
     "ad_view_time", "ad_click", "ad_slot_revealed", "game_move", "game_end"}

Pages ==
    [queue : Seq([event : EventNames, shown : BOOLEAN]), endgame : BOOLEAN,
     observing : BOOLEAN, inView : BOOLEAN, enteredAt : Nat, totalMs : Nat,
     timer : Nat \cup {None}, reported : BOOLEAN,
     once : SUBSET {"pagehide", "visibilitychange"},
     viewTimes : SUBSET [viewed_ms : Nat, reached_standard : BOOLEAN]]

TypeOK ==
    /\ browser \in [observer : BOOLEAN, observable : BOOLEAN, arm : {"on", "off"}]
    /\ tab \in {"visible", "hidden", "away"}
    /\ position \in Positions
    /\ slot \in {"waiting", "requested", "filled", "collapsed"}
    /\ page \in Pages
    /\ told \in {"nothing", "half", "less"}
    /\ late \in 0..Lag
    /\ spent \in [scrolls : Nat, switches : Nat, plays : Nat]
    /\ now \in Nat /\ seen \in Nat /\ left \in Nat /\ absent \in Nat /\ gap \in Nat
    /\ viewable \in Nat \cup {None}

\* "At least ONE CONTINUOUS second" (adtag.js:66): when ad_viewable is tracked, the
\* slot has been in view of a visible tab ever since the timer was set, but for
\* gaps too short for the browser to tell of. Scrolls, switches of the tab and a
\* timer that fires late do not add up to a second.
ViewableIsContinuous == viewable # None => viewable <= Lag

\* The dwell time never exceeds the time the ad could be seen, by more than the
\* lag each time it went out of view: no stretch is counted twice, or on through
\* a hidden tab.
NeverOverstated == page.totalMs <= seen + Lag * left

\* finish may run twice, on pagehide and on a hidden tab, hours apart; the reports
\* it leaves say the same, and what they say of the standard is never overtaken by
\* an ad_viewable.
DwellReportsAgree ==
    \A r \in page.viewTimes :
        r = [viewed_ms |-> page.totalMs, reached_standard |-> page.reported]

\* A page that is hidden may never run again: nothing tracked while it was shown
\* is still in the queue.
NothingLeftBehind ==
    ~Visible => \A i \in DOMAIN page.queue : ~page.queue[i].shown
=============================================================================
