------------------------------ MODULE PageProofs ------------------------------
(***************************************************************************)
(* For any standard, any lag of the browser and any queue, however the      *)
(* player scrolls, switches and comes back: what the tag reports of the     *)
(* viewability of its ad is true of what was shown, and a page that is      *)
(* hidden has sent all it tracked before.                                   *)
(*                                                                         *)
(* The listeners call one another, so what they do to the page is stated    *)
(* once (Kept): they may end a stretch in view, counting it, but begin none,*)
(* and what they report is then final.  What the tag counts, with the       *)
(* stretch it is in (Believed) and what it may yet count before it is told  *)
(* (Owed), never exceeds what was seen by more than the lag of each         *)
(* departure (Counted); it is told before the ad has been gone for longer   *)
(* than the lag, so the timer outlives no longer gap (Gaps).                *)
(***************************************************************************)
EXTENDS Page, TLAPS

Believed(p) == IF p.inView THEN p.totalMs + now - p.enteredAt ELSE p.totalMs

\* The dwell time and the verdict that finish reports.
Final(p) == [viewed_ms |-> Believed(p), reached_standard |-> p.reported]

Unshown(p) == \A i \in DOMAIN p.queue : ~p.queue[i].shown

Sound(p) == p \in Pages /\ (p.inView => p.enteredAt <= now)

\* What a listener may make of p.
Kept(p, q) ==
    /\ Sound(q)
    /\ Believed(q) = Believed(p)
    /\ q.reported = p.reported
    /\ q.inView => p.inView
    /\ q.timer # None => p.timer # None /\ q.inView = p.inView
    /\ q.observing => p.observing
    /\ q.inView => q.observing = p.observing
    /\ q.once # {} => p.once # {}
    /\ \/ q.viewTimes = p.viewTimes
       \/ /\ q.viewTimes = p.viewTimes \cup {Final(p)}
          /\ p.once # {} /\ ~q.inView /\ q.timer = None /\ ~q.observing

\* The timer runs, and time is counted, only while the observer would tell.
Viewing ==
    /\ page.timer # None => page.inView
    /\ page.inView => Visible /\ page.observing /\ told = "half" /\ page.enteredAt <= now

Rendered == page.observing \/ page.once # {} \/ page.viewTimes # {} => slot = "filled"

Finished == page.viewTimes # {} => ~page.inView /\ page.timer = None /\ ~page.observing

Owed == IF page.inView /\ position # "inside" THEN Lag - late ELSE 0
Counted == Believed(page) + Owed <= seen + Lag * left

Gaps ==
    /\ page.inView /\ position # "inside" => absent <= late
    /\ page.timer # None => gap <= Lag

IInv ==
    /\ TypeOK /\ Viewing /\ Rendered /\ Finished /\ Counted /\ Gaps
    /\ ViewableIsContinuous /\ DwellReportsAgree /\ NothingLeftBehind

------------------------------------------------------------------------------
\* What the two scripts do to the page.

LEMMA FlushDoes ==
  ASSUME NEW p \in Pages
  PROVE  /\ Flush(p) \in Pages
         /\ Flush(p).queue = <<>>
         /\ Flush(p).endgame = p.endgame /\ Flush(p).observing = p.observing
         /\ Flush(p).inView = p.inView /\ Flush(p).enteredAt = p.enteredAt
         /\ Flush(p).totalMs = p.totalMs /\ Flush(p).timer = p.timer
         /\ Flush(p).reported = p.reported /\ Flush(p).once = p.once
         /\ Flush(p).viewTimes = p.viewTimes
<1>1. <<>> \in Seq([event : EventNames, shown : BOOLEAN])
  OBVIOUS
<1> QED
  BY <1>1 DEF Flush, Pages

\* All but the queue and the second slot.
Untouched(p, q) ==
    /\ q \in Pages
    /\ q.observing = p.observing /\ q.inView = p.inView /\ q.enteredAt = p.enteredAt
    /\ q.totalMs = p.totalMs /\ q.timer = p.timer /\ q.reported = p.reported
    /\ q.once = p.once /\ q.viewTimes = p.viewTimes

LEMMA PushDoes ==
  ASSUME NEW p \in Pages, NEW name \in EventNames, NEW shown \in BOOLEAN
  PROVE  /\ Untouched(p, Push(p, name, shown))
         /\ Unshown(p) /\ ~shown => Unshown(Push(p, name, shown))
<1> DEFINE e == [event |-> name, shown |-> shown]
           q == Append(p.queue, e)
<1>1. e \in [event : EventNames, shown : BOOLEAN] /\ e.shown = shown
  OBVIOUS
<1>2. p.queue \in Seq([event : EventNames, shown : BOOLEAN])
  BY DEF Pages
<1> HIDE DEF e
<1>3. q \in Seq([event : EventNames, shown : BOOLEAN])
  BY <1>1, <1>2
<1>4. Unshown(p) /\ ~shown => \A i \in DOMAIN q : ~q[i].shown
  BY <1>1, <1>2 DEF Unshown
<1> HIDE DEF q
<1>5. CASE Len(q) >= MaxEvents
  <2>1. Push(p, name, shown) = Flush(p)
    BY <1>5 DEF Push, q, e
  <2> QED
    BY <2>1, FlushDoes DEF Untouched, Unshown
<1>6. CASE ~(Len(q) >= MaxEvents)
  <2>1. Push(p, name, shown) = [p EXCEPT !.queue = q]
    BY <1>6 DEF Push, q, e
  <2> DEFINE r == [p EXCEPT !.queue = q]
  <2>2. r \in Pages /\ r.queue = q
    BY <1>3 DEF Pages
  <2>3. /\ r.observing = p.observing /\ r.inView = p.inView /\ r.enteredAt = p.enteredAt
        /\ r.totalMs = p.totalMs /\ r.timer = p.timer /\ r.reported = p.reported
        /\ r.once = p.once /\ r.viewTimes = p.viewTimes
    BY DEF Pages
  <2> HIDE DEF r
  <2>4. Push(p, name, shown) = r
    BY <2>1 DEF r
  <2> QED
    BY <1>4, <2>2, <2>3, <2>4 DEF Untouched, Unshown
<1> QED
  BY <1>5, <1>6

LEMMA TrackDoes ==
  ASSUME NEW p \in Pages, NEW name \in EventNames, NEW shown \in BOOLEAN
  PROVE  /\ Untouched(p, Track(p, name, shown))
         /\ Unshown(p) /\ ~shown => Unshown(Track(p, name, shown))
<1> DEFINE q == RevealEndgame(p, shown)
<1>1. Untouched(p, q) /\ (Unshown(p) /\ ~shown => Unshown(q))
  <2>1. CASE p.endgame \/ browser.arm # "on"
    BY <2>1 DEF RevealEndgame, Untouched
  <2>2. CASE ~(p.endgame \/ browser.arm # "on")
    <3> DEFINE r == [p EXCEPT !.endgame = TRUE]
    <3>1. r \in Pages /\ Untouched(p, r) /\ r.queue = p.queue
      BY DEF Pages, Untouched
    <3>2. q = Push(r, "ad_slot_revealed", shown)
      BY <2>2 DEF RevealEndgame
    <3> HIDE DEF r
    <3>3. "ad_slot_revealed" \in EventNames
      BY DEF EventNames
    <3>4. Untouched(r, q) /\ (Unshown(r) /\ ~shown => Unshown(q))
      BY <3>1, <3>2, <3>3, PushDoes
    <3> QED
      BY <3>1, <3>4 DEF Untouched, Unshown
  <2> QED
    BY <2>1, <2>2
<1> HIDE DEF q
<1>2. CASE name = "game_end"
  <2>1. Track(p, name, shown) = Push(q, name, shown)
    BY <1>2 DEF Track, q
  <2>2. q \in Pages
    BY <1>1 DEF Untouched
  <2>3. /\ Untouched(q, Push(q, name, shown))
        /\ Unshown(q) /\ ~shown => Unshown(Push(q, name, shown))
    BY <2>2, PushDoes
  <2> QED
    BY <1>1, <2>1, <2>3 DEF Untouched
<1>3. CASE name # "game_end"
  <2>1. Track(p, name, shown) = Push(p, name, shown)
    BY <1>3 DEF Track
  <2> QED
    BY <2>1, PushDoes
<1> QED
  BY <1>2, <1>3

LEMMA BelievedType ==
  ASSUME NEW p, Sound(p), now \in Nat
  PROVE  Believed(p) \in Nat
BY DEF Sound, Believed, Pages

LEMMA StopDoes ==
  ASSUME NEW p, Sound(p), now \in Nat
  PROVE  /\ Stop(p) \in Pages
         /\ ~Stop(p).inView /\ Stop(p).timer = None /\ Stop(p).totalMs = Believed(p)
         /\ Stop(p).queue = p.queue /\ Stop(p).observing = p.observing
         /\ Stop(p).reported = p.reported /\ Stop(p).once = p.once
         /\ Stop(p).viewTimes = p.viewTimes
<1> DEFINE q == [p EXCEPT !.timer = None]
<1>1. /\ q \in Pages /\ q.timer = None
      /\ q.queue = p.queue /\ q.endgame = p.endgame /\ q.observing = p.observing
      /\ q.inView = p.inView /\ q.enteredAt = p.enteredAt /\ q.totalMs = p.totalMs
      /\ q.reported = p.reported /\ q.once = p.once /\ q.viewTimes = p.viewTimes
  BY DEF Sound, Pages
<1>2. Stop(p) = IF p.inView
                THEN [q EXCEPT !.totalMs = @ + now - p.enteredAt, !.inView = FALSE] ELSE q
  BY DEF Stop
<1> HIDE DEF q
<1>3. CASE p.inView
  <2>1. q.totalMs + now - p.enteredAt = Believed(p) /\ Believed(p) \in Nat
    BY <1>1, <1>3, BelievedType DEF Believed
  <2>2. Stop(p) = [q EXCEPT !.totalMs = Believed(p), !.inView = FALSE]
    BY <1>2, <1>3, <2>1
  <2> QED
    BY <1>1, <2>1, <2>2 DEF Pages
<1>4. CASE ~p.inView
  BY <1>1, <1>2, <1>4 DEF Believed
<1> QED
  BY <1>3, <1>4

------------------------------------------------------------------------------
\* The listeners.

LEMMA KeptSame ==
  ASSUME NEW p, NEW q, Sound(p), Untouched(p, q)
  PROVE  Kept(p, q)
BY DEF Kept, Sound, Untouched, Believed

LEMMA KeptTrans ==
  ASSUME NEW p, NEW q, NEW r, Kept(p, q), Kept(q, r)
  PROVE  Kept(p, r)
<1>1. Final(q) = Final(p)
  BY DEF Kept, Final
<1> QED
  BY <1>1 DEF Kept

LEMMA FlushKeeps == ASSUME NEW p, Sound(p) PROVE Kept(p, Flush(p)) /\ Unshown(Flush(p))
<1>1. Untouched(p, Flush(p)) /\ Flush(p).queue = <<>>
  BY FlushDoes DEF Sound, Untouched
<1> QED
  BY <1>1, KeptSame DEF Unshown

LEMMA StopKeeps ==
  ASSUME NEW p, Sound(p), now \in Nat
  PROVE  /\ Kept(p, Stop(p))
         /\ ~Stop(p).inView /\ Stop(p).timer = None
         /\ Unshown(p) => Unshown(Stop(p))
BY StopDoes DEF Kept, Sound, Believed, Unshown

LEMMA FinishKeeps ==
  ASSUME NEW p, Sound(p), now \in Nat, NEW shown \in BOOLEAN, NEW o, Kept(o, p), o.once # {}
  PROVE  /\ Kept(o, Finish(p, shown))
         /\ ~Finish(p, shown).inView
         /\ Unshown(p) /\ ~shown => Unshown(Finish(p, shown))
<1> DEFINE q == Stop(p)
           r == [viewed_ms |-> q.totalMs, reached_standard |-> q.reported]
           t == [q EXCEPT !.observing = FALSE, !.viewTimes = @ \cup {r}]
<1>1. /\ q \in Pages /\ ~q.inView /\ q.timer = None /\ q.totalMs = Believed(p)
      /\ q.queue = p.queue /\ q.reported = p.reported /\ q.once = p.once
      /\ q.viewTimes = p.viewTimes
  BY StopDoes
<1>2. r = Final(p) /\ r \in [viewed_ms : Nat, reached_standard : BOOLEAN]
  BY <1>1, BelievedType DEF Final, Pages
<1>3. Finish(p, shown) = Track(t, "ad_view_time", shown)
  BY DEF Finish
<1> HIDE DEF q, r
<1>4. /\ t \in Pages /\ ~t.inView /\ t.timer = None /\ t.totalMs = Believed(p)
      /\ t.queue = p.queue /\ t.reported = p.reported /\ t.once = p.once
      /\ ~t.observing /\ t.viewTimes = p.viewTimes \cup {r}
  BY <1>1, <1>2 DEF Pages
<1> HIDE DEF t
<1>5. "ad_view_time" \in EventNames
  BY DEF EventNames
<1>6. /\ Untouched(t, Finish(p, shown))
      /\ Unshown(t) /\ ~shown => Unshown(Finish(p, shown))
  BY <1>3, <1>4, <1>5, TrackDoes
<1>7. Kept(o, t)
  <2>1. Final(p) = Final(o) /\ Believed(t) = Believed(o)
    BY <1>4 DEF Kept, Final, Believed
  <2> QED
    BY <1>2, <1>4, <2>1 DEF Kept, Sound
<1>8. Kept(t, Finish(p, shown))
  BY <1>4, <1>6, KeptSame DEF Sound
<1> QED
  BY <1>4, <1>6, <1>7, <1>8, KeptTrans DEF Untouched, Unshown

LEMMA OnceKeeps ==
  ASSUME NEW p, Sound(p), now \in Nat, NEW shown \in BOOLEAN,
         NEW event \in {"pagehide", "visibilitychange"}
  PROVE  /\ Kept(p, Once(p, event, shown))
         /\ ~p.inView => ~Once(p, event, shown).inView
         /\ Unshown(p) /\ ~shown => Unshown(Once(p, event, shown))
<1>1. CASE event \notin p.once
  <2>1. Once(p, event, shown) = p
    BY <1>1 DEF Once
  <2>2. Untouched(p, p)
    BY DEF Untouched, Sound
  <2> QED
    BY <2>1, <2>2, KeptSame
<1>2. CASE event \in p.once
  <2> DEFINE q == [p EXCEPT !.once = @ \ {event}]
  <2>1. /\ q \in Pages /\ q.queue = p.queue /\ q.observing = p.observing
        /\ q.inView = p.inView /\ q.enteredAt = p.enteredAt /\ q.totalMs = p.totalMs
        /\ q.timer = p.timer /\ q.reported = p.reported /\ q.once = p.once \ {event}
        /\ q.viewTimes = p.viewTimes
    BY DEF Sound, Pages
  <2>2. Once(p, event, shown)
            = IF event = "visibilitychange" /\ shown THEN q ELSE Finish(q, shown)
    BY <1>2 DEF Once
  <2> HIDE DEF q
  <2>3. Sound(q) /\ Kept(p, q) /\ (Unshown(p) => Unshown(q))
    BY <1>2, <2>1 DEF Sound, Kept, Believed, Unshown
  <2>4. p.once # {}
    BY <1>2
  <2>5. /\ Kept(p, Finish(q, shown))
        /\ ~Finish(q, shown).inView
        /\ Unshown(q) /\ ~shown => Unshown(Finish(q, shown))
    BY <2>3, <2>4, FinishKeeps
  <2> QED
    BY <2>1, <2>2, <2>3, <2>5
<1> QED
  BY <1>1, <1>2

\* A page that is hidden counts nothing, and holds nothing from when it was shown.
LEMMA OnHiddenKeeps ==
  ASSUME NEW p, Sound(p), now \in Nat
  PROVE  Kept(p, OnHidden(p)) /\ ~OnHidden(p).inView /\ Unshown(OnHidden(p))
<1> DEFINE f == Flush(p)
           q == Stop(f)
<1>1. Kept(p, f) /\ Unshown(f)
  BY FlushKeeps
<1>2. Sound(f)
  BY <1>1 DEF Kept
<1> HIDE DEF f
<1>3. Kept(f, q) /\ ~q.inView /\ Unshown(q)
  BY <1>1, <1>2, StopKeeps
<1>4. Sound(q)
  BY <1>3 DEF Kept
<1>5. OnHidden(p) = Once(q, "visibilitychange", FALSE)
  BY DEF OnHidden, f
<1> HIDE DEF q
<1>6. /\ Kept(q, OnHidden(p)) /\ ~OnHidden(p).inView /\ Unshown(OnHidden(p))
  BY <1>3, <1>4, <1>5, OnceKeeps
<1>7. Kept(p, q)
  BY <1>1, <1>3, KeptTrans
<1> QED
  BY <1>6, <1>7, KeptTrans

LEMMA OnPagehideKeeps ==
  ASSUME NEW p, Sound(p), now \in Nat, NEW shown \in BOOLEAN
  PROVE  /\ Kept(p, OnPagehide(p, shown))
         /\ ~p.inView => ~OnPagehide(p, shown).inView
         /\ ~shown => Unshown(OnPagehide(p, shown))
<1> DEFINE f == Flush(p)
<1>1. Kept(p, f) /\ Unshown(f) /\ (~p.inView => ~f.inView)
  BY FlushKeeps DEF Kept
<1>2. Sound(f)
  BY <1>1 DEF Kept
<1>3. OnPagehide(p, shown) = Once(f, "pagehide", shown)
  BY DEF OnPagehide
<1> HIDE DEF f
<1>4. /\ Kept(f, OnPagehide(p, shown))
      /\ ~f.inView => ~OnPagehide(p, shown).inView
      /\ ~shown => Unshown(OnPagehide(p, shown))
  BY <1>1, <1>2, <1>3, OnceKeeps
<1> QED
  BY <1>1, <1>4, KeptTrans

------------------------------------------------------------------------------
\* The steps of the page.

\* One departure more allows one lag more.
LEMMA Times == ASSUME NEW a \in Nat, NEW b \in Nat
               PROVE a * b \in Nat /\ a * (b + 1) \in Nat /\ a * (b + 1) = a * b + a
OBVIOUS

USE TimeAssumption, QueueAssumption, NoneAssumption

LEMMA PageSound == ASSUME IInv PROVE Sound(page) /\ now \in Nat /\ Visible \in BOOLEAN
BY DEF IInv, TypeOK, Viewing, Sound, Visible

LEMMA InitHolds == Init => IInv
<1> SUFFICES ASSUME Init PROVE IInv
  OBVIOUS
<1>1. PICK start \in {<<>>, <<[event |-> "session_start", shown |-> Visible]>>} :
         page = Loaded(start)
  BY DEF Init
<1>2. /\ start \in Seq([event : EventNames, shown : BOOLEAN])
      /\ ~Visible => \A i \in DOMAIN start : ~start[i].shown
  <2> DEFINE e == [event |-> "session_start", shown |-> Visible]
  <2>1. e \in [event : EventNames, shown : BOOLEAN] /\ (~Visible => ~e.shown)
    BY DEF EventNames, Visible
  <2> HIDE DEF e
  <2>2. CASE start = <<>>
    BY <2>2
  <2>3. CASE start = <<e>>
    <3>1. <<e>> \in Seq([event : EventNames, shown : BOOLEAN])
      BY <2>1
    <3>2. \A i \in DOMAIN <<e>> : <<e>>[i] = e
      OBVIOUS
    <3> QED
      BY <2>1, <2>3, <3>1, <3>2
  <2> QED
    BY <2>2, <2>3 DEF e
<1>3. /\ page \in Pages /\ page.queue = start
      /\ ~page.observing /\ ~page.inView /\ page.totalMs = 0 /\ page.timer = None
      /\ page.once = {} /\ page.viewTimes = {}
  BY <1>1, <1>2 DEF Loaded, Pages
<1>4. TypeOK
  BY <1>3 DEF Init, TypeOK
<1>5. Counted
  BY <1>3 DEF Init, Counted, Owed, Believed
<1> QED
  BY <1>2, <1>3, <1>4, <1>5 DEF Init, IInv, Viewing, Rendered, Finished, Gaps,
     ViewableIsContinuous, DwellReportsAgree, NothingLeftBehind

\* A step in which only listeners run, and the tab may become hidden.
LEMMA KeptHolds ==
  ASSUME IInv, TypeOK', NothingLeftBehind', Kept(page, page'),
         UNCHANGED <<position, now, told, truth>>,
         slot = "filled" => slot' = "filled",
         page'.inView => tab' = tab /\ late' = late
  PROVE  IInv'
<1> USE DEF IInv
<1>1. Viewing'
  BY DEF Viewing, Kept, Sound, Visible
<1>2. Rendered'
  BY DEF Rendered, Kept
<1>3. Finished'
  BY DEF Finished, Kept
<1>4. Believed(page)' = Believed(page)
  BY DEF Kept, Believed
<1>5. Counted'
  <2>1. late \in 0..Lag /\ late' \in 0..Lag
    BY DEF TypeOK
  <2>2. Owed \in Nat /\ Owed' \in Nat /\ Owed' <= Owed
    <3>1. Lag - late \in Nat
      BY <2>1
    <3>2. Owed \in Nat
      BY <3>1 DEF Owed
    <3>3. CASE page'.inView /\ position' # "inside"
      <4>1. page.inView /\ late' = late /\ position # "inside"
        BY <3>3 DEF Kept
      <4>2. Owed' = Lag - late /\ Owed = Lag - late
        BY <3>3, <4>1 DEF Owed
      <4> QED
        BY <3>1, <4>2
    <3>4. CASE ~(page'.inView /\ position' # "inside")
      <4>1. Owed' = 0
        BY <3>4 DEF Owed
      <4> QED
        BY <3>2, <4>1
    <3> QED
      BY <3>2, <3>3, <3>4
  <2>3. Believed(page) \in Nat
    BY PageSound, BelievedType
  <2>4. seen' + Lag * left' = seen + Lag * left /\ seen + Lag * left \in Nat
    BY DEF truth, TypeOK
  <2> QED
    BY <1>4, <2>2, <2>3, <2>4 DEF Counted
<1>6. Gaps'
  BY DEF Gaps, Kept, truth
<1>7. DwellReportsAgree'
  <2> SUFFICES ASSUME NEW r \in page'.viewTimes
               PROVE  r = [viewed_ms |-> page'.totalMs, reached_standard |-> page'.reported]
    BY DEF DwellReportsAgree
  <2>1. ~page'.inView
    BY <1>3 DEF Finished
  <2>2. page'.totalMs = Believed(page) /\ page'.reported = page.reported
    BY <2>1 DEF Kept, Believed
  <2>3. CASE r \in page.viewTimes
    <3>1. r = [viewed_ms |-> page.totalMs, reached_standard |-> page.reported]
      BY <2>3 DEF DwellReportsAgree
    <3>2. Believed(page) = page.totalMs
      BY <2>3 DEF Finished, Believed
    <3> QED
      BY <2>2, <3>1, <3>2
  <2>4. CASE r = Final(page)
    BY <2>2, <2>4 DEF Final
  <2> QED
    BY <2>3, <2>4 DEF Kept
<1>8. ViewableIsContinuous'
  BY DEF ViewableIsContinuous, truth
<1> QED
  BY <1>1, <1>2, <1>3, <1>5, <1>6, <1>7, <1>8

\* Something is tracked, and nothing else happens to the ad.
LEMMA TrackHolds ==
  ASSUME IInv, NEW name \in EventNames, page' = Track(page, name, Visible),
         UNCHANGED <<browser, tab, position, now, told, late, truth>>,
         slot' \in {"waiting", "requested", "filled", "collapsed"},
         slot = "filled" => slot' = "filled",
         spent' \in [scrolls : Nat, switches : Nat, plays : Nat]
  PROVE  IInv'
<1>1. /\ Untouched(page, page')
      /\ Unshown(page) /\ ~Visible => Unshown(page')
  BY PageSound, TrackDoes DEF Sound
<1>2. Kept(page, page')
  BY <1>1, PageSound, KeptSame
<1>3. TypeOK'
  BY <1>1 DEF IInv, TypeOK, Untouched, truth, Positions
<1>4. NothingLeftBehind'
  BY <1>1 DEF IInv, NothingLeftBehind, Unshown, Visible
<1> QED
  BY <1>2, <1>3, <1>4, KeptHolds

LEMMA RequestAdHolds == ASSUME IInv, RequestAd PROVE IInv'
<1>1. "ad_request" \in EventNames
  BY DEF EventNames
<1> QED
  BY <1>1, TrackHolds DEF RequestAd, IInv, TypeOK

LEMMA PlayHolds == ASSUME IInv, Play PROVE IInv'
<1>1. PICK name \in {"game_move", "game_end", "ad_click"} : page' = Track(page, name, Visible)
  BY DEF Play
<1>2. name \in EventNames
  BY DEF EventNames
<1>3. spent' \in [scrolls : Nat, switches : Nat, plays : Nat]
  BY DEF Play, IInv, TypeOK
<1> QED
  BY <1>1, <1>2, <1>3, TrackHolds DEF Play, IInv, TypeOK

LEMMA CollapseHolds == ASSUME IInv, Collapse PROVE IInv'
<1>1. Untouched(page, page')
  BY DEF Collapse, Untouched, IInv, TypeOK
<1>2. Kept(page, page')
  BY <1>1, PageSound, KeptSame
<1>3. TypeOK' /\ NothingLeftBehind'
  BY DEF Collapse, IInv, TypeOK, NothingLeftBehind, Visible, truth, Positions
<1> QED
  BY <1>2, <1>3, KeptHolds DEF Collapse

\* The listeners run that a tab calls when it is hidden, shown or left.
LEMMA TabHolds ==
  ASSUME IInv, Kept(page, page'), NothingLeftBehind',
         tab' \in {"visible", "hidden", "away"}, tab' # "visible" => ~page'.inView,
         tab' = "visible" => tab # "visible" /\ late' = late, late' \in {0, late},
         spent' \in [scrolls : Nat, switches : Nat, plays : Nat],
         UNCHANGED <<browser, position, now, slot, told, truth>>
  PROVE  IInv'
<1>1. late' \in 0..Lag
  BY DEF IInv, TypeOK
<1>2. TypeOK'
  BY <1>1 DEF IInv, TypeOK, Kept, Sound, truth, Positions
<1>3. page'.inView => tab' = tab /\ late' = late
  BY DEF IInv, Viewing, Kept, Visible
<1> QED
  BY <1>2, <1>3, KeptHolds

LEMMA HideHolds == ASSUME IInv, Hide PROVE IInv'
<1>1. Kept(page, page') /\ ~page'.inView /\ Unshown(page')
  BY PageSound, OnHiddenKeeps DEF Hide
<1>2. NothingLeftBehind'
  BY <1>1 DEF NothingLeftBehind, Unshown
<1>3. spent' \in [scrolls : Nat, switches : Nat, plays : Nat]
  BY DEF Hide, IInv, TypeOK
<1> QED
  BY <1>1, <1>2, <1>3, TabHolds DEF Hide

LEMMA ShowHolds == ASSUME IInv, Show PROVE IInv'
<1>1. Kept(page, page')
  BY PageSound, OnceKeeps DEF Show, OnShown
<1>2. NothingLeftBehind'
  BY DEF NothingLeftBehind, Show, Visible
<1>3. spent' \in [scrolls : Nat, switches : Nat, plays : Nat]
  BY DEF Show, IInv, TypeOK
<1> QED
  BY <1>1, <1>2, <1>3, TabHolds DEF Show, Visible

LEMMA LeaveHolds == ASSUME IInv, Leave PROVE IInv'
<1> DEFINE p == OnPagehide(page, Visible)
<1>1. /\ Kept(page, p)
      /\ ~page.inView => ~p.inView
      /\ ~Visible => Unshown(p)
  BY PageSound, OnPagehideKeeps
<1>2. Sound(p)
  BY <1>1 DEF Kept
<1>3. page' = IF Visible THEN OnHidden(p) ELSE p
  BY DEF Leave
<1> HIDE DEF p
<1>4. Kept(page, page') /\ ~page'.inView /\ Unshown(page')
  <2>1. CASE Visible
    <3>1. Kept(p, page') /\ ~page'.inView /\ Unshown(page')
      BY <1>2, <1>3, <2>1, PageSound, OnHiddenKeeps
    <3> QED
      BY <1>1, <3>1, KeptTrans
  <2>2. CASE ~Visible
    BY <1>1, <1>3, <2>2 DEF IInv, Viewing
  <2> QED
    BY <2>1, <2>2
<1>5. NothingLeftBehind'
  BY <1>4 DEF NothingLeftBehind, Unshown
<1>6. spent' \in [scrolls : Nat, switches : Nat, plays : Nat]
  BY DEF Leave, IInv, TypeOK
<1> QED
  BY <1>4, <1>5, <1>6, TabHolds DEF Leave

------------------------------------------------------------------------------
\* The ad is rendered: nothing is counted yet, and the listeners are added.
LEMMA RenderHolds == ASSUME IInv, Render PROVE IInv'
<1> USE DEF IInv
<1> DEFINE a == Track(page, "ad_impression", Visible)
           p == Track(a, "ad_measurable", Visible)
<1>1. "ad_impression" \in EventNames /\ "ad_measurable" \in EventNames
  BY DEF EventNames
<1>2. Untouched(page, a) /\ (Unshown(page) /\ ~Visible => Unshown(a))
  BY <1>1, PageSound, TrackDoes DEF Sound
<1>3. a \in Pages
  BY <1>2 DEF Untouched
<1> HIDE DEF a
<1>4. Untouched(a, p) /\ (Unshown(a) /\ ~Visible => Unshown(p))
  BY <1>1, <1>3, PageSound, TrackDoes
<1>5. page' = IF browser.observer
              THEN [p EXCEPT !.observing = TRUE, !.once = {"pagehide", "visibilitychange"}]
              ELSE p
  BY DEF Render, a
<1> HIDE DEF p
<1>6. /\ page' \in Pages
      /\ page'.queue = p.queue
      /\ page'.inView = page.inView /\ page'.enteredAt = page.enteredAt
      /\ page'.totalMs = page.totalMs /\ page'.timer = page.timer
      /\ page'.reported = page.reported /\ page'.viewTimes = page.viewTimes
  <2> DEFINE q == [p EXCEPT !.observing = TRUE, !.once = {"pagehide", "visibilitychange"}]
  <2>1. p \in Pages
    BY <1>4 DEF Untouched
  <2>2. /\ q \in Pages /\ q.queue = p.queue
        /\ q.inView = p.inView /\ q.enteredAt = p.enteredAt
        /\ q.totalMs = p.totalMs /\ q.timer = p.timer
        /\ q.reported = p.reported /\ q.viewTimes = p.viewTimes
    BY <2>1 DEF Pages
  <2> HIDE DEF q
  <2>3. page' = q \/ page' = p
    BY <1>5 DEF q
  <2> QED
    BY <1>2, <1>4, <2>1, <2>2, <2>3 DEF Untouched
<1>7. /\ slot = "requested" /\ slot' = "filled"
      /\ UNCHANGED <<browser, tab, position, now, told, late, spent, truth>>
  BY DEF Render
<1>8. ~page.observing /\ page.viewTimes = {} /\ ~page.inView /\ page.timer = None
  BY <1>7 DEF Rendered, Viewing
<1>9. TypeOK'
  BY <1>6, <1>7 DEF TypeOK, truth, Positions
<1>10. Viewing' /\ Rendered' /\ Finished' /\ Gaps' /\ DwellReportsAgree'
  BY <1>6, <1>7, <1>8 DEF Viewing, Rendered, Finished, Gaps, DwellReportsAgree
<1>11. Counted'
  <2>1. Believed(page)' = Believed(page) /\ Owed' = Owed
    BY <1>6, <1>7, <1>8 DEF Believed, Owed
  <2> QED
    BY <1>7, <2>1 DEF Counted, truth
<1>12. NothingLeftBehind'
  BY <1>2, <1>4, <1>6, <1>7 DEF NothingLeftBehind, Unshown, Visible
<1> QED
  BY <1>7, <1>9, <1>10, <1>11, <1>12 DEF ViewableIsContinuous, truth

\* The observer tells: a stretch begins with the timer, or ends as with Stop.
LEMMA NotifyHolds == ASSUME IInv, Notify PROVE IInv'
<1> USE DEF IInv
<1>1. /\ Visible /\ page.observing /\ told # Fraction
      /\ told' = Fraction /\ late' = 0 /\ page' = Entry(page, Fraction)
      /\ gap' = IF page'.inView THEN 0 ELSE gap
      /\ UNCHANGED <<browser, tab, position, now, slot, spent, seen, left, absent, viewable>>
  BY DEF Notify, Behind
<1>2. page.viewTimes = {} /\ slot = "filled"
  BY <1>1 DEF Finished, Rendered
<1>3. CASE page.inView
  <2>1. told = "half" /\ position # "inside" /\ Fraction = "less"
    BY <1>1, <1>3 DEF Viewing, Fraction
  <2>2. page' = Stop(page)
    BY <1>1, <1>3, <2>1 DEF Entry
  <2>3. Kept(page, page') /\ ~page'.inView /\ page'.timer = None
    BY <2>2, PageSound, StopKeeps
  <2>4. /\ page' \in Pages /\ page'.totalMs = Believed(page) /\ page'.queue = page.queue
        /\ page'.viewTimes = {} /\ page'.reported = page.reported
    BY <1>2, <2>2, PageSound, StopDoes
  <2>5. TypeOK'
    BY <1>1, <2>1, <2>3, <2>4 DEF TypeOK, Positions
  <2>6. Counted'
    <3>1. Believed(page)' = Believed(page) /\ Owed' = 0
      BY <2>3, <2>4 DEF Believed, Owed
    <3>2. Owed \in Nat
      BY DEF Owed, TypeOK
    <3>3. Believed(page) \in Nat /\ seen + Lag * left \in Nat
      BY PageSound, BelievedType DEF TypeOK
    <3> QED
      BY <1>1, <3>1, <3>2, <3>3 DEF Counted
  <2>7. Viewing' /\ Rendered' /\ Finished' /\ Gaps' /\ DwellReportsAgree'
    BY <1>1, <1>2, <2>3, <2>4 DEF Viewing, Rendered, Finished, Gaps, DwellReportsAgree
  <2>8. NothingLeftBehind' /\ ViewableIsContinuous'
    BY <1>1 DEF NothingLeftBehind, ViewableIsContinuous, Visible
  <2> QED
    BY <2>5, <2>6, <2>7, <2>8
<1>4. CASE ~page.inView /\ Fraction = "half"
  <2>1. page' = Enter(page)
    BY <1>1, <1>4 DEF Entry
  <2>2. page \in Pages /\ now \in Nat
    BY DEF TypeOK
  <2>3. (IF page.reported THEN None ELSE now + ViewTicks) \in Nat \cup {None}
    BY <2>2
  <2>4. /\ page' \in Pages /\ page'.inView /\ page'.enteredAt = now
        /\ page'.totalMs = page.totalMs /\ page'.queue = page.queue
        /\ page'.viewTimes = {} /\ page'.reported = page.reported
        /\ page'.observing = page.observing /\ page'.once = page.once
    BY <1>2, <2>1, <2>2, <2>3 DEF Enter, Pages
  <2>5. position = "inside"
    BY <1>4 DEF Fraction
  <2>6. TypeOK'
    BY <1>1, <1>4, <2>4 DEF TypeOK, Positions
  <2>7. Counted'
    <3>1. page.totalMs \in Nat
      BY <2>2 DEF Pages
    <3>2. Believed(page)' = page.totalMs /\ Believed(page) = page.totalMs
      BY <1>1, <1>4, <2>2, <2>4, <3>1 DEF Believed
    <3>3. Owed' = 0 /\ Owed = 0
      BY <1>1, <2>5 DEF Owed
    <3> QED
      BY <1>1, <3>2, <3>3 DEF Counted
  <2>8. Viewing' /\ Rendered' /\ Finished' /\ Gaps' /\ DwellReportsAgree'
    <3>1. Rendered' /\ Finished' /\ DwellReportsAgree'
      BY <1>1, <1>2, <2>4 DEF Rendered, Finished, DwellReportsAgree
    <3>2. Viewing'
      <4>1. told' = "half" /\ Visible'
        BY <1>1, <1>4 DEF Visible
      <4>2. page'.enteredAt <= now'
        BY <1>1, <2>2, <2>4
      <4> QED
        BY <1>1, <2>4, <4>1, <4>2 DEF Viewing
    <3>3. Gaps'
      <4>1. gap' = 0 /\ position' = "inside"
        BY <1>1, <2>4, <2>5
      <4> QED
        BY <4>1 DEF Gaps
    <3> QED
      BY <3>1, <3>2, <3>3
  <2>9. NothingLeftBehind' /\ ViewableIsContinuous'
    BY <1>1 DEF NothingLeftBehind, ViewableIsContinuous, Visible
  <2> QED
    BY <2>6, <2>7, <2>8, <2>9
<1>5. CASE ~page.inView /\ Fraction = "less"
  <2>1. page' = page
    BY <1>1, <1>5 DEF Entry
  <2>2. gap' = gap
    BY <1>1, <1>5, <2>1
  <2>3. TypeOK'
    BY <1>1, <1>5, <2>1, <2>2 DEF TypeOK, Positions
  <2>4. Believed(page)' = Believed(page) /\ Owed' = 0 /\ Owed = 0
    BY <1>1, <1>5, <2>1 DEF Believed, Owed
  <2> QED
    BY <1>1, <1>5, <2>1, <2>2, <2>3, <2>4 DEF Counted, Viewing, Rendered, Finished, Gaps,
       DwellReportsAgree, NothingLeftBehind, ViewableIsContinuous, Visible
<1> QED
  BY <1>3, <1>4, <1>5 DEF Fraction

\* The timer reports the standard at most once, before any dwell time.
LEMMA TimerFiresHolds == ASSUME IInv, TimerFires PROVE IInv'
<1> USE DEF IInv
<1> DEFINE r == Report(page)
<1>1. /\ page.timer # None /\ viewable' = gap
      /\ UNCHANGED <<browser, tab, position, now, slot, told, late, spent, seen, left, absent, gap>>
  BY DEF TimerFires
<1>2. page.inView /\ page.viewTimes = {} /\ Visible
  BY <1>1 DEF Viewing, Finished
<1>3. /\ r \in Pages /\ r.inView = page.inView /\ r.enteredAt = page.enteredAt
      /\ r.totalMs = page.totalMs /\ r.observing = page.observing
      /\ r.once = page.once /\ r.viewTimes = page.viewTimes
  <2> DEFINE p == [page EXCEPT !.reported = TRUE]
  <2>1. page \in Pages
    BY DEF TypeOK
  <2>2. /\ p \in Pages /\ p.inView = page.inView /\ p.enteredAt = page.enteredAt
        /\ p.totalMs = page.totalMs /\ p.observing = page.observing
        /\ p.once = page.once /\ p.viewTimes = page.viewTimes
    BY <2>1 DEF Pages
  <2>3. r = IF page.reported THEN page ELSE Track(p, "ad_viewable", Visible)
    BY DEF Report
  <2> HIDE DEF p
  <2>4. "ad_viewable" \in EventNames
    BY DEF EventNames
  <2>5. Untouched(p, Track(p, "ad_viewable", Visible))
    BY <2>2, <2>4, PageSound, TrackDoes
  <2> HIDE DEF r
  <2> QED
    BY <2>1, <2>2, <2>3, <2>5 DEF Untouched
<1>4. page' = [r EXCEPT !.timer = None]
  BY DEF TimerFires
<1> HIDE DEF r
<1>5. /\ page' \in Pages /\ page'.inView /\ page'.enteredAt = page.enteredAt
      /\ page'.totalMs = page.totalMs /\ page'.timer = None
      /\ page'.observing = page.observing /\ page'.once = page.once /\ page'.viewTimes = {}
  BY <1>2, <1>3, <1>4 DEF Pages
<1>6. TypeOK'
  BY <1>1, <1>5 DEF TypeOK, Positions
<1>7. Counted'
  <2>1. Believed(page)' = Believed(page) /\ Owed' = Owed
    BY <1>1, <1>2, <1>5 DEF Believed, Owed
  <2> QED
    BY <1>1, <2>1 DEF Counted
<1>8. Viewing' /\ Rendered' /\ Finished' /\ Gaps' /\ DwellReportsAgree'
  BY <1>1, <1>2, <1>5 DEF Viewing, Rendered, Finished, Gaps, DwellReportsAgree, Visible
<1>9. ViewableIsContinuous' /\ NothingLeftBehind'
  BY <1>1, <1>2 DEF Gaps, ViewableIsContinuous, NothingLeftBehind, Visible
<1> QED
  BY <1>6, <1>7, <1>8, <1>9

\* The ad goes out of view: the tag may go on counting for the lag of this departure.
LEMMA ScrollHolds == ASSUME IInv, Scroll PROVE IInv'
<1> USE DEF IInv
<1>1. /\ Visible
      /\ position' \in Positions /\ position' # position
      /\ left' = left + IF InView THEN 1 ELSE 0
      /\ absent' = 0
      /\ late' = IF told = Fraction' THEN 0 ELSE late
      /\ spent' = [spent EXCEPT !.scrolls = @ + 1]
      /\ UNCHANGED <<browser, tab, now, slot, page, told, seen, gap, viewable>>
  BY DEF Scroll
<1>2. late \in 0..Lag /\ late' \in 0..Lag
  BY <1>1 DEF TypeOK
<1>3. left \in Nat /\ left' \in Nat /\ (left' = left \/ left' = left + 1)
  BY <1>1 DEF TypeOK
<1>4. TypeOK'
  BY <1>1, <1>2, <1>3 DEF TypeOK, Positions
<1>5. Believed(page)' = Believed(page) /\ Believed(page) \in Nat
  BY <1>1, PageSound, BelievedType DEF Believed
<1>6. /\ Lag * left \in Nat /\ Lag * left' \in Nat /\ Lag * left <= Lag * left'
      /\ left' = left + 1 => Lag * left' = Lag * left + Lag
  <2> HIDE DEF IInv
  <2>1. Lag \in Nat
    BY TimeAssumption
  <2>2. Lag * left \in Nat /\ Lag * (left + 1) \in Nat /\ Lag * (left + 1) = Lag * left + Lag
    BY <1>3, <2>1, Times
  <2>3. CASE left' = left
    BY <1>3, <2>1, <2>2, <2>3
  <2>4. CASE left' = left + 1
    BY <1>3, <2>1, <2>2, <2>4
  <2> QED
    BY <1>3, <2>3, <2>4
<1>7. seen \in Nat /\ seen' = seen
  BY <1>1 DEF TypeOK
<1>8. Counted'
  <2>1. CASE page.inView /\ position = "inside"
    <3>1. left' = left + 1
      BY <1>1, <1>3, <2>1 DEF Viewing, Rendered, InView
    <3>2. Owed = 0 /\ Owed' <= Lag /\ Owed' \in Nat
      BY <1>1, <1>2, <2>1 DEF Owed
    <3>3. Believed(page) <= seen + Lag * left
      BY <1>5, <3>2 DEF Counted
    <3> HIDE DEF IInv
    <3> QED
      BY <1>5, <1>6, <1>7, <3>1, <3>2, <3>3 DEF Counted
  <2>2. CASE page.inView /\ position # "inside"
    <3>1. Owed = Lag - late /\ Owed' \in {0, Lag - late'}
      BY <1>1, <2>2 DEF Owed
    <3>2. CASE position' = "inside"
      <4>1. Owed' = 0
        BY <3>2 DEF Owed
      <4>2. Lag - late \in Nat
        BY <1>2
      <4> QED
        BY <1>5, <1>6, <1>7, <3>1, <4>1, <4>2 DEF Counted
    <3>3. CASE position' # "inside"
      <4>1. late' = late
        BY <1>1, <2>2, <3>3 DEF Viewing, Fraction
      <4>2. Owed' = Owed /\ Owed \in Nat
        BY <1>2, <3>1, <2>2, <3>3, <4>1, <1>1 DEF Owed
      <4> QED
        BY <1>5, <1>6, <1>7, <4>2 DEF Counted
    <3> QED
      BY <3>2, <3>3
  <2>3. CASE ~page.inView
    <3>1. Owed = 0 /\ Owed' = 0
      BY <1>1, <2>3 DEF Owed
    <3> QED
      BY <1>5, <1>6, <1>7, <3>1 DEF Counted
  <2> QED
    BY <2>1, <2>2, <2>3
<1>9. Viewing' /\ Rendered' /\ Finished' /\ DwellReportsAgree'
  BY <1>1 DEF Viewing, Rendered, Finished, DwellReportsAgree, Visible
<1>10. Gaps'
  BY <1>1, <1>2 DEF Gaps
<1>11. ViewableIsContinuous' /\ NothingLeftBehind'
  BY <1>1 DEF ViewableIsContinuous, NothingLeftBehind, Visible
<1> QED
  BY <1>4, <1>8, <1>9, <1>10, <1>11

\* A tick in view is seen and counted; one out of view is counted only if the tag
\* is yet to be told, which uses up what is owed.
LEMMA TickHolds == ASSUME IInv, Tick PROVE IInv'
<1> USE DEF IInv
<1>1. /\ Behind => late < Lag
      /\ now' = now + 1
      /\ late' = IF Behind THEN late + 1 ELSE 0
      /\ seen' = seen + IF InView THEN 1 ELSE 0
      /\ absent' = IF InView THEN 0 ELSE absent + 1
      /\ gap' = Larger(gap, absent')
      /\ UNCHANGED <<browser, tab, position, slot, page, told, spent, left, viewable>>
  BY DEF Tick
<1>2. /\ late \in 0..Lag /\ now \in Nat /\ seen \in Nat /\ absent \in Nat /\ gap \in Nat
      /\ left \in Nat /\ page \in Pages
  BY DEF TypeOK
<1>3. late' \in 0..Lag /\ seen' \in Nat /\ absent' \in Nat /\ gap' \in Nat /\ now' \in Nat
  BY <1>1, <1>2 DEF Larger
<1>4. TypeOK'
  BY <1>1, <1>3 DEF TypeOK, Positions
<1>5. page.inView => (InView <=> position = "inside") /\ (Behind <=> position # "inside")
  BY DEF Viewing, Rendered, InView, Behind, Fraction
<1>6. Lag * left \in Nat /\ Lag * left' = Lag * left /\ seen <= seen'
  BY <1>1, <1>2
<1>7. Believed(page) \in Nat
  BY PageSound, BelievedType
<1>8. Counted'
  <2>1. CASE page.inView
    <3>1. Believed(page)' = Believed(page) + 1
      <4>1. page.totalMs \in Nat /\ page.enteredAt \in Nat
        BY <1>2 DEF Pages
      <4> QED
        BY <1>1, <1>2, <2>1, <4>1 DEF Believed
    <3>2. CASE position = "inside"
      <4>1. seen' = seen + 1 /\ Owed = 0 /\ Owed' = 0
        BY <1>1, <1>5, <2>1, <3>2 DEF Owed
      <4> QED
        BY <1>2, <1>6, <1>7, <3>1, <4>1 DEF Counted
    <3>3. CASE position # "inside"
      <4>1. Owed = Lag - late /\ Owed' = Lag - (late + 1) /\ seen' = seen
        BY <1>1, <1>2, <1>5, <2>1, <3>3 DEF Owed
      <4> QED
        BY <1>2, <1>6, <1>7, <3>1, <4>1 DEF Counted
    <3> QED
      BY <3>2, <3>3
  <2>2. CASE ~page.inView
    <3>1. Believed(page)' = Believed(page) /\ Owed = 0 /\ Owed' = 0
      BY <1>1, <2>2 DEF Believed, Owed
    <3> QED
      BY <1>2, <1>3, <1>6, <1>7, <3>1 DEF Counted
  <2> QED
    BY <2>1, <2>2
<1>9. Viewing'
  <2>1. page.inView => page.enteredAt <= now'
    <3>1. page.enteredAt \in Nat
      BY <1>2 DEF Pages
    <3> QED
      BY <1>1, <1>2, <3>1 DEF Viewing
  <2> QED
    BY <1>1, <2>1 DEF Viewing, Visible
<1>10. Rendered' /\ Finished' /\ DwellReportsAgree'
  BY <1>1 DEF Rendered, Finished, DwellReportsAgree
<1>11. Gaps'
  <2>1. page.inView /\ position # "inside" => absent' <= late'
    BY <1>1, <1>2, <1>5 DEF Gaps
  <2>2. page.timer # None => absent' <= Lag
    <3>1. page.timer # None => page.inView
      BY DEF Viewing
    <3>2. CASE position = "inside"
      BY <1>1, <1>5, <3>1, <3>2
    <3>3. CASE position # "inside"
      BY <1>3, <2>1, <3>1, <3>3
    <3> QED
      BY <3>2, <3>3
  <2> QED
    BY <1>1, <1>2, <1>3, <2>1, <2>2 DEF Gaps, Larger
<1>12. ViewableIsContinuous' /\ NothingLeftBehind'
  BY <1>1 DEF ViewableIsContinuous, NothingLeftBehind, Visible
<1> QED
  BY <1>4, <1>8, <1>9, <1>10, <1>11, <1>12

------------------------------------------------------------------------------
LEMMA NextHolds == IInv /\ [Next]_vars => IInv'
<1> SUFFICES ASSUME IInv, [Next]_vars PROVE IInv'
  OBVIOUS
<1>1. CASE RequestAd \/ Render \/ Collapse
  BY <1>1, RequestAdHolds, RenderHolds, CollapseHolds
<1>2. CASE Notify \/ TimerFires
  BY <1>2, NotifyHolds, TimerFiresHolds
<1>3. CASE Play \/ Scroll \/ Tick
  BY <1>3, PlayHolds, ScrollHolds, TickHolds
<1>4. CASE Hide \/ Show \/ Leave
  BY <1>4, HideHolds, ShowHolds, LeaveHolds
<1>5. CASE UNCHANGED vars
  <2>1. TypeOK' /\ Viewing' /\ Rendered' /\ Finished' /\ Gaps'
    BY <1>5 DEF vars, truth, IInv, TypeOK, Positions, Viewing, Rendered, Finished, Gaps, Visible
  <2>2. Counted'
    BY <1>5 DEF vars, truth, IInv, Counted, Believed, Owed
  <2>3. ViewableIsContinuous' /\ DwellReportsAgree' /\ NothingLeftBehind'
    BY <1>5 DEF vars, truth, IInv, ViewableIsContinuous, DwellReportsAgree,
       NothingLeftBehind, Visible
  <2> QED
    BY <2>1, <2>2, <2>3 DEF IInv
<1> QED
  BY <1>1, <1>2, <1>3, <1>4, <1>5 DEF Next

LEMMA Invariant == Spec => []IInv
BY InitHolds, NextHolds, PTL DEF Spec

\* The variables of the scripts have their types: no dwell time is negative.
THEOREM TypeCorrect == Spec => []TypeOK
<1>1. IInv => TypeOK
  BY DEF IInv
<1> QED
  BY <1>1, Invariant, PTL

\* Whatever the standard and the lag, ad_viewable is tracked only of an ad that was
\* never gone for longer than the lag since its timer was set.
THEOREM ViewableEarned == Spec => []ViewableIsContinuous
<1>1. IInv => ViewableIsContinuous
  BY DEF IInv
<1> QED
  BY <1>1, Invariant, PTL

\* The dwell time is what was seen, but for the lag of each departure.
THEOREM DwellTimeSound == Spec => []NeverOverstated
<1>1. IInv => NeverOverstated
  <2> SUFFICES ASSUME IInv PROVE page.totalMs <= seen + Lag * left
    BY DEF NeverOverstated
  <2>1. page.totalMs \in Nat /\ page.totalMs <= Believed(page) /\ Believed(page) \in Nat
    <3>1. page \in Pages /\ now \in Nat /\ (page.inView => page.enteredAt <= now)
      BY DEF IInv, TypeOK, Viewing
    <3>2. page.totalMs \in Nat /\ page.enteredAt \in Nat
      BY <3>1 DEF Pages
    <3> QED
      BY <3>1, <3>2 DEF Believed
  <2>2. Owed \in Nat
    BY DEF IInv, TypeOK, Owed
  <2>3. seen + Lag * left \in Nat
    BY DEF IInv, TypeOK
  <2> QED
    BY <2>1, <2>2, <2>3 DEF IInv, Counted
<1> QED
  BY <1>1, Invariant, PTL

\* However often finish runs, its reports agree, and the verdict in them stands.
THEOREM DwellReportsFinal == Spec => []DwellReportsAgree
<1>1. IInv => DwellReportsAgree
  BY DEF IInv
<1> QED
  BY <1>1, Invariant, PTL

\* A page that is not visible has sent all that was tracked while it was.
THEOREM QueueSent == Spec => []NothingLeftBehind
<1>1. IInv => NothingLeftBehind
  BY DEF IInv
<1> QED
  BY <1>1, Invariant, PTL
==============================================================================
