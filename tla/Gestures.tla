------------------------------ MODULE Gestures ------------------------------
(***************************************************************************)
(* Gesture recognition (oxyos-gestures: lib.rs, handler.rs), a port of     *)
(* react-native-gesture-handler's orchestrator and handlers: which         *)
(* handlers take part in a gesture, which wait for others to fail, which   *)
(* are cancelled when another activates, and what JavaScript is told.      *)
(*                                                                         *)
(* How far, how fast and which way the pointers moved is abstracted to the *)
(* facts of each event: "far" (beyond a pan's distance), "astray" (beyond  *)
(* a tap's or a long press's), "fast" (a fling's velocity and direction),  *)
(* "spread" (a pinch's slop), "turn" (a rotation's threshold), "outside"   *)
(* (the first pointer outside the view).  A timer is set or not, and one   *)
(* set may fire at any time.  Fields "told", "heard", "wrong", "early"     *)
(* and "both" are what JavaScript was sent; recognition reads none.        *)
(*                                                                         *)
(* A state change cancels and activates others, whose changes do the same: *)
(* the operators are RECURSIVE as the methods are.                         *)
(***************************************************************************)
EXTENDS Integers, Sequences, FiniteSets, SequencesExt

CONSTANTS
  Handlers, Kind,        \* each handler's kind
  View, Above,           \* its view, and the views each view is in
  Spots,                 \* for each pointer, the views under it, deepest first
  Pointers, Need, Most, Taps,
  ManualActivation, NeedsPointerData, LongPressFirst,
  WaitFor, Simultaneous, Blocks,
  Moves,                 \* the sets of facts an event may have
  Sets,                  \* the states JavaScript sets by itself
  Requests               \* which of "drop", "relate", "disable", "gone" there are

Kinds == {"pan", "tap", "press", "fling", "manual", "native", "pinch", "rotation"}
Finished == {"FAILED", "CANCELLED", "END"}
States == Finished \cup {"UNDETERMINED", "BEGAN", "ACTIVE"}

HandlersAssumption ==
  /\ Kind \in [Handlers -> Kinds] /\ Need \in [Handlers -> Nat] /\ Most \in [Handlers -> Nat]
  /\ Taps \in [Handlers -> Nat]
  /\ ManualActivation \in [Handlers -> BOOLEAN] /\ NeedsPointerData \in [Handlers -> BOOLEAN]
  /\ LongPressFirst \in [Handlers -> BOOLEAN]
RelationsAssumption ==
  /\ \A r \in {WaitFor, Simultaneous, Blocks} : r \in [Handlers -> SUBSET Handlers]
  /\ Sets \subseteq States

VARIABLE g

NoDetector == [on |-> FALSE, progress |-> FALSE, paused |-> FALSE, first |-> {}, second |-> {}]
Fresh ==
  [state |-> "UNDETERMINED", tracked |-> {}, active |-> FALSE, awaiting |-> FALSE,
   timer |-> FALSE, taps |-> 0, most |-> 0, touches |-> {}, detector |-> NoDetector,
   told |-> "UNDETERMINED", heard |-> {}]

Init ==
  g = [of |-> [h \in Handlers |-> Fresh], exists |-> Handlers, enabled |-> Handlers,
       attached |-> SetToSeq(Handlers), related |-> Handlers, gone |-> {},
       recorded |-> <<>>, awaiting |-> <<>>, activated |-> <<>>,
       intercepting |-> FALSE, pressed |-> FALSE, down |-> {}, wrong |-> FALSE,
       early |-> FALSE, both |-> FALSE]

-----------------------------------------------------------------------------
(* Relations. *)

WaitsFor(s, h, o) ==
  h # o /\ ((h \in s.related /\ o \in WaitFor[h]) \/ (o \in s.related /\ h \in Blocks[o]))
With(s, a, b) ==
  a = b \/ (a \in s.related /\ b \in Simultaneous[a]) \/ (b \in s.related /\ a \in Simultaneous[b])
CommonPointers(s, a, b) == s.of[a].tracked \cap s.of[b].tracked # {}
DescendantOf(h, o) == View[o] \in Above[View[h]]

Recorded(s) == ToSet(s.recorded)

\* What JavaScript is told, and whether that follows on what it was told before.
DispatchState(s, h, new, old) ==
  [s EXCEPT !.of[h].told = new,
            !.wrong = @ \/ s.of[h].told # old,
            !.both = @ \/ (/\ new = "ACTIVE"
                           /\ \E o \in Recorded(s) :
                                WaitsFor(s, h, o) /\ s.of[o].state = "END"),
            !.early = @ \/ (/\ new = "ACTIVE"
                            /\ \E o \in Recorded(s) :
                                 WaitsFor(s, h, o) /\ s.of[o].state \notin Finished)]

CleanupAwaiting(s) ==
  [s EXCEPT !.awaiting = SelectSeq(@, LAMBDA h : s.of[h].awaiting)]

\* One finished leaves the gesture, its state kept until the next.
Reset(r) ==
  [r EXCEPT !.tracked = {}, !.touches = {}, !.timer = FALSE, !.active = FALSE,
            !.awaiting = FALSE, !.taps = 0, !.most = 0, !.detector = NoDetector]

Cleanup(s) ==
  LET done == {h \in Recorded(s) : s.of[h].state \in Finished /\ ~s.of[h].awaiting}
  IN [s EXCEPT !.recorded = SelectSeq(@, LAMBDA h : h \notin done),
               !.activated = SelectSeq(@, LAMBDA h : h \notin done),
               !.of = [h \in Handlers |-> IF h \in done THEN Reset(@[h]) ELSE @[h]]]

\* The latest activated, or let wait, first.
Latest(s, h) == <<h>> \o SelectSeq(s.activated, LAMBDA x : x # h)

CancelledBy(s, h, o) ==
  /\ CommonPointers(s, h, o) /\ ~With(s, h, o)
  /\ ~(h # o /\ (s.of[h].awaiting \/ s.of[h].state = "ACTIVE"))

-----------------------------------------------------------------------------
(* State changes. *)

RECURSIVE MoveTo(_, _, _)

Cancel(s, h) ==
  IF s.of[h].state \in {"ACTIVE", "UNDETERMINED", "BEGAN"} \/ s.of[h].awaiting
  THEN MoveTo([s EXCEPT !.of[h].timer = FALSE], h, "CANCELLED") ELSE s

\* Those the handler does not go with are cancelled, the latest recorded first.
CancelUnless(s, o, h) == IF CancelledBy(s, o, h) THEN Cancel(s, o) ELSE s
CancelOthers(s, h) == FoldLeft(LAMBDA done, o : CancelUnless(done, o, h), s, Reverse(s.recorded))
FreeWaiting(s, h) ==
  CleanupAwaiting([s EXCEPT !.of = [o \in Handlers |->
     IF o \in ToSet(s.awaiting) /\ CancelledBy(s, o, h) THEN [@[o] EXCEPT !.awaiting = FALSE] ELSE @[o]]])

\* It is told what it came to while it waited, and what it was told is ended.
ToldUpTo(s, h, was) ==
  IF was = "ACTIVE" THEN s
  ELSE IF was = "END" THEN DispatchState(s, h, "END", "ACTIVE")
  ELSE DispatchState(DispatchState(s, h, "END", "ACTIVE"), h, "UNDETERMINED", "END")
TellActive(s, h, was) ==
  IF was \in {"FAILED", "CANCELLED"} THEN s
  ELSE ToldUpTo(DispatchState([s EXCEPT !.intercepting = @ \/ s.pressed], h, "ACTIVE", "BEGAN"), h, was)

MakeActive(s, h) ==
  TellActive(FreeWaiting(CancelOthers(
    [s EXCEPT !.of[h].awaiting = FALSE, !.of[h].active = TRUE, !.activated = Latest(s, h)], h), h),
    h, s.of[h].state)
TryActivate(s, h) ==
  LET finished == \E o \in Recorded(s) : WaitsFor(s, h, o) /\ s.of[o].state = "END"
      active == \E o \in Recorded(s) : /\ CommonPointers(s, h, o) /\ s.of[o].active
                                       /\ ~With(s, h, o) /\ DescendantOf(h, o)
      waits == \E o \in Recorded(s) : s.of[o].state \notin Finished /\ WaitsFor(s, h, o)
  IN IF finished \/ active THEN Cancel(s, h)
     ELSE IF waits
     THEN IF h \in ToSet(s.awaiting) THEN s
          ELSE [s EXCEPT !.awaiting = Append(@, h), !.of[h].awaiting = TRUE, !.activated = Latest(s, h)]
     ELSE [MakeActive(s, h) EXCEPT !.of[h].awaiting = FALSE]

\* A mistake: one that waited goes on whichever way the other ended.
LetGoEither(s, o, h, new) ==
  IF ~WaitsFor(s, o, h) \/ o \notin ToSet(s.awaiting) THEN s ELSE MakeActive(s, o)
\* One that waits for a handler that has finished.
ToldCancelled(s, o) ==
  [(IF s.of[o].state = "END" THEN DispatchState(s, o, "CANCELLED", "BEGAN") ELSE s)
     EXCEPT !.of[o].awaiting = FALSE]
LetGo(s, o, h, new) ==
  IF ~WaitsFor(s, o, h) \/ o \notin ToSet(s.awaiting) THEN s
  ELSE IF new = "END" THEN ToldCancelled(Cancel(s, o), o)
  ELSE TryActivate(s, o)

\* Those that wait for it are let go, once it has finished.
LetAllGo(s, h, new) ==
  IF new \notin Finished THEN s
  ELSE CleanupAwaiting(FoldLeft(LAMBDA done, o : LetGo(done, o, h, new), s, s.awaiting))

Report(s, h, new, prev) ==
  IF prev \in {"ACTIVE", "END"}
  THEN IF s.of[h].active THEN DispatchState(s, h, new, prev)
       ELSE IF new \in {"CANCELLED", "FAILED"} THEN DispatchState(s, h, new, "BEGAN")
       ELSE s
  ELSE IF prev # "UNDETERMINED" \/ new # "CANCELLED" THEN DispatchState(s, h, new, prev)
  ELSE s

OrActivate(s, h, new, prev) ==
  IF new = "ACTIVE" THEN TryActivate(s, h) ELSE Report(s, h, new, prev)
OnStateChange(s, h, new, prev) ==
  OrActivate(LetAllGo(
    IF new \in {"CANCELLED", "FAILED"} THEN [s EXCEPT !.of[h].awaiting = FALSE] ELSE s, h, new),
    h, new, prev)

\* Pointers it told of are cancelled as it finishes.
CancelPointers(s, h) == [s EXCEPT !.of[h].touches = {}, !.of[h].heard = {}]

Timer(s, h, on) == [s EXCEPT !.of[h].timer = on]
Moved(s, h, new) == [(IF new \in Finished THEN CancelPointers(s, h) ELSE s) EXCEPT !.of[h].state = new]
Untimed(s, h) == IF Kind[h] = "press" THEN Timer(s, h, FALSE) ELSE s

MoveTo(s, h, new) ==
  IF s.of[h].state = new THEN s
  ELSE Untimed(OnStateChange(Moved(s, h, new), h, new, s.of[h].state), h)

\* What each state is reached from; a cancellation also ends a wait.
Leavable ==
  [none |-> {}, BEGAN |-> {"UNDETERMINED"}, END |-> {"BEGAN", "ACTIVE"}, ACTIVE |-> {"UNDETERMINED", "BEGAN"},
   FAILED |-> {"UNDETERMINED", "BEGAN", "ACTIVE"}, CANCELLED |-> {"UNDETERMINED", "BEGAN", "ACTIVE"}]
Goes(s, h, to) ==
  IF /\ s.of[h].state \notin Leavable[to]
     /\ to = "CANCELLED" => ~s.of[h].awaiting
  THEN s ELSE MoveTo(IF to = "CANCELLED" THEN Timer(s, h, FALSE) ELSE s, h, to)
Begin(s, h) == Goes(s, h, "BEGAN")
Fail(s, h) == Goes(s, h, "FAILED")

\* A tap and a fling end as soon as they activate.
EndAtOnce(s, h, to) ==
  IF to \in {"activate", "force"} /\ Kind[h] \in {"tap", "fling"} THEN Goes(s, h, "END") ELSE s
Activate(s, h, force) ==
  EndAtOnce(IF force \/ ~ManualActivation[h] THEN Goes(s, h, "ACTIVE") ELSE s, h, "force")

-----------------------------------------------------------------------------
(* The handlers' own recognition.  e is the event as the handler sees it:  *)
(* its action, how many of its pointers are in it, who acted, its facts.   *)

Far(e) == "far" \in e.facts
Astray(e) == "astray" \in e.facts

\* How a handler goes on: to a state, as it activates of its own, or not at all.
GoesOn(s, h, to) ==
  IF to = "none" THEN s
  ELSE EndAtOnce(IF to = "activate" /\ ManualActivation[h] THEN s
                 ELSE Goes(s, h, IF to = "activate" THEN "ACTIVE" ELSE to), h, to)

HeldFirst(s, h) == IF LongPressFirst[h] THEN Timer(s, h, TRUE) ELSE s
PanBegun(s, h, e) ==
  IF s.of[h].state # "UNDETERMINED" \/ e.count < Need[h] THEN s ELSE HeldFirst(Begin(s, h), h)

Slips(s, h, e) ==
  /\ s.of[h].state = "BEGAN" /\ Far(e) /\ e.action # "Up"
  /\ e.action = "PointerDown" => e.count <= Most[h]
PanTo(s, h, e) ==
  CASE e.action = "Up" -> IF s.of[h].state = "ACTIVE" THEN "END" ELSE "FAILED"
    [] e.action = "PointerDown" /\ e.count > Most[h] ->
         IF s.of[h].state = "ACTIVE" THEN "CANCELLED" ELSE "FAILED"
    [] e.action = "PointerUp" /\ s.of[h].state = "ACTIVE" /\ e.count < Need[h] -> "FAILED"
    [] OTHER -> IF s.of[h].state # "BEGAN" \/ ~Far(e) THEN "none"
                ELSE IF LongPressFirst[h] THEN "FAILED" ELSE "activate"
Stopped(begun, s, h, e) ==
  IF Slips(s, h, e) /\ LongPressFirst[h] THEN Timer(begun, h, FALSE) ELSE begun
PanHandle(s, h, e) == GoesOn(Stopped(PanBegun(s, h, e), s, h, e), h, PanTo(s, h, e))

Tapped(s, h) ==
  [s EXCEPT !.of[h].taps = IF @ > Taps[h] THEN @ ELSE @ + 1, !.of[h].timer = FALSE]
TapDone(s, h) == s.of[h].taps = Taps[h] /\ s.of[h].most >= Need[h]
TapWaits(s, h, waits) == IF waits THEN Timer(s, h, TRUE) ELSE s
TapOn(s, h, e, was) ==
  CASE was = "BEGAN" /\ e.action = "Up" ->
         TapWaits(GoesOn(s, h, IF TapDone(s, h) THEN "activate" ELSE "none"), h, ~TapDone(s, h))
    [] was = "BEGAN" /\ e.action = "Down" -> Timer(s, h, TRUE)
    [] was = "UNDETERMINED" ->
         Timer(Goes(s, h, IF e.action = "Down" THEN "BEGAN" ELSE "none"), h, TRUE)
    [] OTHER -> s
TapSeen(s, h, e) ==
  IF Astray(e) THEN Fail(s, h)
  ELSE TapOn(IF s.of[h].state = "BEGAN" /\ e.action = "Up" THEN Tapped(s, h) ELSE s, h, e, s.of[h].state)
TapHandle(s, h, e) == TapSeen([s EXCEPT !.of[h].most = IF e.count > @ THEN e.count ELSE @], h, e)

\* most counts the pointers down on a long press.
PressNone(s, h) == [s EXCEPT !.of[h].most = 0]
PressBegun(s, h) ==
  IF s.of[h].state = "UNDETERMINED" THEN [Begin(s, h) EXCEPT !.of[h].most = @ + 1] ELSE s
PressTooMany(s, h) == IF s.of[h].most > Need[h] THEN PressNone(Fail(s, h), h) ELSE s
PressMore(s, h, e) ==
  IF e.action # "PointerDown" THEN s ELSE PressTooMany([s EXCEPT !.of[h].most = @ + 1], h)
PressTimed(s, h, e) ==
  IF /\ s.of[h].state = "BEGAN" /\ s.of[h].most = Need[h]
     /\ e.action \in {"Down", "PointerDown"} THEN Timer(s, h, TRUE) ELSE s
PressFewer(s, h) == [s EXCEPT !.of[h].most = IF @ = 0 THEN 0 ELSE @ - 1]
PressOneUp(s, h) ==
  IF s.of[h].most < Need[h] /\ s.of[h].state # "ACTIVE" THEN PressNone(Fail(s, h), h) ELSE s
PressEnds(s, h, e) ==
  IF e.action = "PointerUp" THEN PressOneUp(PressFewer(s, h), h)
  ELSE Goes(IF e.action = "Up" THEN Timer(PressFewer(s, h), h, FALSE) ELSE s, h,
            IF e.action # "Up" /\ ~Astray(e) THEN "none"
            ELSE IF s.of[h].state # "ACTIVE" THEN "FAILED"
            ELSE IF e.action = "Up" THEN "END" ELSE "CANCELLED")
LongPressHandle(s, h, e) == PressEnds(PressTimed(PressMore(PressBegun(s, h), h, e), h, e), h, e)

TryEndFling(s, h, e) ==
  IF "fast" \in e.facts /\ s.of[h].most = Need[h]
  THEN Activate(Timer(s, h, FALSE), h, FALSE) ELSE s

FlingCounts(s, h, e) == [s EXCEPT !.of[h].most = IF e.count > @ THEN e.count ELSE @]
FlingEnds(s, h, e) ==
  IF e.action # "Up" THEN s
  ELSE IF "fast" \in e.facts /\ s.of[h].most = Need[h] THEN TryEndFling(s, h, e)
  ELSE Fail(s, h)
FlingHandle(s, h, e) ==
  IF s.of[h].state = "UNDETERMINED" THEN [Timer(Begin(s, h), h, TRUE) EXCEPT !.of[h].most = 1]
  ELSE IF s.of[h].state # "BEGAN" THEN s
  ELSE FlingEnds(FlingCounts(TryEndFling(s, h, e), h, e), h, e)

\* The detector finds the span of its pointers moved beyond the slop.
Spread(e) == e.action = "Move" /\ e.count > 1 /\ "spread" \in e.facts

\* One that ends without having begun is cancelled; without having activated it fails.
EndsAs(state) == CASE state = "UNDETERMINED" -> "CANCELLED" [] state = "ACTIVE" -> "END" [] OTHER -> "FAILED"

PinchUp(s, h, e) == IF e.action # "Up" THEN s ELSE Goes(s, h, EndsAs(s.of[h].state))
PinchScaled(s, h, e) ==
  IF ~s.of[h].detector.on THEN s
  ELSE PinchUp(GoesOn(s, h, IF Spread(e) /\ s.of[h].state = "BEGAN" THEN "activate" ELSE "none"), h, e)
\* Its detector is made with the first pointer down; the second begins it.
SecondBegins(s, h, e) ==
  IF s.of[h].state # "UNDETERMINED" THEN s
  ELSE IF e.action = "Down" THEN [s EXCEPT !.of[h].detector = [NoDetector EXCEPT !.on = TRUE]]
  ELSE IF e.action = "PointerDown" THEN Begin(s, h) ELSE s
PinchHandle(s, h, e) == PinchScaled(SecondBegins(s, h, e), h, e)

\* The detector of a rotation follows the first two pointers; it pauses when
\* one of them goes up, until another goes down.
RotationDetector(d, e) ==
  LET both(x) == x.first # {} /\ x.second # {} /\ x.first \cup x.second \subseteq e.pointers
      current(x) == IF both(x) THEN [x EXCEPT !.paused = FALSE] ELSE x
  IN CASE e.action = "Down" -> [d EXCEPT !.progress = FALSE, !.first = {e.who}, !.second = {}]
       [] e.action = "PointerDown" ->
            [(IF ~d.progress \/ d.paused THEN current([d EXCEPT !.second = {e.who}]) ELSE d)
               EXCEPT !.progress = TRUE]
       [] e.action = "Move" /\ d.progress -> current(d)
       [] e.action = "PointerUp" /\ d.progress ->
            IF d.first = {e.who} THEN [d EXCEPT !.first = d.second, !.second = {}, !.paused = TRUE]
            ELSE IF d.second = {e.who} THEN [d EXCEPT !.second = {}, !.paused = TRUE] ELSE d
       [] e.action = "Up" /\ d.progress -> [d EXCEPT !.paused = FALSE, !.progress = FALSE]
       [] OTHER -> d

RotationUp(s, h, e) ==
  IF e.action # "Up" \/ s.of[h].state \notin {"UNDETERMINED", "BEGAN"} THEN s
  ELSE Goes(s, h, EndsAs(s.of[h].state))
RotationTo(d, s, h, e) ==
  IF /\ e.action = "Move" /\ d.progress /\ ~s.of[h].detector.paused
     /\ "turn" \in e.facts /\ s.of[h].state = "BEGAN" THEN "activate"
  ELSE IF ~(e.action = "Up" /\ d.progress) THEN "none"
  ELSE IF s.of[h].state = "ACTIVE" THEN "END" ELSE "FAILED"
RotationTurned(d, s, h, e) == RotationUp(GoesOn(s, h, RotationTo(d, s, h, e)), h, e)
RotationSeen(s, h, e) ==
  IF ~s.of[h].detector.on THEN s
  ELSE RotationTurned(s.of[h].detector, [s EXCEPT !.of[h].detector = RotationDetector(@, e)], h, e)
RotationHandle(s, h, e) == RotationSeen(SecondBegins(s, h, e), h, e)

\* The event as the handler sees it: its own pointers, one it does not track
\* going down or up a move to it.
Adapt(s, h, touch) ==
  LET mine == touch.who \in s.of[h].tracked
      one == Cardinality(s.of[h].tracked) = 1
      action == IF ~mine THEN "Move"
                ELSE IF touch.action \in {"Down", "PointerDown"} THEN (IF one THEN "Down" ELSE "PointerDown")
                ELSE IF touch.action \in {"Up", "PointerUp"} THEN (IF one THEN "Up" ELSE "PointerUp")
                ELSE touch.action
      pointers == touch.pointers \cap s.of[h].tracked
  IN [action |-> action, who |-> touch.who, pointers |-> pointers,
      count |-> Cardinality(pointers), facts |-> touch.facts]

Handled(s, h, e) ==
  IF s.of[h].state \in Finished \/ e.pointers = {} THEN s
  ELSE IF /\ Kind[h] \in {"tap", "press"} /\ "outside" \in e.facts
          /\ s.of[h].state \in {"ACTIVE", "BEGAN"} THEN Fail(s, h)
  ELSE CASE Kind[h] = "pan" -> PanHandle(s, h, e)
         [] Kind[h] = "tap" -> TapHandle(s, h, e)
         [] Kind[h] = "press" -> LongPressHandle(s, h, e)
         [] Kind[h] = "fling" -> FlingHandle(s, h, e)
         [] Kind[h] = "pinch" -> PinchHandle(s, h, e)
         [] Kind[h] = "rotation" -> RotationHandle(s, h, e)
         [] Kind[h] = "manual" -> Begin(s, h)
         [] Kind[h] = "native" -> IF s.of[h].state = "UNDETERMINED" THEN Fail(Begin(s, h), h) ELSE s
Handle(s, h, touch) == Handled(s, h, Adapt(s, h, touch))

-----------------------------------------------------------------------------
(* The pointer stream. *)

\* A handler that needs pointer data is told each pointer of its own.
UpdatePointerData(s, h, touch) ==
  IF ~NeedsPointerData[h] THEN s
  ELSE IF touch.action \in {"Down", "PointerDown"}
  THEN [s EXCEPT !.of[h].touches = @ \cup {touch.who}, !.of[h].heard = @ \cup {touch.who}]
  ELSE IF touch.action \in {"Up", "PointerUp"}
  THEN [s EXCEPT !.of[h].touches = @ \ {touch.who}, !.of[h].heard = @ \ {touch.who}]
  ELSE s

Wants(s, h, touch) ==
  /\ h \in s.enabled /\ s.of[h].state \notin Finished
  /\ IF touch.action = "Move" THEN touch.pointers \cap s.of[h].tracked # {}
     ELSE touch.who \in s.of[h].tracked

Untrack(s, h, touch) ==
  IF touch.action \in {"Up", "PointerUp"} THEN [s EXCEPT !.of[h].tracked = @ \ {touch.who}] ELSE s
HandleToo(s, h, touch) ==
  IF s.of[h].awaiting /\ touch.action = "Move" THEN s ELSE Untrack(Handle(s, h, touch), h, touch)
Deliver(s, h, touch) ==
  IF h \notin Recorded(s) THEN s
  ELSE IF View[h] \in s.gone THEN Cancel(s, h)
  ELSE IF ~Wants(s, h, touch) THEN s
  ELSE HandleToo(UpdatePointerData(s, h, touch), h, touch)

Prepare(r) ==
  [r EXCEPT !.active = FALSE, !.awaiting = FALSE, !.tracked = {}, !.state = "UNDETERMINED",
            !.told = "UNDETERMINED"]

\* The handlers of the views under a new pointer, the deepest view first.
Extract(s, touch) ==
  LET hits == Spots[touch.who]
      of[n \in 0 .. Len(hits)] ==
        IF n = 0 THEN <<>>
        ELSE of[n - 1] \o SelectSeq(s.attached, LAMBDA h : /\ View[h] = hits[n] /\ h \in s.enabled
                                                           /\ View[h] \notin s.gone)
      new == SelectSeq(of[Len(hits)], LAMBDA h : h \notin Recorded(s))
      all == ToSet(of[Len(hits)])
  IN [s EXCEPT
        !.recorded = @ \o new,
        !.activated = SelectSeq(@, LAMBDA h : h \notin ToSet(new)),
        !.wrong = @ \/ \E h \in ToSet(new) : s.of[h].told \in {"BEGAN", "ACTIVE"},
        !.of = [h \in Handlers |->
                  IF h \notin all THEN @[h]
                  ELSE [(IF h \in ToSet(new) THEN Prepare(@[h]) ELSE @[h])
                          EXCEPT !.tracked = @ \cup {touch.who}]]]

\* Active handlers first, then those that wait, the latest of each first; then
\* the rest as recorded.
Order(s) ==
  LET act == SelectSeq(s.activated, LAMBDA h : s.of[h].active)
      wait == SelectSeq(s.activated, LAMBDA h : s.of[h].awaiting /\ ~s.of[h].active)
  IN act \o wait \o SelectSeq(s.recorded, LAMBDA h : ~s.of[h].active /\ ~s.of[h].awaiting)

CancelAll(s) == FoldLeft(Cancel, s, Reverse(s.awaiting) \o Reverse(s.recorded))

DeliverAll(s, order, touch) == FoldLeft(LAMBDA done, h : Deliver(done, h, touch), s, order)
Lifted(s, touch) ==
  CASE touch.action = "PointerUp" -> [s EXCEPT !.down = @ \ {touch.who}]
    [] touch.action \in {"Up", "Cancel"} ->
         [s EXCEPT !.down = {}, !.pressed = FALSE, !.intercepting = FALSE]
    [] OTHER -> s
Delivered(s, touch) == Lifted(Cleanup(DeliverAll(s, Order(s), touch)), touch)
Touch(touch) ==
  Delivered(CASE touch.action \in {"Down", "PointerDown"} ->
                   Extract([g EXCEPT !.pressed = TRUE, !.down = @ \cup {touch.who}], touch)
              [] touch.action = "Cancel" -> CancelAll(g) [] OTHER -> g, touch)

Event(action, who, pointers, facts) ==
  [action |-> action, who |-> who, pointers |-> pointers, facts |-> facts]

FirstDown == {p \in g.down : \A q \in g.down : p <= q}
\* The pointers go down and up one at a time, move together, or are taken away.
Touches ==
  {Event(IF g.down = {} THEN "Down" ELSE "PointerDown", p, g.down \cup {p}, facts) :
     p \in Pointers \ g.down, facts \in Moves}
  \cup {Event(IF g.down = {p} THEN "Up" ELSE "PointerUp", p, g.down, facts) :
          p \in g.down, facts \in Moves}
  \cup {Event("Move", p, g.down, facts) : p \in FirstDown, facts \in Moves \ {{}}}
  \cup {Event("Cancel", p, g.down, {}) : p \in FirstDown}
PointerStream == \E touch \in Touches : g' = Touch(touch)

OnTimer(s, h) ==
  IF Kind[h] \in {"pan", "press"} THEN Activate(s, h, FALSE)
  ELSE IF Kind[h] \in {"tap", "fling"} THEN Fail(s, h) ELSE s

Tick(h) ==
  /\ h \in Recorded(g) /\ g.of[h].timer
  /\ g' = Cleanup(OnTimer(Timer(g, h, FALSE), h))

-----------------------------------------------------------------------------
(* JavaScript. *)

\* A handler that takes part, or took part, has its state set.
SetState(h, state) ==
  /\ state \in Sets /\ h \in g.exists
  /\ h \in Recorded(g) \/ g.of[h].state \in Finished
  /\ state = "ACTIVE" => g.of[h].state = "BEGAN"
  /\ g' = Cleanup(IF state = "ACTIVE" THEN Activate(g, h, TRUE) 
                  ELSE IF state \in DOMAIN Leavable THEN Goes(g, h, state) ELSE g)

Detach(s, h) ==
  LET off == [s EXCEPT !.attached = SelectSeq(@, LAMBDA x : x # h)]
  IN IF h \in Recorded(s) THEN Cleanup(Cancel(off, h)) ELSE off

Create(h) ==
  /\ h \notin g.exists
  /\ g' = [g EXCEPT !.exists = @ \cup {h}, !.enabled = @ \cup {h}, !.of[h] = Fresh]
Attach(h) ==
  /\ "drop" \in Requests /\ h \in g.exists
  /\ g' = LET off == Detach(g, h) IN [off EXCEPT !.attached = Append(@, h)]
Relate(h, relations) ==
  /\ h \in g.exists /\ (relations # (h \in g.related))
  /\ relations \/ "relate" \in Requests
  /\ g' = [g EXCEPT !.related = IF relations THEN @ \cup {h} ELSE @ \ {h}]
Drop(h) ==
  /\ "drop" \in Requests /\ h \in g.exists
  /\ g' = LET off == Detach([g EXCEPT !.related = @ \ {h}], h)
          IN [off EXCEPT !.exists = @ \ {h}, !.enabled = @ \ {h},
                         !.recorded = SelectSeq(@, LAMBDA x : x # h),
                         !.awaiting = SelectSeq(@, LAMBDA x : x # h),
                         !.activated = SelectSeq(@, LAMBDA x : x # h)]

\* Disabled while it takes part, it is cancelled.
Configure(h, enabled) ==
  /\ "disable" \in Requests /\ h \in g.exists /\ (enabled # (h \in g.enabled))
  /\ g' = IF enabled THEN [g EXCEPT !.enabled = @ \cup {h}]
          ELSE LET off == [g EXCEPT !.enabled = @ \ {h}]
               IN IF h \in Recorded(g) THEN Cleanup(Cancel(off, h)) ELSE off

\* A view is unmounted.
ViewGoes(v) == /\ "gone" \in Requests /\ v \notin g.gone /\ g' = [g EXCEPT !.gone = @ \cup {v}]

Next ==
  \/ PointerStream
  \/ \E h \in Handlers : \/ Tick(h) \/ Create(h) \/ Attach(h) \/ Drop(h)
                         \/ \E s \in States : SetState(h, s)
                         \/ \E b \in BOOLEAN : Relate(h, b) \/ Configure(h, b)
  \/ \E v \in {View[h] : h \in Handlers} : ViewGoes(v)

Spec == Init /\ [][Next]_g

-----------------------------------------------------------------------------
TypeOK ==
  /\ \A h \in Handlers : g.of[h].state \in States /\ g.of[h].tracked \subseteq Pointers
  /\ Len(g.recorded) = Cardinality(Recorded(g)) /\ Recorded(g) \subseteq g.exists
  /\ ToSet(g.awaiting) \subseteq Recorded(g)
  /\ \A h \in Handlers : g.of[h].awaiting = (h \in ToSet(g.awaiting))
  /\ g.intercepting => g.pressed

\* Each state JavaScript is told follows on the one it was told before, and a
\* gesture it was told began was told over before the next begins.
ToldInOrder == ~g.wrong

\* A handler out of the gesture is one JavaScript was told is over.
ToldOver ==
  \A h \in g.exists \ Recorded(g) : g.of[h].told \notin {"BEGAN", "ACTIVE"}

\* JavaScript is told a handler is active only once none it waits for may
\* still recognize.
NotEarly == ~g.early

\* A handler that waits for another is not told active as that one succeeds: a
\* double tap is not a tap too.
NotBoth == ~g.both

\* The pointers JavaScript holds down on a handler are those the handler holds,
\* and none once it is out of the gesture.
TouchesEnd ==
  \A h \in g.exists :
    /\ g.of[h].heard = g.of[h].touches
    /\ h \notin Recorded(g) => g.of[h].heard = {}

\* With no pointer down and no timer set, no handler is left in the gesture: it
\* would take part in no other.  (A manual one is until JavaScript ends it.)
NoneStranded ==
  (g.down = {} /\ \A h \in Handlers : ~g.of[h].timer) =>
    \A h \in Recorded(g) : Kind[h] = "manual"

\* Two handlers on one pointer that do not recognize together, and that wait
\* for none, are not both active.
Exclusive ==
  \A a, b \in Recorded(g) :
    (g.of[a].active /\ g.of[b].active /\ CommonPointers(g, a, b)) => With(g, a, b)
=============================================================================
