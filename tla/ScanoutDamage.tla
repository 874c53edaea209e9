---------------------------- MODULE ScanoutDamage ----------------------------
(***************************************************************************)
(* What a screen composes of each frame and what its display then shows.   *)
(* compose_screen works out what changed since the screen composed last;   *)
(* the frame goes to the display as a full-screen window's own buffer, or  *)
(* composed into one of two scanout targets, with or without a window's    *)
(* buffer on the overlay plane.  Each target remembers what it lacks, the  *)
(* primary plane keeps nothing under the overlay, and the display may be   *)
(* taken away, unplugged or made ready again at another mode between any   *)
(* two frames.  The question is whether the little each frame composes is  *)
(* always enough: a pixel too few shows something old.                     *)
(*                                                                         *)
(* The screen is Pixels wide; a surface's pixel holds the number of the    *)
(* frame that last changed it.  Which buffers the card takes on a plane is *)
(* its own choice in every frame.                                          *)
(***************************************************************************)
EXTENDS Integers, Sequences, FiniteSets

CONSTANTS
  Surfaces,     \* the windows there are
  Wide,         \* those as wide as the screen; the others are a pixel wide
  Plain,        \* those whose buffer a plane could show: opaque, square, uncut
  MaxFrames,    \* how many frames each surface submits
  MaxChanges,   \* how many times the scene changes
  MaxLosses,    \* how many times the display is lost, taken or shown anew
  Refuses,      \* the card may refuse in a commit what it took in its test
  SameSize,     \* a mode may have the size of the one before, or be refused
  None

SurfacesAssumption == Wide \subseteq Surfaces /\ Plain \subseteq Surfaces
BoundsAssumption == {MaxFrames, MaxChanges, MaxLosses} \subseteq Nat
ChoicesAssumption == Refuses \in BOOLEAN /\ SameSize \in BOOLEAN

VARIABLES
  surfaces,   \* where each surface is, its frame, and the damage of the next
  order,      \* the stacking, bottom first
  screen,     \* Screen: what it composed last, recompose, scanout_back, overlay
  targets,    \* the two scanout targets: their pixels and what they lack
  display,    \* the display as last committed, or None
  lit,        \* what the monitor shows, or None: nothing of this session
  flip,       \* the commit on its way: None, "frame" or "pointer"
  away,       \* another session has the displays
  changes,    \* how many times the scene changed
  losses      \* how many times the display was lost, taken or shown anew

vars == <<surfaces, order, screen, targets, display, lit, flip, away, changes,
          losses>>

Pixels == 1 .. 2
Targets == 1 .. 2
Desktop == <<None, 0>>
Values == {Desktop} \cup Surfaces \X (0 .. MaxFrames)
Places(s) == IF s \in Wide THEN {0} ELSE {0, 1}
Extent(s) == IF s \in Wide THEN Pixels ELSE {1}

\* Where an item of a list is drawn, and what a list shows at a pixel.
Rect(item) == {item.at + p : p \in Extent(item.key)}
Drawn(list, p) ==
  LET over == {i \in DOMAIN list : p \in Rect(list[i])} IN
  IF over = {} THEN Desktop
  ELSE LET top == list[CHOOSE i \in over : \A j \in over : j <= i]
       IN <<top.key, top.px[p - top.at]>>

-----------------------------------------------------------------------------
(* The scene: its list of surfaces, and what changed from one to the next. *)

\* frame_list: the surfaces shown, bottom first, each with its frame.
FrameList(now) ==
  LET shown == SelectSeq(order, LAMBDA s : now[s].at # None)
  IN [i \in DOMAIN shown |-> [key |-> shown[i], at |-> now[shown[i]].at,
                              n |-> now[shown[i]].n, px |-> now[shown[i]].px]]

\* The surface with the frame it submitted presenting.
Presented(surface) ==
  IF surface.pend = None THEN surface
  ELSE [surface EXCEPT !.n = @ + 1, !.pend = None,
                       !.px = [p \in DOMAIN @ |-> IF p \in surface.pend
                                                  THEN surface.n + 1 ELSE @[p]]]

ItemsOf(list, s) == {list[i] : i \in {j \in DOMAIN list : list[j].key = s}}

\* The damage of a surface showing another frame: its own, when that frame
\* presents over the very frame this screen composed last, else all of it.
SurfaceDamage(composed, item) ==
  LET was == surfaces[item.key] IN
  IF was.pend # None /\ \E old \in ItemsOf(composed, item.key) : old.n = was.n
  THEN {item.at + p : p \in was.pend}
  ELSE Rect(item)

\* Of the surfaces in both lists, those that changed places among themselves.
Restacked(old, new) ==
  LET Both(list, other) ==
        SelectSeq(list, LAMBDA item : ItemsOf(other, item.key) # {})
      then == Both(old, new)
      now == Both(new, old)
  IN UNION {Rect(then[i]) \cup Rect(now[i]) :
              i \in {j \in DOMAIN then : then[j].key # now[j].key}}

OutputDamage(old, new) ==
  LET Changed(item) ==
        LET before == ItemsOf(old, item.key) IN
        IF before = {} THEN Rect(item)
        ELSE LET then == CHOOSE b \in before : TRUE IN
             IF then.at # item.at THEN Rect(then) \cup Rect(item)
             ELSE IF then.n # item.n THEN SurfaceDamage(old, item)
             ELSE {}
      gone == {i \in DOMAIN old : ItemsOf(new, old[i].key) = {}}
  IN UNION {Changed(new[i]) : i \in DOMAIN new}
       \cup UNION {Rect(old[i]) : i \in gone}
       \cup Restacked(old, new)

-----------------------------------------------------------------------------
(* The scanout targets and the planes.                                     *)

\* Composes into target i what changed and what it lacks, or all of it when
\* either is unknown; the display's other target then lacks what changed.
ComposeTo(ts, i, list, damage) ==
  LET known == ts[i].stale # None /\ damage # None
      regions == IF known THEN ts[i].stale \cup damage ELSE Pixels
  IN [j \in Targets |->
       IF j = i
       THEN [px |-> [p \in Pixels |-> IF p \in regions THEN Drawn(list, p)
                                      ELSE ts[i].px[p]],
             stale |-> {}]
       ELSE [ts[j] EXCEPT !.stale = IF @ = None \/ damage = None THEN None
                                    ELSE @ \cup damage]]

ForgetContents(ts) == [i \in Targets |-> [ts[i] EXCEPT !.stale = None]]

\* What a frame composes with the overlay plane over `now` after a frame that
\* had it over `before` ({}: off).
UnderOverlay(damage, before, now) ==
  IF damage = None /\ now = {} THEN None
  ELSE ((IF damage = None THEN Pixels ELSE damage) \cup before) \ now

\* The topmost plain layer, while no layer above touches it.
OverlayItems(list) ==
  {list[i] : i \in {j \in DOMAIN list :
     /\ list[j].key \in Plain
     /\ \A k \in DOMAIN list : k > j =>
          list[k].key \notin Plain /\ Rect(list[k]) \cap Rect(list[j]) = {}}}

\* The overlay plane with the windows' buffers on it (one or none): its pixels.
Overlay(over) ==
  LET at == UNION {Rect(item) : item \in over}
  IN [p \in at |-> LET item == CHOOSE i \in over : TRUE
                   IN <<item.key, item.px[p - item.at]>>]

Showing == display.configured /\ display.front # None

\* One turn of present_composed's loop: what it composes, and where, with the
\* overlay plane over `now`.  A frame of the overlaid window alone composes
\* nothing; nothing shown yet composes all that is not under the plane.
Attempt(made, list, damage, now) ==
  LET under == UnderOverlay(damage, made.screen.overlay, now)
      region == IF now # {} /\ ~Showing THEN UnderOverlay(None, {}, now) ELSE under
      back == made.screen.back
  IN IF now # {} /\ Showing /\ under = {}
     THEN made
     ELSE [screen |-> [made.screen EXCEPT !.back = 3 - @],
           targets |-> ComposeTo(made.targets, back, list, region),
           front |-> [target |-> back, px |-> Overlay({})]]

Committed(front, over) ==
  [configured |-> TRUE, front |-> front, overlay |-> Overlay(over)]

-----------------------------------------------------------------------------
Nothing == [p \in Pixels |-> Desktop]
FreshTargets == [i \in Targets |-> [px |-> Nothing, stale |-> None]]
FreshDisplay == [configured |-> FALSE, front |-> None, overlay |-> Overlay({})]
FreshScreen == [composed |-> <<>>, recompose |-> TRUE, back |-> 1, overlay |-> {}]

Init ==
  /\ surfaces = [s \in Surfaces |-> [at |-> None, n |-> 0, pend |-> None,
                                     px |-> [p \in Extent(s) |-> 0]]]
  /\ order \in {o \in [1 .. Cardinality(Surfaces) -> Surfaces] :
                  \A i, j \in DOMAIN o : i # j => o[i] # o[j]}
  /\ screen = FreshScreen /\ targets = FreshTargets
  /\ display = FreshDisplay /\ lit = None /\ flip = None
  /\ away = FALSE /\ changes = 0 /\ losses = 0

Changed == changes < MaxChanges /\ changes' = changes + 1
Loses == losses < MaxLosses /\ losses' = losses + 1

\* What clients and the person do to the scene.
Submit(s, damage) ==
  /\ surfaces[s].at # None /\ surfaces[s].pend = None
  /\ surfaces[s].n < MaxFrames
  /\ surfaces' = [surfaces EXCEPT ![s].pend = damage]
  /\ Changed
  /\ UNCHANGED <<order, screen, targets, display, lit, flip, away, losses>>

\* A surface mostly on another screen: its frame presents there.
PresentElsewhere(s) ==
  /\ surfaces[s].pend # None
  /\ surfaces' = [surfaces EXCEPT ![s] = Presented(@)]
  /\ UNCHANGED <<order, screen, targets, display, lit, flip, away, changes, losses>>

Place(s, at) ==
  /\ surfaces[s].at # at
  /\ surfaces' = [surfaces EXCEPT ![s].at = at]
  /\ Changed
  /\ UNCHANGED <<order, screen, targets, display, lit, flip, away, losses>>

Raise(s) ==
  /\ order[Len(order)] # s
  /\ order' = Append(SelectSeq(order, LAMBDA t : t # s), s)
  /\ Changed
  /\ UNCHANGED <<surfaces, screen, targets, display, lit, flip, away, losses>>

-----------------------------------------------------------------------------
(* A frame.                                                                *)

\* Not shown (away, or no display): it completes at once.
Unshown(next) ==
  /\ away \/ display = None
  /\ screen' = next
  /\ UNCHANGED <<targets, display, flip>>

\* The full-screen window's buffer straight on the primary plane.
PresentDirect(next, list) ==
  /\ list # <<>> /\ list[Len(list)].key \in Wide
  /\ screen' = [next EXCEPT !.overlay = {}]
  /\ targets' = ForgetContents(targets)
  /\ display' = Committed([target |-> 0, px |-> Overlay({list[Len(list)]})], {})
  /\ flip' = "frame"

\* handed_over, once composed without an overlay: taken, or the display stops.
HandOver(made) ==
  /\ screen' = [made.screen EXCEPT !.overlay = {}]
  /\ targets' = made.targets
  /\ \/ display' = Committed(made.front, {}) /\ flip' = "frame"
     \/ display' = None /\ UNCHANGED flip

\* Composed, the overlay plane showing `over`'s buffer where the card takes it;
\* a commit refused is made again with the window composed.
PresentComposed(next, list, damage, over) ==
  LET now == UNION {Rect(item) : item \in over}
      first == Attempt([screen |-> next, targets |-> targets, front |-> display.front],
                       list, damage, now)
  IN IF over = {} THEN HandOver(first)
     ELSE \/ /\ screen' = [first.screen EXCEPT !.overlay = now]
             /\ targets' = first.targets
             /\ display' = Committed(first.front, over)
             /\ flip' = "frame"
          \/ Refuses /\ HandOver(Attempt(first, list, damage, {}))

Present(next, list, damage) ==
  \/ Unshown(next)
  \/ /\ ~away /\ display # None
     /\ \/ PresentDirect(next, list)
        \/ \E over \in {{}} \cup {{item} : item \in OverlayItems(list)} :
             PresentComposed(next, list, damage, over)

\* frame and compose_screen: what changed since this screen composed last, all
\* of it when it never did or its display came back.
Compose ==
  LET started == {s \in Surfaces : surfaces[s].at # None /\ surfaces[s].pend # None}
      now == [s \in Surfaces |-> IF s \in started THEN Presented(surfaces[s])
                                 ELSE surfaces[s]]
      list == FrameList(now)
      damage == IF screen.recompose THEN None ELSE OutputDamage(screen.composed, list)
  IN /\ flip = None
     /\ started # {} \/ screen.recompose \/ list # screen.composed
     /\ surfaces' = now
     /\ IF started = {} /\ damage = {}
        THEN /\ screen' = [screen EXCEPT !.composed = list]
             /\ UNCHANGED <<targets, display, flip>>
        ELSE Present([screen EXCEPT !.composed = list, !.recompose = FALSE], list, damage)
     /\ lit' = IF display' = None THEN None ELSE lit
     /\ UNCHANGED <<order, away, changes, losses>>

\* The pointer alone moved: what is shown is committed again.
PresentPointer ==
  /\ flip = None /\ ~away /\ display # None
  /\ Showing
  /\ \/ flip' = "pointer" /\ UNCHANGED display
     \/ display' = None /\ UNCHANGED flip
  /\ lit' = IF display' = None THEN None ELSE lit
  /\ UNCHANGED <<surfaces, order, screen, targets, away, changes, losses>>

-----------------------------------------------------------------------------
(* The display.                                                            *)

Recomposed == [screen EXCEPT !.composed = <<>>, !.recompose = TRUE]

FlipShown ==
  /\ flip # None /\ display # None
  /\ lit' = [front |-> display.front, overlay |-> display.overlay]
  /\ flip' = None
  /\ UNCHANGED <<surfaces, order, screen, targets, display, away, changes, losses>>

FlipFails ==
  /\ flip # None /\ display # None
  /\ display' = None /\ lit' = None /\ flip' = None
  /\ screen' = IF flip = "pointer" THEN screen ELSE Recomposed
  /\ Loses
  /\ UNCHANGED <<surfaces, order, targets, away, changes>>

\* Another session takes the displays: the flip on its way is waited for, up to
\* a second, and the next frame shown makes a modeset.
GoAway ==
  /\ ~away /\ away' = TRUE
  /\ flip' = None /\ lit' = None
  /\ screen' \in {screen} \cup (IF flip = "frame" THEN {Recomposed} ELSE {})
  /\ display' = IF display = None THEN None ELSE [display EXCEPT !.configured = FALSE]
  /\ Loses
  /\ UNCHANGED <<surfaces, order, targets, changes>>

Return ==
  /\ away /\ away' = FALSE
  /\ screen' = Recomposed
  /\ UNCHANGED <<surfaces, order, targets, display, lit, flip, changes, losses>>

\* The monitor is unplugged: its targets are freed, and the screen composes on.
DetachDisplay ==
  /\ display # None
  /\ display' = None /\ lit' = None /\ flip' = None
  /\ screen' = [screen EXCEPT !.back = 1]
  /\ targets' = FreshTargets
  /\ Loses
  /\ UNCHANGED <<surfaces, order, away, changes>>

\* Each turn, for a screen with no display.
FollowDirect ==
  /\ display = None /\ screen.overlay # {}
  /\ screen' = [screen EXCEPT !.overlay = {}]
  /\ UNCHANGED <<surfaces, order, targets, display, lit, flip, away, changes, losses>>

\* A monitor is plugged in: a new output with a screen of its own.
AddOutput ==
  /\ display = None /\ ~away
  /\ display' = FreshDisplay /\ screen' = FreshScreen /\ targets' = FreshTargets
  /\ UNCHANGED <<surfaces, order, lit, flip, away, changes, losses>>

\* The display is let go and made ready again: at a mode of another size, its
\* frame composed whole; or at one of the same size, or at its own when the card
\* refuses the other.
ShowMode ==
  /\ display # None /\ ~away
  /\ Loses
  /\ display' = FreshDisplay /\ lit' = None /\ flip' = None
  /\ targets' = FreshTargets
  /\ \E whole \in BOOLEAN :
       /\ SameSize \/ whole
       /\ screen' = [screen EXCEPT !.back = 1, !.recompose = @ \/ whole]
  /\ UNCHANGED <<surfaces, order, away, changes>>

-----------------------------------------------------------------------------
Next ==
  \/ \E s \in Surfaces : \E damage \in SUBSET Extent(s) \ {{}} : Submit(s, damage)
  \/ \E s \in Surfaces : PresentElsewhere(s)
  \/ \E s \in Surfaces : \E at \in Places(s) \cup {None} : Place(s, at)
  \/ \E s \in Surfaces : Raise(s)
  \/ Compose \/ PresentPointer
  \/ FlipShown \/ FlipFails
  \/ GoAway \/ Return
  \/ DetachDisplay \/ FollowDirect \/ AddOutput \/ ShowMode

Spec == Init /\ [][Next]_vars

\* The turn composes what changed, and the card answers every commit.
LiveSpec == Spec /\ WF_vars(Compose) /\ WF_vars(FlipShown \/ FlipFails)

-----------------------------------------------------------------------------
TypeOK ==
  /\ \A s \in Surfaces :
       /\ surfaces[s].at \in Places(s) \cup {None}
       /\ surfaces[s].n \in 0 .. MaxFrames
       /\ surfaces[s].pend \in (SUBSET Extent(s) \ {{}}) \cup {None}
       /\ surfaces[s].px \in [Extent(s) -> 0 .. surfaces[s].n]
  /\ screen.recompose \in BOOLEAN /\ screen.back \in Targets
  /\ screen.overlay \subseteq Pixels
  /\ \A i \in Targets : /\ targets[i].px \in [Pixels -> Values]
                        /\ targets[i].stale \in SUBSET Pixels \cup {None}
  /\ flip \in {None, "frame", "pointer"} /\ away \in BOOLEAN
  /\ changes \in 0 .. MaxChanges /\ losses \in 0 .. MaxLosses

\* What a display with these planes shows at a pixel, its targets being memory.
Seen(shown, p) ==
  IF p \in DOMAIN shown.overlay THEN shown.overlay[p]
  ELSE IF shown.front.target = 0 THEN shown.front.px[p]
  ELSE targets[shown.front.target].px[p]

\* Once a frame is on screen, every pixel the monitor shows is the one composing
\* the whole of that frame would give, however little of it compose_screen and
\* present_composed had composed, through moves, restacking, the planes, other
\* sessions, unplugging and modes.
ShownIsComposed ==
  lit # None /\ flip = None /\ ~screen.recompose =>
    \A p \in Pixels : Seen(lit, p) = Drawn(screen.composed, p)

\* While a frame is on its way, what is shown is still what was: no composition
\* writes into the target on screen (the display flips between two targets).
NotTorn ==
  lit # None /\ lit' # None /\ lit.front.target # 0 =>
    \A p \in Pixels \ DOMAIN lit.overlay :
      targets'[lit.front.target].px[p] = targets[lit.front.target].px[p]

\* A display that is there shows the session: after a modeset, a return from
\* another session, a plug, or a mode shown or refused, a frame goes to it.
DisplayShows ==
  (display # None /\ ~away) ~> (lit # None \/ display = None \/ away)
=============================================================================
