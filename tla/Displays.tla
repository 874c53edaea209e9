------------------------------ MODULE Displays ------------------------------
(***************************************************************************)
(* The session's displays (displays.rs): every connected display is an     *)
(* output, shown at the mode the person chose, else its own, where the     *)
(* arrangement kept for the set connected says.  Settings changes a scale, *)
(* an origin or the primary at once, and shows a mode on trial, which goes *)
(* back unless it is kept in time; what is kept is written first.  The     *)
(* card may refuse a mode, the file may not be written, and displays are   *)
(* plugged in and out meanwhile.                                           *)
(***************************************************************************)
EXTENDS Arrangement

CONSTANTS
  Card,         \* the card's connectors, in its order, by the display on each
  Internal,     \* the displays built in
  Modes,        \* a display's modes; mode 1 is its own
  Pixels,       \* [Displays -> [Modes -> size]]
  Scales,       \* the scales a display may be shown at; 1 is recommended
  Wanted,       \* the places Settings asks for an origin at
  MaxChanges,   \* how many changes Settings asks for
  MaxPlugs,     \* how many times displays come or go
  CardHolds,    \* the card shows again a mode it showed
  None

Displays == {Card[i] : i \in DOMAIN Card}

CardAssumption ==
  /\ \A i, j \in DOMAIN Card : Card[i] = Card[j] => i = j
  /\ Internal \subseteq Displays /\ CardHolds \in BOOLEAN
SizesAssumption ==
  /\ 1 \in Modes /\ 1 \in Scales /\ Scales \subseteq Nat \ {0}
  /\ Pixels \in [Displays -> [Modes -> (Nat \ {0}) \X (Nat \ {0})]]
LimitsAssumption == MaxChanges \in Nat /\ MaxPlugs \in Nat

VARIABLES
  shown,      \* the outputs, in the arrangement's order, the primary first
  dark,       \* nothing is connected: the outputs stay, undisplayed
  lit,        \* the displays that are driven
  trial,      \* the mode on trial: whose, and the layout to go back to
  kept,       \* the preferences: each display's mode and scale
  arranged,   \* the preferences: the arrangement of each set of displays
  confirmed,  \* the modes the person kept, for the properties
  changes, plugs

vars == <<shown, dark, lit, trial, kept, arranged, confirmed, changes, plugs>>

-----------------------------------------------------------------------------
\* An output's logical size: its pixels at its scale, rounded up.
Logical(d, mode, scale) ==
  LET Over(n) == (n + scale - 1) \div scale
  IN <<Over(Pixels[d][mode][1]), Over(Pixels[d][mode][2])>>

Ids(s) == {s[i].id : i \in DOMAIN s}
Index(s, d) == CHOOSE i \in DOMAIN s : s[i].id = d
Rects(s) == [i \in DOMAIN s |-> s[i].rect]
Sizes(s) == [i \in DOMAIN s |-> <<s[i].rect.w, s[i].rect.h>>]

\* apply: every output its rectangle, in order.
Apply(s, rects) == [i \in DOMAIN s |-> [s[i] EXCEPT !.rect = rects[i]]]

\* The layout once output i is `size`: the others keep their places.
Reflowed(s, i, size) ==
  Normalize(Reflow(Rects(s), [Sizes(s) EXCEPT ![i] = size]))

\* What is kept of a set: each display and its origin, in order.
ArrangementOf(s) ==
  [i \in DOMAIN s |-> [id |-> s[i].id, x |-> s[i].rect.x, y |-> s[i].rect.y,
                       size |-> <<s[i].rect.w, s[i].rect.h>>]]

\* arrange: as kept for this set, else where they are.
InOrder(s, as) == IF as = None THEN s ELSE [i \in DOMAIN as |-> s[Index(s, as[i].id)]]
KeptFor(as, d) == CHOOSE a \in {as[i] : i \in DOMAIN as} : a.id = d
Placed(s, as) ==
  [i \in DOMAIN s |-> IF as = None THEN s[i].rect
                      ELSE [s[i].rect EXCEPT !.x = KeptFor(as, s[i].id).x, !.y = KeptFor(as, s[i].id).y]]
ArrangeInOrder(s, as) == Apply(s, Normalize(Reflow(Placed(s, as), Sizes(s))))
ArrangeAs(s, as) == ArrangeInOrder(InOrder(s, as), as)
Arrange(s) ==
  IF s = <<>> THEN s ELSE ArrangeAs(s, IF Len(s) > 1 THEN arranged[Ids(s)] ELSE None)

\* choices: the mode the person chose, then its own; the scale kept with it.
Choices(d) ==
  LET own == [mode |-> 1, scale |-> IF kept[d] # None /\ kept[d].mode = None
                                    THEN kept[d].scale ELSE 1]
  IN {own} \cup (IF kept[d] # None /\ kept[d].mode # None
                 THEN {[mode |-> kept[d].mode, scale |-> kept[d].scale]} ELSE {})

\* A new display at the right end, top-aligned.
AddDisplay(s, d, choice) ==
  LET size == Logical(d, choice.mode, choice.scale)
      right == Most({0} \cup {Right(s[i].rect) : i \in DOMAIN s})
      top == IF s = <<>> THEN 0 ELSE Least({s[i].rect.y : i \in DOMAIN s})
  IN Append(s, [id |-> d, rect |-> At(right, top, size), mode |-> choice.mode,
                scale |-> choice.scale,
                chosen |-> IF kept[d] = None THEN None ELSE kept[d].mode])

\* show_mode, the card having taken it: output i at a mode and scale.
ShowMode(s, i, mode, scale) ==
  [Apply(s, Reflowed(s, i, Logical(s[i].id, mode, scale))) EXCEPT ![i].mode = mode, ![i].scale = scale]

\* A mistake: the places go back, the mode stays the one on trial.
RevertLayout(s, t, taken) ==
  IF t = None \/ t.id \notin Ids(s) THEN s
  ELSE [k \in DOMAIN s |-> [s[k] EXCEPT !.rect = t.before[Index(t.before, s[k].id)].rect]]
\* revert: the display on trial at the mode it showed (if the card takes it),
\* then every output where it was, at its scale: no output came meanwhile, so
\* the layout show_mode made is replaced whole.
Revert(s, t, taken) ==
  IF t = None \/ t.id \notin Ids(s) THEN s
  ELSE LET Was(d) == t.before[Index(t.before, d)]
       IN [k \in DOMAIN s |->
            [s[k] EXCEPT !.rect = Was(s[k].id).rect, !.scale = Was(s[k].id).scale,
                         !.mode = IF s[k].id = t.id /\ taken THEN Was(t.id).mode ELSE @]]

-----------------------------------------------------------------------------
Init ==
  /\ shown = <<>> /\ dark = FALSE /\ lit = {} /\ trial = None
  /\ kept = [d \in Displays |-> None]
  /\ arranged = [set \in SUBSET Displays |-> None]
  /\ confirmed = {} /\ changes = 0 /\ plugs = 0

\* The new displays: built-in ones first, each group in the card's order.
NewOrder(new) ==
  SelectSeq(Card, LAMBDA d : d \in new /\ d \in Internal)
    \o SelectSeq(Card, LAMBDA d : d \in new /\ d \notin Internal)

\* Whether the card drives a display again at what it showed.
TakenBack == IF CardHolds THEN {TRUE} ELSE BOOLEAN

\* follow: at the start, on a hotplug, coming back from another session.
Follow(connected) ==
  /\ plugs < MaxPlugs /\ plugs' = plugs + 1
  /\ \E taken \in IF trial # None /\ trial.id \notin connected
                  THEN {FALSE} ELSE TakenBack :
       LET back == Revert(shown, trial, taken) IN
       IF connected = {}
       THEN /\ shown' = back /\ dark' = TRUE /\ lit' = {}
       ELSE LET stay == IF dark THEN <<>>
                        ELSE SelectSeq(back, LAMBDA s : s.id \in connected)
                new == NewOrder(connected \ Ids(stay))
            IN \E pick \in [connected \ Ids(stay) ->
                              UNION {Choices(d) : d \in connected} \cup {None}] :
                 /\ \A d \in DOMAIN pick : pick[d] \in Choices(d) \cup {None}
                 /\ LET driven == SelectSeq(new, LAMBDA d : pick[d] # None)
                        all[n \in 0 .. Len(driven)] ==
                          IF n = 0 THEN stay
                          ELSE AddDisplay(all[n - 1], driven[n], pick[driven[n]])
                    IN /\ shown' = Arrange(all[Len(driven)])
                       /\ lit' = (lit \cap Ids(stay)) \cup {d \in DOMAIN pick : pick[d] # None}
                 /\ dark' = FALSE
  /\ trial' = None
  /\ UNCHANGED <<kept, arranged, confirmed, changes>>

-----------------------------------------------------------------------------
(* What Settings asks for.  While a mode is on trial it alone is answered. *)

Asked == changes < MaxChanges /\ changes' = changes + 1
Shows(d) == ~dark /\ d \in Ids(shown)

\* keep_displays: written whole first, or refused with nothing changed.
KeepArrangement(s) ==
  IF Len(s) > 1 THEN [arranged EXCEPT ![Ids(s)] = ArrangementOf(s)] ELSE arranged
SettingsOf(output) == [mode |-> output.chosen, scale |-> output.scale]
KeepDisplay(output) == [kept EXCEPT ![output.id] = SettingsOf(output)]

SetMode(d, mode) ==
  /\ Asked /\ trial = None /\ Shows(d)
  /\ LET i == Index(shown, d) IN
     /\ mode # shown[i].mode
     /\ \/ /\ shown' = ShowMode(shown, i, mode, 1)
           /\ trial' = [id |-> d, before |-> shown]
           /\ lit' = lit \cup {d}
        \/ \* The card refuses it: the display is made ready as it was.
           /\ \E again \in TakenBack : lit' = IF again THEN lit \cup {d} ELSE lit \ {d}
           /\ UNCHANGED <<shown, trial>>
  /\ UNCHANGED <<dark, kept, arranged, confirmed, plugs>>

\* What is written with a layout: the display's own settings, the arrangement.
Written(now, i) == kept' = KeepDisplay(now[i]) /\ arranged' = KeepArrangement(now)

SetScale(d, scale) ==
  /\ Asked /\ trial = None /\ Shows(d)
  /\ LET i == Index(shown, d) IN
     /\ scale # shown[i].scale
     /\ shown' = ShowMode(shown, i, shown[i].mode, scale)
     /\ Written(shown', i)
  /\ UNCHANGED <<dark, lit, trial, confirmed, plugs>>

MovedTo(rects, i, to) == [rects EXCEPT ![i].x = to[1], ![i].y = to[2]]
SetOrigin(d, wanted) ==
  /\ Asked /\ trial = None /\ Shows(d) /\ Len(shown) > 1
  /\ LET i == Index(shown, d)
         others == Rects(SelectSeq(shown, LAMBDA s : s.id # d))
     IN shown' = Apply(shown,
                   Normalize(MovedTo(Rects(shown), i, Snap(others, Sizes(shown)[i], wanted))))
  /\ arranged' = KeepArrangement(shown')
  /\ UNCHANGED <<dark, lit, trial, kept, confirmed, plugs>>

SetPrimary(d) ==
  /\ Asked /\ trial = None /\ Shows(d) /\ shown[1].id # d
  /\ shown' = <<shown[Index(shown, d)]>> \o SelectSeq(shown, LAMBDA s : s.id # d)
  /\ arranged' = KeepArrangement(shown')
  /\ UNCHANGED <<dark, lit, trial, kept, confirmed, plugs>>

\* Kept: the mode on trial is the person's choice now.
Confirm ==
  /\ Asked /\ trial # None
  /\ LET i == Index(shown, trial.id)
         now == [shown EXCEPT ![i].chosen = shown[i].mode]
     IN /\ shown' = now
        /\ kept' = KeepDisplay(now[i]) /\ arranged' = KeepArrangement(now)
        /\ confirmed' = confirmed \cup {<<trial.id, shown[i].mode>>}
  /\ trial' = None
  /\ UNCHANGED <<dark, lit, plugs>>

\* Kept, but the file cannot be written: not kept, so not shown.
ConfirmFails ==
  /\ Asked /\ trial # None
  /\ \E taken \in TakenBack : shown' = Revert(shown, trial, taken)
  /\ trial' = None
  /\ UNCHANGED <<dark, lit, kept, arranged, confirmed, plugs>>

\* Not kept, or its time is up.
GoBack ==
  /\ trial # None
  /\ \E taken \in TakenBack : shown' = Revert(shown, trial, taken)
  /\ trial' = None
  /\ UNCHANGED <<dark, lit, kept, arranged, confirmed, changes, plugs>>

Next ==
  \/ \E connected \in SUBSET Displays : Follow(connected)
  \/ \E d \in Displays, m \in Modes : SetMode(d, m)
  \/ \E d \in Displays, s \in Scales : SetScale(d, s)
  \/ \E d \in Displays, w \in Wanted : SetOrigin(d, w)
  \/ \E d \in Displays : SetPrimary(d)
  \/ Confirm \/ ConfirmFails \/ GoBack

Spec == Init /\ [][Next]_vars
LiveSpec == Spec /\ WF_vars(GoBack)

-----------------------------------------------------------------------------
TypeOK ==
  /\ \A i \in DOMAIN shown :
       /\ shown[i].id \in Displays /\ shown[i].mode \in Modes
       /\ shown[i].scale \in Scales /\ shown[i].chosen \in Modes \cup {None}
       /\ shown[i].rect.x \in Nat /\ shown[i].rect.y \in Nat
       /\ \A j \in DOMAIN shown : shown[i].id = shown[j].id => i = j
  /\ dark \in BOOLEAN /\ lit \subseteq Ids(shown)
  /\ \A d \in Displays : kept[d] # None => kept[d].mode \in Modes \cup {None}
  /\ changes \in 0 .. MaxChanges /\ plugs \in 0 .. MaxPlugs

\* No output covers another, whatever was plugged, unplugged, dragged, resized
\* or tried: snap and reflow place each over none.
NoOverlap ==
  \A i, j \in DOMAIN shown : i # j => ~Overlap(shown[i].rect, shown[j].rect)

\* The pointer reaches every output from the primary, crossing edges that meet:
\* the arrangement has no gap.
Reachable ==
  \A part \in SUBSET (DOMAIN shown) :
    (part # {} /\ part # DOMAIN shown) =>
      \E i \in part, j \in DOMAIN shown \ part : Touch(shown[i].rect, shown[j].rect)

\* An output's rectangle is its mode's pixels at its scale: what went back, was
\* refused or came from a kept arrangement leaves no output at another's size.
\* (Dark, a display gone in a trial has its old place; it is made anew after.)
SizeOfMode ==
  ~dark => \A i \in DOMAIN shown :
    <<shown[i].rect.w, shown[i].rect.h>>
      = Logical(shown[i].id, shown[i].mode, shown[i].scale)

\* Only a mode the person kept within its trial is ever written, and it is what
\* the session has as chosen: the file and the session never disagree.
KeptWasConfirmed ==
  \A d \in Displays : kept[d] # None =>
    kept[d].mode \in {None} \cup {m \in Modes : <<d, m>> \in confirmed}
ChosenIsKept ==
  \A i \in DOMAIN shown :
    shown[i].chosen = (IF kept[shown[i].id] = None THEN None ELSE kept[shown[i].id].mode)

\* With no mode on trial, each output is at the mode chosen for it or its own:
\* a mode never kept is never left on screen.
NotLeftOnTrial ==
  trial = None /\ ~dark => \A i \in DOMAIN shown : shown[i].mode \in {1, shown[i].chosen}

\* The arrangement kept for the set connected is the one shown, while its
\* displays have the sizes they had: unplugged and plugged in again, they are
\* where the person had them, with the same primary.
ArrangementRestored ==
  LET as == arranged[Ids(shown)] IN
  (trial = None /\ Len(shown) > 1 /\ as # None) =>
    \/ \E i \in DOMAIN as : as[i].size # Sizes(shown)[Index(shown, as[i].id)]
    \/ as = ArrangementOf(shown)

\* A mode on trial given back leaves every output as it was before it.
BackAsBefore == ConfirmFails \/ GoBack => shown' = trial.before

\* A trial ends by itself, Settings gone or not.
TrialEnds == (trial # None) ~> (trial = None)
=============================================================================
