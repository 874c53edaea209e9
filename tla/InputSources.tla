---------------------------- MODULE InputSources ----------------------------
(***************************************************************************)
(* The person's input sources: their keyboard layout, then the input       *)
(* methods they added (compositor input_methods.rs, the shortcuts of       *)
(* compositor-core scene/shortcuts.rs, the preferences).  Super+Space goes *)
(* back by when each was last used; shortcuts wait in the scene for the    *)
(* compositor's turn, and Settings may change the list between them.       *)
(***************************************************************************)
EXTENDS Integers, Sequences, FiniteSets, SequencesExt

CONSTANTS
  Known,       \* INPUT_METHODS
  Available,   \* those the engine has
  Layout, None,
  Removes,     \* whether Settings removes the current one
  Saves,       \* whether every choice is kept: no preference fails to save
  MaxShortcuts, MaxChanges   \* bounds

SourcesAssumption == Available \subseteq Known /\ Layout \notin Known
BoundsAssumption == MaxShortcuts \in Nat /\ MaxChanges \in Nat
                    /\ Removes \in BOOLEAN /\ Saves \in BOOLEAN

VARIABLES
  kept,      \* the preferences: [sources, source]
  m,         \* the frontend: [sources, current, recent, cycle]
  super,     \* Super held, and the spaces since: [held, spaces]
  queue,     \* shortcuts in the scene not taken yet
  order,     \* ghost: the sources by when each was last the current one
  moved,     \* ghost: the last shortcut's [step, to, by]: by the order it goes back in
  used

vars == <<kept, m, super, queue, order, moved, used>>


\* The person's input methods the engine has, and the current one if of them.
Chosen(p) ==
  LET sources == SelectSeq(p.sources, LAMBDA id : id \in Available)
  IN [sources |-> sources, current |-> IF p.source \in ToSet(sources) THEN p.source ELSE Layout]

ListOf(sources) == <<Layout>> \o sources

Init ==
  /\ \E ids \in SUBSET Known, source \in Known \cup {Layout} :
       \E sources \in SetToSeqs(ids) :
         /\ source \in ids \cup {Layout}
         /\ kept = [sources |-> sources, source |-> source]
         /\ LET c == Chosen([sources |-> sources, source |-> source])
                first == <<c.current>> \o SelectSeq(ListOf(c.sources), LAMBDA id : id # c.current)
            IN /\ m = [sources |-> c.sources, current |-> c.current, recent |-> first, cycle |-> <<>>]
               /\ order = first
  /\ super = [held |-> FALSE, spaces |-> 0] /\ queue = <<>> /\ moved = None
  /\ used = [shortcuts |-> 0, changes |-> 0]

Forward(list, id) == <<id>> \o SelectSeq(list, LAMBDA other : other # id)

Choose(mm, id, use) == [mm EXCEPT !.current = id, !.recent = IF use THEN Forward(@, id) ELSE @]

\* One removed since is not chosen; a choice that cannot be kept is made.
SelectSource(st, id, saved) ==
  IF id # Layout /\ id \notin ToSet(st.m.sources) THEN st
  ELSE [m |-> Choose(st.m, id, TRUE),
        kept |-> IF saved /\ id \in ToSet(st.kept.sources) \cup {Layout}
                 THEN [st.kept EXCEPT !.source = id] ELSE st.kept,
        order |-> Forward(st.order, id)]

Previous(st, step, saved) ==
  LET mm == [st.m EXCEPT !.cycle = IF step = 1 THEN st.m.recent ELSE @]
  IN IF Len(mm.cycle) < 2 THEN [st EXCEPT !.m = mm]
     ELSE SelectSource([st EXCEPT !.m = mm], mm.cycle[(step % Len(mm.cycle)) + 1], saved)

Next1(st, saved) ==
  LET list == ListOf(st.m.sources)
      at == CHOOSE n \in DOMAIN list : list[n] = st.m.current
  IN IF Len(list) < 2 THEN st ELSE SelectSource(st, list[(at % Len(list)) + 1], saved)

-----------------------------------------------------------------------------
Spend(what, most) == used[what] < most /\ used' = [used EXCEPT ![what] = @ + 1]

SuperGoes ==
  /\ super' = [held |-> ~super.held, spaces |-> 0]
  /\ UNCHANGED <<kept, m, queue, order, moved, used>>

Space(alt) ==
  /\ super.held /\ Spend("shortcuts", MaxShortcuts)
  /\ super' = [super EXCEPT !.spaces = IF alt THEN @ ELSE @ + 1]
  /\ queue' = Append(queue, IF alt THEN 0 ELSE super'.spaces)
  /\ UNCHANGED <<kept, m, order, moved>>

\* The turn takes the shortcuts one at a time.
Shortcut(saved) ==
  /\ queue # <<>> /\ queue' = Tail(queue)
  /\ saved \/ ~Saves
  /\ LET step == Head(queue)
         st == [m |-> m, kept |-> kept, order |-> order]
         next == IF step = 0 THEN Next1(st, saved) ELSE Previous(st, step, saved)
     IN /\ m' = next.m /\ kept' = next.kept /\ order' = next.order
        /\ moved' = [step |-> step, to |-> next.m.current,
                     by |-> IF step = 1 THEN order ELSE IF moved = None THEN <<>> ELSE moved.by]
  /\ UNCHANGED <<super, used>>

FollowPreferences(p) ==
  LET c == Chosen(p)
      all == ToSet(ListOf(c.sources))
      left == SelectSeq(m.recent, LAMBDA id : id \in all)
      added == SelectSeq(ListOf(c.sources), LAMBDA id : id \notin ToSet(left))
  IN m' = Choose([m EXCEPT !.sources = c.sources, !.recent = left \o added], c.current, FALSE)

\* The sources by last use, those gone left out and those new last.
Used(p) ==
  LET c == Chosen(p)
      left == SelectSeq(order, LAMBDA id : id \in ToSet(ListOf(c.sources)))
      added == SelectSeq(ListOf(c.sources), LAMBDA id : id \notin ToSet(left))
  IN IF c.current = m.current THEN left \o added ELSE Forward(left \o added, c.current)

\* Settings' list: the current one removed leaves the layout current.
SetSources(sources) ==
  /\ sources # kept.sources /\ Spend("changes", MaxChanges)
  /\ Removes \/ m.current \in ToSet(sources) \cup {Layout}
  /\ Removes \/ m.current = kept.source
  /\ kept' = [sources |-> sources,
              source |-> IF kept.source \in ToSet(sources) THEN kept.source ELSE Layout]
  /\ FollowPreferences(kept') /\ order' = Used(kept')
  /\ moved' = None /\ UNCHANGED <<super, queue>>

\* The top bar's menu.
Menu(id, saved) ==
  /\ id \in ToSet(m.sources) \cup {Layout} /\ Spend("changes", MaxChanges)
  /\ saved \/ ~Saves
  /\ LET next == SelectSource([m |-> m, kept |-> kept, order |-> order], id, saved)
     IN m' = next.m /\ kept' = next.kept /\ order' = next.order
  /\ moved' = None /\ UNCHANGED <<super, queue>>

Next ==
  \/ SuperGoes \/ \E alt \in BOOLEAN : Space(alt)
  \/ \E saved \in BOOLEAN : Shortcut(saved)
  \/ \E ids \in SUBSET Known : \E sources \in SetToSeqs(ids) : SetSources(sources)
  \/ \E id \in Known \cup {Layout}, saved \in BOOLEAN : Menu(id, saved)

Spec == Init /\ [][Next]_vars

-----------------------------------------------------------------------------
\* The sources in their order of use are those the person has, each once, and
\* the current one is of them.
TypeOK ==
  /\ ToSet(m.recent) = ToSet(ListOf(m.sources)) /\ IsInjective(m.recent)
  /\ m.current \in ToSet(m.recent)
  /\ ToSet(m.sources) \subseteq Available

\* Super+Space chooses the source used before the current one, and each further
\* Space while Super is held the one used before that.
GoesBack ==
  (moved # None /\ moved.step > 0 /\ Len(moved.by) > 1)
    => moved.to = moved.by[(moved.step % Len(moved.by)) + 1]

\* The order kept is the order in which the sources were last current.
OrderOfUse == m.recent = order
=============================================================================
