----------------------------- MODULE Candidates -----------------------------
(***************************************************************************)
(* The candidates an input method hands the system (compositor-core        *)
(* scene/input_method.rs): the session's shell of the caret's output draws *)
(* them and passes back what the person chooses.  A list is its length,    *)
(* whether it has a prompt, and a number that tells lists apart (ghost).   *)
(* The shells and the engine read what they are told later.                *)
(***************************************************************************)
EXTENDS Integers, Sequences, FiniteSets, SequencesExt

CONSTANTS
  Outputs, None,
  MaxCount,            \* candidates a list has at most (MAX_INPUT_CANDIDATES)
  Prompts,             \* whether the engine shows a prompt with no candidates
  Chooses,             \* whether the person chooses a candidate with the pointer
  MaxLists, MaxMoves, MaxGone, MaxFields, MaxChoices   \* bounds

BoundsAssumption ==
  /\ MaxCount \in Nat /\ MaxLists \in Nat /\ MaxMoves \in Nat /\ MaxGone \in Nat /\ MaxFields \in Nat
  /\ MaxChoices \in Nat
  /\ Prompts \in BOOLEAN /\ Chooses \in BOOLEAN
  /\ Outputs # {} /\ None \notin Outputs

VARIABLES
  sc,        \* the scene: [shells, caret, active, list, told, inbox]
  view,      \* what each shell draws
  asked,     \* what the shells asked, not taken yet
  engine,    \* the engine: [list, chosen] and the choices it has not read
  killed,    \* ghost: a shell was disconnected for what it asked
  used

vars == <<sc, view, asked, engine, killed, used>>

\* A shell is the output its surface is on: one process for each.
Nothing == [count |-> 0, prompt |-> FALSE, id |-> 0]

Init ==
  /\ sc = [shells |-> Outputs, caret |-> CHOOSE o \in Outputs : TRUE, active |-> FALSE,
           list |-> None, told |-> None, inbox |-> [o \in Outputs |-> <<>>]]
  /\ view = [o \in Outputs |-> Nothing] /\ asked = <<>>
  /\ engine = [list |-> Nothing, choices |-> <<>>, chosen |-> None]
  /\ killed = FALSE /\ used = [lists |-> 0, moves |-> 0, gone |-> 0, fields |-> 0, choices |-> 0]

\* The shell on the caret's output, or the first.
ShortcutShell(s) ==
  IF s.caret \in s.shells THEN s.caret
  ELSE IF s.shells = {} THEN None ELSE CHOOSE o \in s.shells : TRUE

CandidatesShell(s) == IF s.list = None \/ ~s.active THEN None ELSE ShortcutShell(s)

Emit(s, o, list) == [s EXCEPT !.inbox[o] = Append(@, list)]

\* The one that draws them now gets the list, the one that did an empty one.
TellCandidates(s) ==
  LET shell == CandidatesShell(s)
      told == IF shell = None THEN None ELSE [shell |-> shell, list |-> s.list]
      left == IF s.told # None THEN s.told.shell # shell /\ s.told.shell \in s.shells ELSE FALSE
      emptied == IF left THEN Emit(s, s.told.shell, Nothing) ELSE s
  IN IF told = s.told THEN s
     ELSE IF told = None THEN [emptied EXCEPT !.told = None]
     ELSE Emit([emptied EXCEPT !.told = told], shell, told.list)

Deactivate(s) == TellCandidates([s EXCEPT !.active = FALSE, !.list = None])

ForgetShell(s, o) ==
  LET gone == [s EXCEPT !.shells = @ \ {o}, !.inbox[o] = <<>>]
      drew == IF s.told = None THEN FALSE ELSE s.told.shell = o
  IN IF drew THEN TellCandidates([gone EXCEPT !.told = None]) ELSE gone

-----------------------------------------------------------------------------
Spend(what, most) == used[what] < most /\ used' = [used EXCEPT ![what] = @ + 1]

\* A list for no field served, or of no candidate, is not shown.
EngineLists(count, prompt) ==
  /\ Spend("lists", MaxLists)
  /\ prompt => Prompts /\ count = 0
  /\ LET list == [count |-> count, prompt |-> prompt, id |-> used.lists + 1]
     IN /\ engine' = [engine EXCEPT !.list = list]
        /\ sc' = TellCandidates([sc EXCEPT !.list = IF count > 0 /\ sc.active THEN list ELSE None])
  /\ UNCHANGED <<view, asked, killed>>

FieldServed ==
  /\ ~sc.active /\ Spend("fields", MaxFields)
  /\ sc' = TellCandidates([sc EXCEPT !.active = TRUE]) /\ UNCHANGED <<view, asked, engine, killed>>
FieldLeft ==
  /\ sc.active /\ sc' = Deactivate(sc) /\ engine' = [engine EXCEPT !.list = Nothing]
  /\ UNCHANGED <<view, asked, killed, used>>

\* The caret moves as the field says so: the shells are told anew.  (A window
\* moved to another output only places the candidates: see the README.)
CaretMoves(o) ==
  /\ o # sc.caret /\ Spend("moves", MaxMoves)
  /\ sc' = TellCandidates([sc EXCEPT !.caret = o]) /\ UNCHANGED <<view, asked, engine, killed>>

ShellGoes(o) ==
  /\ o \in sc.shells /\ Spend("gone", MaxGone)
  /\ sc' = ForgetShell(sc, o) /\ view' = [view EXCEPT ![o] = Nothing]
  /\ asked' = SelectSeq(asked, LAMBDA a : a.shell # o) /\ UNCHANGED <<engine, killed>>
\* It is started again; the candidates shown now stay where they are.
ShellComes(o) ==
  /\ o \notin sc.shells /\ sc' = [sc EXCEPT !.shells = @ \cup {o}]
  /\ UNCHANGED <<view, asked, engine, killed, used>>

ShellHears(o) ==
  /\ sc.inbox[o] # <<>>
  /\ view' = [view EXCEPT ![o] = Head(sc.inbox[o])] /\ sc' = [sc EXCEPT !.inbox[o] = Tail(@)]
  /\ UNCHANGED <<asked, engine, killed, used>>

ShellChooses(o) ==
  /\ Chooses /\ o \in sc.shells /\ view[o].count > 0 /\ Spend("choices", MaxChoices)
  /\ \E index \in 0..view[o].count - 1 :
       asked' = Append(asked, [shell |-> o, index |-> index, list |-> view[o]])
  /\ UNCHANGED <<sc, view, engine, killed>>

\* The scene takes a choice: one for a list hidden since, or drawn by another
\* shell, is nothing; one past the end of the list is an error.
CandidatesRequest ==
  /\ asked # <<>> /\ asked' = Tail(asked)
  /\ LET ask == Head(asked)
         drew == IF sc.told = None THEN FALSE ELSE sc.told.shell = ask.shell
     IN IF ~drew THEN UNCHANGED <<sc, view, engine, killed>>
        ELSE IF ask.index >= sc.told.list.count
             THEN /\ killed' = TRUE /\ sc' = ForgetShell(sc, ask.shell)
                  /\ view' = [view EXCEPT ![ask.shell] = Nothing] /\ UNCHANGED engine
             ELSE /\ engine' = [engine EXCEPT !.choices = Append(@, [index |-> ask.index, list |-> ask.list])]
                  /\ UNCHANGED <<sc, view, killed>>
  /\ UNCHANGED used

EngineChooses ==
  /\ engine.choices # <<>>
  /\ LET choice == Head(engine.choices)
     IN engine' = [engine EXCEPT !.choices = Tail(@),
                     !.chosen = IF choice.index < engine.list.count
                                THEN [index |-> choice.index, from |-> choice.list.id, of |-> engine.list.id]
                                ELSE None]
  /\ UNCHANGED <<sc, view, asked, killed, used>>

Next ==
  \/ \E count \in 0..MaxCount, prompt \in BOOLEAN : EngineLists(count, prompt)
  \/ FieldServed \/ FieldLeft
  \/ \E o \in Outputs : CaretMoves(o) \/ ShellGoes(o) \/ ShellComes(o) \/ ShellHears(o) \/ ShellChooses(o)
  \/ CandidatesRequest \/ EngineChooses

Spec == Init /\ [][Next]_vars
LiveSpec == Spec /\ \A o \in Outputs : WF_vars(ShellHears(o))

-----------------------------------------------------------------------------
TypeOK ==
  /\ sc.shells \subseteq Outputs /\ sc.caret \in Outputs
  /\ sc.list # None => sc.active /\ sc.list.count > 0
  /\ sc.told # None => sc.told.shell \in sc.shells

\* Once every shell read what it was told, the candidates are drawn once: by the
\* shell told them, as they are now, and by no other.
DrawnOnce ==
  (\A o \in Outputs : sc.inbox[o] = <<>>) =>
    \A o \in sc.shells :
      view[o] = IF sc.told = None THEN Nothing
                ELSE IF sc.told.shell = o THEN sc.told.list ELSE Nothing

\* A list is drawn as long as there is a shell to draw it, and only for the
\* field served.
DrawnIfAny ==
  (sc.list # None /\ sc.shells # {}) => sc.told # None /\ sc.told.list = sc.list

\* The list left does not stay drawn.
Hidden == \A o \in Outputs : (~sc.active /\ view[o].count > 0) ~> (view[o].count = 0 \/ sc.active)

\* A shell that chooses what it shows is not disconnected for it.
ShellStays == ~killed

\* The candidate chosen is the one the person pressed.
ChosenIsPressed == engine.chosen # None => engine.chosen.from = engine.chosen.of

\* A prompt is drawn though there are no candidates yet.
PromptDrawn == (sc.active /\ engine.list.prompt /\ sc.shells # {}) => sc.told # None
=============================================================================
