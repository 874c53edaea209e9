---------------------------- MODULE InputMethods ----------------------------
(***************************************************************************)
(* Input methods: the scene's input-method role (compositor-core           *)
(* scene/input_method.rs, scene/text_input.rs), the session's frontend     *)
(* that holds it (compositor input_methods.rs) and the worker thread that  *)
(* runs fcitx5 (oxyos-input-methods frontend.rs, engine.rs).               *)
(*                                                                         *)
(* A field of a surface is served while the surface has the keyboard and   *)
(* the field is enabled and not sensitive.  The keys of a served field go  *)
(* first to the input method and wait for its answer; what the engine does *)
(* comes back as changes.  Text is abstracted: a change is what the engine *)
(* did for one field ("of", a ghost: the code's changes do not say).         *)
(* fcitx5 itself is external: it takes a key  *)
(* or not, and may commit when it loses a field or is switched.            *)
(*                                                                         *)
(* Three queues: "events" from the scene to the frontend, "commands" from  *)
(* the frontend to the worker, "outcomes" back.  A turn of the compositor  *)
(* (Serve) takes every event, then every outcome.                          *)
(***************************************************************************)
EXTENDS Integers, Sequences, FiniteSets, SequencesExt

CONSTANTS
  Surfaces, Keys, None,
  MaxPending,            \* MAX_PENDING_KEYS
  Methods,               \* the input methods the person added
  FieldChanges,          \* whether fields are enabled, disabled and made secret
  MaxKeys, MaxCommits, MaxFocus, MaxSwitches, MaxStops, MaxEmoji   \* bounds

BoundsAssumption ==
  /\ MaxPending \in Nat /\ MaxKeys \in Nat /\ MaxCommits \in Nat /\ MaxFocus \in Nat
  /\ MaxSwitches \in Nat /\ MaxStops \in Nat /\ MaxEmoji \in Nat /\ FieldChanges \in BOOLEAN
NoneAssumption == None \notin Surfaces \cup Keys \cup Methods

Layout == "layout"

VARIABLES
  s,        \* the scene
  f,        \* the frontend
  w,        \* the worker and its engine
  events, commands, outcomes,
  used      \* the bounds spent

vars == <<s, f, w, events, commands, outcomes, used>>

NoField == [active |-> FALSE, starting |-> FALSE, serial |-> 0, of |-> None]
FieldOff == [on |-> FALSE, secret |-> FALSE, number |-> 0, serial |-> 0, fields |-> 0]

Init ==
  /\ s = [focus |-> None, field |-> [x \in Surfaces |-> FieldOff], method |-> FALSE,
          active |-> None, keys |-> <<>>, serial |-> 0, down |-> {},
          heard |-> [x \in Surfaces |-> {}],
          last |-> 0, disorder |-> FALSE, astray |-> FALSE]
  /\ f = [connected |-> FALSE, field |-> NoField, sent |-> {}, taken |-> {}, current |-> Layout,
          emoji |-> "none", switching |-> 0]
  /\ w = [run |-> "starting", current |-> Layout, active |-> None, using |-> Layout,
          composing |-> FALSE, quick |-> FALSE]
  /\ events = <<>> /\ commands = <<>> /\ outcomes = <<>>
  /\ used = [keys |-> 0, commits |-> 0, focus |-> 0, switches |-> 0, stops |-> 0, emoji |-> 0]

Spend(what, most) == used[what] < most /\ used' = [used EXCEPT ![what] = @ + 1]

-----------------------------------------------------------------------------
(* The scene.  An operator takes and returns [s, events]. *)

ServedField(sc) ==
  IF ~sc.method \/ sc.focus = None THEN None
  ELSE LET field == sc.field[sc.focus]
       IN IF ~field.on \/ field.secret THEN None
          ELSE [surface |-> sc.focus, field |-> field.number, serial |-> field.serial]

Identity(served) == <<served.surface, served.field>>

Emit(st, event) == [st EXCEPT !.events = Append(@, event)]

\* A key reaches the surface with the keyboard, with what the layout types.
DeliverKey(st, key) ==
  LET sc == st.s
      to == sc.focus
  IN IF to = None THEN st
     ELSE [st EXCEPT
            !.s.heard[to] = IF key.pressed THEN @ \cup {key.key} ELSE @ \ {key.key},
            !.s.disorder = @ \/ key.serial <= sc.last,
            !.s.last = key.serial]

\* The keys up to the first unanswered one, or all.
ReleaseKeys(st, all) ==
  LET keys == st.s.keys
      unanswered == {n \in DOMAIN keys : keys[n].used = "unanswered"}
      count == IF all \/ unanswered = {} THEN Len(keys)
               ELSE (CHOOSE n \in unanswered : \A o \in unanswered : n <= o) - 1
  IN FoldLeft(LAMBDA acc, key : IF key.used = "yes" THEN acc ELSE DeliverKey(acc, key),
              [st EXCEPT !.s.keys = SubSeq(keys, count + 1, Len(keys))], SubSeq(keys, 1, count))

Deactivate(st) ==
  IF st.s.active = None THEN st
  ELSE Emit(ReleaseKeys([st EXCEPT !.s.active = None], TRUE),
            [kind |-> "deactivate"])

TellInputMethod(st) ==
  LET want == ServedField(st.s)
      same == st.s.active # None /\ want # None /\ Identity(st.s.active) = Identity(want)
      left == IF same THEN st ELSE Deactivate(st)
      started == IF same THEN left ELSE Emit(left, [kind |-> "activate", of |-> Identity(want)])
  IN IF ~st.s.method \/ st.s.active = want THEN st
     ELSE IF want = None THEN left
     ELSE Emit([started EXCEPT !.s.active = want], [kind |-> "done", serial |-> want.serial])

\* A surface that loses the keyboard forgets the keys it holds.
SetFocus(st, to) ==
  LET left == Deactivate(st)
  IN TellInputMethod([left EXCEPT !.s.focus = to,
                                  !.s.heard = [x \in Surfaces |-> {}]])

\* What a field committed of itself: "on" enables it anew, another field.
CommitField(st, x, as) ==
  LET field == st.s.field[x]
      off == [field EXCEPT !.on = FALSE, !.secret = FALSE, !.serial = @ + 1]
      new == [on |-> TRUE, secret |-> as = "secret", number |-> field.fields + 1,
              serial |-> field.serial + 1, fields |-> field.fields + 1]
      next == IF as = "off" THEN off
              ELSE IF as = "kept" THEN [field EXCEPT !.serial = @ + 1] ELSE new
  IN TellInputMethod([st EXCEPT !.s.field[x] = next])

Connect(st) == TellInputMethod([st EXCEPT !.s.method = TRUE])

\* The input method is gone: the keys it held go on.
Forget(st) ==
  [ReleaseKeys(st, TRUE) EXCEPT !.s.method = FALSE, !.s.active = None]

Keyboard(st, key, pressed) ==
  LET serial == st.s.serial + 1
      press == [serial |-> serial, key |-> key, pressed |-> pressed, used |-> "unanswered"]
      typed == [st EXCEPT !.s.serial = serial,
                          !.s.down = IF pressed THEN @ \cup {key} ELSE @ \ {key}]
      told == Emit([typed EXCEPT !.s.keys = Append(@, press)],
                   [kind |-> "key", serial |-> serial, key |-> key, pressed |-> pressed])
  IN IF st.s.active = None THEN DeliverKey(typed, press)
     ELSE IF Len(told.s.keys) > MaxPending THEN ReleaseKeys(told, TRUE) ELSE told

KeyHandled(st, serial, took) ==
  ReleaseKeys([st EXCEPT !.s.keys =
      [n \in DOMAIN @ |->
         IF @[n].serial = serial /\ @[n].used = "unanswered"
         THEN [@[n] EXCEPT !.used = IF took THEN "yes" ELSE "no"] ELSE @[n]]], FALSE)

\* One change to the field served now, whichever it was made for.
CommitChange(st, change) ==
  IF st.s.active = None THEN st
  ELSE [st EXCEPT !.s.astray = @ \/ change.of # Identity(st.s.active)]

-----------------------------------------------------------------------------
(* The frontend.  An operator takes and returns [s, events, f, commands]. *)

Send(st, command) == [st EXCEPT !.commands = Append(@, command)]

Wanted(fr) == fr.current # Layout \/ fr.emoji # "none" \/ (fr.connected /\ fr.switching > 0)

EmojiKeyboard == "emoji keyboard"
EngineSource(fr) == IF fr.emoji # "none" THEN EmojiKeyboard ELSE fr.current

SourcesToEngine(st) ==
  Send([st EXCEPT !.f.switching = @ + 1], [kind |-> "sources", current |-> EngineSource(st.f)])

EndEmoji(st) == SourcesToEngine([st EXCEPT !.f.emoji = "none"])
StartEmoji(st) == Send([st EXCEPT !.f.emoji = "searching"], [kind |-> "emoji"])

ConnectFrontend(st) ==
  IF st.f.connected THEN st
  ELSE Connect([st EXCEPT !.f.connected = TRUE, !.f.sent = {}, !.f.taken = {}, !.f.field = NoField])

DisconnectFrontend(st) ==
  LET told == IF st.f.field.active THEN Send(st, [kind |-> "deactivate"]) ELSE st
  IN IF ~st.f.connected THEN st
     ELSE [Forget(told) EXCEPT !.f.connected = FALSE, !.f.field = NoField, !.events = <<>>]

\* A mistake: the field left is not told the engine.
OnEventQuiet(st, e) ==
  CASE e.kind = "activate" ->
         [st EXCEPT !.f.field = [active |-> TRUE, starting |-> TRUE, serial |-> 0, of |-> e.of]]
    [] e.kind = "deactivate" -> [st EXCEPT !.f.field = NoField]
    [] e.kind = "done" ->
         LET now == [st EXCEPT !.f.field.serial = e.serial, !.f.field.starting = FALSE]
         IN IF st.f.field.starting THEN Send(now, [kind |-> "activate", of |-> st.f.field.of]) ELSE now
    [] e.kind = "key" ->
         Send([st EXCEPT !.f.sent = @ \cup {[serial |-> e.serial, key |-> e.key, pressed |-> e.pressed]}],
              [kind |-> "key", serial |-> e.serial, pressed |-> e.pressed])

OnEvent(st, e) ==
  CASE e.kind = "activate" ->
         [st EXCEPT !.f.field = [active |-> TRUE, starting |-> TRUE, serial |-> 0, of |-> e.of]]
    [] e.kind = "deactivate" ->
         LET left == Send([st EXCEPT !.f.field = NoField], [kind |-> "deactivate"])
         IN IF st.f.emoji \in {"searching", "shown"} THEN EndEmoji(left) ELSE left
    [] e.kind = "done" ->
         LET now == [st EXCEPT !.f.field.serial = e.serial, !.f.field.starting = FALSE]
             told == Send(now, [kind |-> "activate", of |-> st.f.field.of])
         IN IF ~st.f.field.starting THEN now
            ELSE IF st.f.emoji = "wanted" THEN StartEmoji(told) ELSE told
    [] e.kind = "key" ->
         Send([st EXCEPT !.f.sent = @ \cup {[serial |-> e.serial, key |-> e.key, pressed |-> e.pressed]}],
              [kind |-> "key", serial |-> e.serial, pressed |-> e.pressed])

Apply(st, change) ==
  IF change = None \/ ~st.f.field.active THEN st ELSE CommitChange(st, change)

\* A key the engine took has its release taken too.
KeyOutcome(st, o) ==
  LET of == {k \in st.f.sent : k.serial = o.serial}
      key == CHOOSE k \in of : TRUE
      took == IF of = {} \/ key.pressed THEN o.used ELSE key.key \in st.f.taken \/ o.used
      taken == IF of = {} THEN st.f.taken
               ELSE IF key.pressed /\ o.used THEN st.f.taken \cup {key.key}
               ELSE st.f.taken \ {key.key}
      next == [st EXCEPT !.f.sent = @ \ of, !.f.taken = taken]
  IN IF next.f.connected THEN KeyHandled(Apply(next, o.change), o.serial, took) ELSE next

OnOutcome(st, o) ==
  CASE o.kind = "key" -> KeyOutcome(st, o)
    [] o.kind = "change" -> IF st.f.connected THEN Apply(st, o.change) ELSE st
    [] o.kind = "switched" -> [st EXCEPT !.f.switching = IF @ = 0 THEN 0 ELSE @ - 1]
    [] o.kind = "panel" ->
         IF st.f.emoji \notin {"searching", "shown"} THEN st
         ELSE IF ~o.empty THEN [st EXCEPT !.f.emoji = "shown"]
         ELSE IF st.f.emoji = "shown" THEN EndEmoji(st) ELSE st
    [] OTHER -> st

ServeTurn(st) ==
  LET connected == IF Wanted(st.f) THEN ConnectFrontend(st) ELSE st
      told == FoldLeft(OnEvent, [connected EXCEPT !.events = <<>>], connected.events)
      heard == FoldLeft(OnOutcome, told, outcomes)
  IN IF Wanted(heard.f) THEN heard ELSE DisconnectFrontend(heard)

Now == [s |-> s, f |-> f, events |-> events, commands |-> commands]
Becomes(st) == s' = st.s /\ f' = st.f /\ events' = st.events /\ commands' = st.commands

-----------------------------------------------------------------------------
(* What happens. *)

FocusMoves(to) ==
  /\ to # s.focus /\ Spend("focus", MaxFocus)
  /\ Becomes(SetFocus(Now, to)) /\ UNCHANGED <<w, outcomes>>

TextInputCommit(x, as) ==
  /\ as = "kept" => s.field[x].on
  /\ as \in {"off", "secret"} => FieldChanges
  /\ as = "off" => s.field[x].on
  /\ as = "on" /\ ~FieldChanges => s.field[x].fields = 0
  /\ Spend("commits", MaxCommits)
  /\ Becomes(CommitField(Now, x, as)) /\ UNCHANGED <<w, outcomes>>

Key(k) ==
  /\ k \in s.down \/ used.keys < MaxKeys
  /\ used' = [used EXCEPT !.keys = IF k \in s.down THEN @ ELSE @ + 1]
  /\ Becomes(Keyboard(Now, k, k \notin s.down)) /\ UNCHANGED <<w, outcomes>>

\* Super+Space, the top bar's menu or Settings.
Select(source) ==
  /\ source \in Methods \cup {Layout} /\ source # f.current /\ Spend("switches", MaxSwitches)
  /\ Becomes(SourcesToEngine([Now EXCEPT !.f.emoji = "none", !.f.current = source]))
  /\ UNCHANGED <<w, outcomes>>

Emoji ==
  /\ Spend("emoji", MaxEmoji)
  /\ Becomes(IF f.emoji # "none" THEN Now
             ELSE LET wanted == [Now EXCEPT !.f.emoji = "wanted"]
                  IN IF f.field.active THEN StartEmoji(wanted) ELSE wanted)
  /\ UNCHANGED <<w, outcomes>>

Turn == events # <<>> \/ outcomes # <<>> \/ f.connected # Wanted(f)
Serve ==
  /\ Turn
  /\ Becomes(ServeTurn(Now)) /\ outcomes' = <<>> /\ UNCHANGED <<w, used>>

-----------------------------------------------------------------------------
(* The worker: [w, outcomes]. *)

Head1 == commands # <<>>
Take == commands' = Tail(commands)
Says(list) == outcomes' = outcomes \o list
Change == [of |-> w.active]
KeyAnswer(serial, took, change) ==
  [kind |-> "key", serial |-> serial, used |-> took, change |-> change]

\* What the engine had composed is committed, or dropped, as it is left.
LeftOver == IF w.composing /\ w.active # None
            THEN {<<>>, <<[kind |-> "change", change |-> Change]>>} ELSE {<<>>}
Closed == IF w.quick THEN <<[kind |-> "panel", empty |-> TRUE]>> ELSE <<>>

WorkSources ==
  /\ w.run = "up" /\ Head1 /\ Head(commands).kind = "sources" /\ Take
  /\ \E left \in LeftOver : Says(left \o Closed \o <<[kind |-> "switched"]>>)
  /\ w' = [w EXCEPT !.current = Head(commands).current, !.using = Head(commands).current,
                    !.composing = FALSE, !.quick = FALSE]
  /\ UNCHANGED <<s, f, events, used>>

WorkActivate ==
  /\ w.run = "up" /\ Head1 /\ Head(commands).kind = "activate" /\ Take
  /\ w' = [w EXCEPT !.active = Head(commands).of, !.using = w.current]
  /\ UNCHANGED <<s, f, events, outcomes, used>>

WorkDeactivate ==
  /\ w.run = "up" /\ Head1 /\ Head(commands).kind = "deactivate" /\ Take
  /\ \E left \in LeftOver : Says(left \o Closed)
  /\ w' = [w EXCEPT !.active = None, !.composing = FALSE, !.quick = FALSE]
  /\ UNCHANGED <<s, f, events, used>>

\* The engine takes a press or not, and says nothing of a release: fcitx5 takes
\* those of no key.
WorkKey ==
  /\ w.run = "up" /\ Head1 /\ Head(commands).kind = "key" /\ Take
  /\ LET serial == Head(commands).serial
         takes == w.active # None /\ w.using # Layout /\ Head(commands).pressed
     IN \/ /\ Says(<<KeyAnswer(serial, FALSE, None)>>) /\ w' = w
        \/ /\ takes /\ ~w.quick /\ w' = [w EXCEPT !.composing = TRUE]
           /\ Says(<<KeyAnswer(serial, TRUE, Change)>>)
        \/ /\ takes /\ w.quick /\ w' = [w EXCEPT !.quick = FALSE]
           /\ Says(<<[kind |-> "panel", empty |-> TRUE], KeyAnswer(serial, TRUE, Change)>>)
        \/ /\ takes /\ w.composing /\ w' = [w EXCEPT !.composing = FALSE]
           /\ Says(<<KeyAnswer(serial, TRUE, Change)>>)
  /\ UNCHANGED <<s, f, events, used>>

WorkEmoji ==
  /\ w.run = "up" /\ Head1 /\ Head(commands).kind = "emoji" /\ Take
  /\ w' = [w EXCEPT !.using = EmojiKeyboard, !.quick = w.active # None, !.composing = FALSE]
  /\ \E left \in LeftOver :
       Says(left \o IF w.active # None THEN <<[kind |-> "panel", empty |-> FALSE]>> ELSE <<>>)
  /\ UNCHANGED <<s, f, events, used>>

\* fcitx5 or its bus stops, or does not answer in time: the command it was
\* given is gone with it, but a key is given back.
Stops ==
  /\ w.run = "up" /\ Spend("stops", MaxStops)
  /\ \/ /\ commands' = commands /\ Says(<<[kind |-> "stopped"]>>)
        /\ w' = [w EXCEPT !.run = "down", !.composing = FALSE, !.quick = FALSE]
     \/ /\ Head1 /\ Take
        /\ LET command == Head(commands)
           IN /\ Says(IF command.kind = "key"
                      THEN <<KeyAnswer(command.serial, FALSE, None), [kind |-> "stopped"]>>
                      ELSE <<[kind |-> "stopped"]>>)
              /\ w' = [w EXCEPT !.run = "down", !.composing = FALSE, !.quick = FALSE,
                                !.active = CASE command.kind = "activate" -> command.of
                                             [] command.kind = "deactivate" -> None
                                             [] OTHER -> @]
  /\ UNCHANGED <<s, f, events>>

\* While it is down, keys are given back and the rest kept for when it is up.
WhileDown ==
  /\ w.run = "down" /\ Head1 /\ Take
  /\ LET command == Head(commands)
     IN CASE command.kind = "key" ->
               Says(<<KeyAnswer(command.serial, FALSE, None)>>) /\ UNCHANGED w
          [] command.kind = "sources" ->
               Says(<<[kind |-> "switched"]>>) /\ w' = [w EXCEPT !.current = command.current]
          [] command.kind = "activate" -> UNCHANGED outcomes /\ w' = [w EXCEPT !.active = command.of]
          [] command.kind = "deactivate" -> UNCHANGED outcomes /\ w' = [w EXCEPT !.active = None]
          [] OTHER -> UNCHANGED <<outcomes, w>>
  /\ UNCHANGED <<s, f, events, used>>

Start ==
  /\ w.run = "down" /\ w' = [w EXCEPT !.run = "starting"]
  /\ UNCHANGED <<s, f, events, commands, outcomes, used>>

\* A field served as it starts is served again.
Started ==
  /\ w.run = "starting"
  /\ w' = [w EXCEPT !.run = "up", !.using = IF w.active = None THEN Layout ELSE w.current]
  /\ Says(<<[kind |-> "ready"]>>) /\ UNCHANGED <<s, f, events, commands, used>>

StartFails ==
  /\ w.run = "starting" /\ Spend("stops", MaxStops)
  /\ w' = [w EXCEPT !.run = "down"]
  /\ Says(<<[kind |-> "stopped"]>>) /\ UNCHANGED <<s, f, events, commands>>

Work == WorkSources \/ WorkActivate \/ WorkDeactivate \/ WorkKey \/ WorkEmoji

Next ==
  \/ \E x \in Surfaces \cup {None} : FocusMoves(x)
  \/ \E x \in Surfaces, as \in {"on", "off", "secret", "kept"} : TextInputCommit(x, as)
  \/ \E k \in Keys : Key(k)
  \/ \E m \in Methods \cup {Layout} : Select(m)
  \/ Emoji \/ Serve
  \/ Work \/ Stops \/ WhileDown \/ Start \/ Started \/ StartFails

Spec == Init /\ [][Next]_vars

\* Turns are served as they are woken, and the worker goes on with what it is
\* given: a call it waits on too long is a stop.  (Weak fairness of Serve and of
\* the worker, with what enables them written out.)
Working == Work \/ WhileDown \/ Start \/ Started \/ StartFails
LiveSpec ==
  /\ Spec
  /\ []<>~Turn \/ []<><<Serve>>_vars
  /\ []<>(w.run = "up" /\ commands = <<>>) \/ []<><<Working>>_vars

-----------------------------------------------------------------------------
Settled ==
  /\ events = <<>> /\ commands = <<>> /\ outcomes = <<>> /\ w.run = "up"
  /\ f.connected = Wanted(f)

TypeOK ==
  /\ s.focus \in Surfaces \cup {None} /\ s.down \subseteq Keys
  /\ f.emoji \in {"none", "wanted", "searching", "shown"} /\ f.taken \subseteq Keys
  /\ f.switching \in Nat /\ f.connected = s.method
  /\ w.run \in {"up", "down", "starting"}
  /\ s.keys # <<>> => s.active # None
  /\ Len(s.keys) <= MaxPending

\* The field served is the enabled, not sensitive one with the keyboard, at all
\* times: no key of a password field, nor one typed elsewhere, is the input
\* method's.
ServesTheFocus ==
  LET there == s.method /\ s.focus # None
      field == s.field[s.focus]
  IN /\ (s.active # None) = IF there THEN field.on /\ ~field.secret ELSE FALSE
     /\ s.active # None => s.active = [surface |-> s.focus, field |-> field.number, serial |-> field.serial]

\* Keys reach surfaces in the order they were typed, those the input method
\* gave back among them.
KeysInOrder == ~s.disorder

\* A key a surface heard pressed, and kept the keyboard for, does not stay down
\* there once the person let it go.
NoKeyStaysDown ==
  (Settled /\ s.keys = <<>>) => \A x \in Surfaces : s.heard[x] \subseteq s.down

\* A change reaches the field it was made for, or none.
ChangesToTheirField == ~s.astray

\* Once all is said, the frontend serves what the scene says, the engine what
\* the frontend says, and no key waits.
AllAgree ==
  Settled =>
    /\ f.field.active = (s.active # None)
    /\ s.active # None => f.field.serial = s.active.serial /\ f.field.of = Identity(s.active)
    /\ w.active = f.field.of
    /\ f.sent = {} /\ s.keys = <<>>

\* Once all is said, the engine uses the input source the person chose, and no
\* switch is waited for.
EngineFollows ==
  Settled => f.switching = 0 /\ (f.emoji = "none" =>
                              /\ w.current = f.current
                              /\ w.active # None => w.using = f.current)

\* Once all is said, emoji are searched for if and only if the engine has its
\* search open.
SearchIsOpen ==
  Settled => ((f.emoji \in {"searching", "shown"}) = w.quick)

\* Every key typed into a field reaches it or is taken in the end.
KeysGoOn == (s.keys # <<>>) ~> (s.keys = <<>>)
=============================================================================
