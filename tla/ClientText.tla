----------------------------- MODULE ClientText -----------------------------
(* Text input between a client's library and the scene: the library tells only
   what changed of the focused field since it last told it, the scene puts it
   together at each commit, and the changes an input method makes come back as
   transactions in parts, each naming the commit it was made for. *)
EXTENDS Integers, Sequences, FiniteSets, SequencesExt

CONSTANTS
    Surfaces,
    Texts,          \* what the fields may hold, Empty among them
    Empty,
    Purposes,
    Carets,         \* where a caret may be
    EmptiesKept,    \* whether a field told once may become empty, kept enabled
    MaxTells,       \* bound: times the client tells a field
    MaxChanges,     \* bound: transactions
    None

TextsAssumption == Empty \in Texts
BoundsAssumption == MaxTells \in Nat /\ MaxChanges \in Nat
EmptiesAssumption == EmptiesKept \in BOOLEAN

VARIABLES
    inputs,   \* the library's, per surface: what it told, its commit serial
    building, \* the transaction the library is receiving, and the one done
    up,       \* requests on their way
    input,    \* the scene's, per surface: pending, committed, serial, fields
    down,     \* events on their way
    made,     \* every transaction the scene made, and for what
    spent     \* bounds

vars == <<inputs, building, up, input, down, made, spent>>

Field == [purpose : Purposes, text : Texts, cursor : 0..1,
          caret : Carets \cup {None}]
(* A cursor past the first place needs text. *)
Fields == {f \in Field : f.text = Empty => f.cursor = 0}

Nothing == [enabled |-> None, purpose |-> None, text |-> None,
            cursor |-> None, caret |-> None]

TypeOK ==
    /\ \A s \in Surfaces :
          /\ inputs[s].told \in Fields \cup {None}
          /\ inputs[s].serial \in 0..MaxTells
          /\ input[s].serial \in 0..MaxTells
          /\ input[s].committed # None => input[s].committed.state \in Field
    /\ Len(made) <= MaxChanges

Init ==
    /\ inputs = [s \in Surfaces |-> [told |-> None, serial |-> 0]]
    /\ building = [parts |-> None, done |-> None]
    /\ up = <<>>
    /\ input = [s \in Surfaces |-> [pending |-> Nothing, committed |-> None,
                                    serial |-> 0]]
    /\ down = <<>>
    /\ made = <<>>
    /\ spent = [tells |-> 0]

------------------------------------------------------------------------------
(* What the requests of one telling are: enabled if it is a field not told
   before, then each part that changed.  Text goes in chunks: empty text is no
   chunk at all. *)
Told(s, before, field) ==
    LET new == before = None
        Changed(part) == IF new THEN TRUE ELSE before[part] # field[part]
        Request(kind, value) == <<[surface |-> s, kind |-> kind, value |-> value]>>
    IN     (IF new THEN Request("enable", TRUE) ELSE <<>>)
        \o (IF Changed("purpose") THEN Request("purpose", field.purpose) ELSE <<>>)
        \o (IF Changed("text") /\ field.text # Empty
            THEN Request("text", field.text) ELSE <<>>)
        \o (IF Changed("text") \/ Changed("cursor")
            THEN Request("cursor", field.cursor) ELSE <<>>)
        \o (IF Changed("caret") /\ field.caret # None
            THEN Request("caret", field.caret) ELSE <<>>)

Commit(s, serial) == <<[surface |-> s, kind |-> "commit", value |-> serial]>>

(* The client tells the field focused in a surface: another than before when
   `newField`.  What is told already is not told again. *)
TextInput(s, field, newField) ==
    LET before == IF newField THEN None ELSE inputs[s].told
        serial == inputs[s].serial + 1
    IN  /\ spent.tells < MaxTells
        /\ before # field
        /\ (before # None /\ ~EmptiesKept) =>
                (field.text = Empty => before.text = Empty)
        /\ up' = up \o Told(s, before, field) \o Commit(s, serial)
        /\ inputs' = [inputs EXCEPT ![s] = [told |-> field, serial |-> serial]]
        /\ spent' = [spent EXCEPT !.tells = @ + 1]
        /\ UNCHANGED <<building, input, down, made>>

(* No field is focused in it any more. *)
NoTextInput(s) ==
    /\ inputs[s].told # None
    /\ spent.tells < MaxTells
    /\ up' = up \o <<[surface |-> s, kind |-> "enable", value |-> FALSE]>>
                \o Commit(s, inputs[s].serial + 1)
    /\ inputs' = [inputs EXCEPT ![s] = [told |-> None, serial |-> @.serial + 1]]
    /\ spent' = [spent EXCEPT !.tells = @ + 1]
    /\ UNCHANGED <<building, input, down, made>>

------------------------------------------------------------------------------
Blank == [purpose |-> CHOOSE p \in Purposes : TRUE, text |-> Empty,
          cursor |-> 0, caret |-> None]

(* What the field described since its last commit, over what it had: a field
   enabled anew starts from nothing. *)
Described(old, pending) ==
    [purpose |-> IF pending.purpose = None THEN old.purpose ELSE pending.purpose,
     text |-> IF pending.text = None THEN old.text ELSE pending.text,
     cursor |-> IF pending.cursor = None THEN old.cursor ELSE pending.cursor,
     caret |-> IF pending.caret = None THEN old.caret ELSE pending.caret]

(* The scene's text input of a surface after a commit; None: refused, for a
   serial that does not go up, and the connection fails. *)
Committed(i, serial) ==
    LET pending == i.pending
        on == IF pending.enabled = None THEN i.committed # None
              ELSE pending.enabled
        old == IF pending.enabled = None /\ i.committed # None
               THEN i.committed.state ELSE Blank
    IN  IF serial <= i.serial THEN None
        ELSE [pending |-> Nothing, serial |-> serial,
              committed |-> IF on THEN [state |-> Described(old, pending),
                                        serial |-> serial]
                            ELSE None]

(* The scene takes the next request.  Enabling or disabling forgets what was
   pending: it belonged to the field before. *)
Receive ==
    /\ up # <<>>
    /\ LET r == Head(up)
           s == r.surface
       IN  input' = [input EXCEPT ![s] =
            CASE r.kind = "enable" ->
                    [@ EXCEPT !.pending = [Nothing EXCEPT !.enabled = r.value]]
              [] r.kind \in {"purpose", "text", "cursor", "caret"} ->
                    [@ EXCEPT !.pending[r.kind] = r.value]
              [] r.kind = "commit" ->
                    IF Committed(@, r.value) = None THEN @
                    ELSE Committed(@, r.value)]
    /\ up' = Tail(up)
    /\ UNCHANGED <<inputs, building, down, made, spent>>

(* The parts of one change, in the order they are sent, and its end. *)
Parts(s, change, commit) ==
    LET Part(kind) == IF kind \in change
                      THEN <<[surface |-> s, kind |-> kind]>> ELSE <<>>
    IN  Part("delete") \o Part("text") \o Part("preedit")
        \o <<[surface |-> s, kind |-> "done", commit |-> commit,
              change |-> Len(made) + 1]>>

(* The input method changes the focused field, if it is told. *)
Change(s, change) ==
    /\ Len(made) < MaxChanges
    /\ input[s].committed # None
    /\ down' = down \o Parts(s, change, input[s].committed.serial)
    /\ made' = Append(made, [surface |-> s, change |-> change,
                             on |-> input[s].committed.state])
    /\ UNCHANGED <<inputs, building, up, input, spent>>

(* The library collects a transaction's parts; its end completes it.  Parts
   for another surface begin another. *)
Observe ==
    /\ down # <<>>
    /\ LET e == Head(down)
           held == IF building.parts = None
                   THEN [surface |-> e.surface, change |-> {}]
                   ELSE IF building.parts.surface = e.surface
                   THEN building.parts
                   ELSE [surface |-> e.surface, change |-> {}]
       IN  building' =
            IF e.kind = "done"
            THEN [parts |-> None,
                  done |-> [surface |-> e.surface, change |-> held.change,
                            commit |-> e.commit, number |-> e.change]]
            ELSE [parts |-> [held EXCEPT !.change = @ \cup {e.kind}],
                  done |-> None]
    /\ down' = Tail(down)
    /\ UNCHANGED <<inputs, up, input, made, spent>>

Next ==
    \/ \E s \in Surfaces :
          \/ \E f \in Fields, new \in BOOLEAN : TextInput(s, f, new)
          \/ NoTextInput(s)
          \/ \E change \in SUBSET {"delete", "text", "preedit"} :
                Change(s, change)
    \/ Receive
    \/ Observe

Spec == Init /\ [][Next]_vars

------------------------------------------------------------------------------
(* What the scene holds of a field, once the requests have reached it, is what
   the client told last; a caret no longer known keeps its last place. *)
HoldsTold ==
    up = <<>> => \A s \in Surfaces :
        IF inputs[s].told = None THEN input[s].committed = None
        ELSE /\ input[s].committed # None
             /\ [input[s].committed.state EXCEPT !.caret = None] =
                    [inputs[s].told EXCEPT !.caret = None]
             /\ inputs[s].told.caret # None =>
                    input[s].committed.state.caret = inputs[s].told.caret

(* A transaction reaches the program whole and as it was made. *)
Whole ==
    building.done # None =>
        /\ made[building.done.number].surface = building.done.surface
        /\ made[building.done.number].change = building.done.change

(* A transaction that names the commit the client told last was made for the
   very field the client has: its deletions and text may be applied. *)
ForThisField ==
    building.done # None =>
        LET s == building.done.surface
            on == made[building.done.number].on
        IN  /\ inputs[s].told # None
            /\ building.done.commit = inputs[s].serial
            => /\ on.text = inputs[s].told.text
               /\ on.cursor = inputs[s].told.cursor
               /\ on.purpose = inputs[s].told.purpose
==============================================================================
