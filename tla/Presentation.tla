---------------------------- MODULE Presentation ----------------------------
(***************************************************************************)
(* One surface's presentation state: a frame displayed, one presenting and *)
(* one queued (crates/oxyos-compositor-core/src/presentation.rs).  Every   *)
(* method is an action its caller may take at any time; `returned` is the  *)
(* Result of the last call, the frames handed back or the error.  A refused *)
(* call changes nothing else.                                              *)
(***************************************************************************)
EXTENDS Integers

CONSTANTS Buffers, NoBuffer,  \* buffer ids, and the id 0 that names none
          Extents, Valid,     \* sizes, and those Size::is_valid accepts
          MaxSerial,    \* u64::MAX in the code: configure fails at it
          MaxSequence,  \* the largest sequence a client can send, u64::MAX
          None

ASSUME BoundsAssumption == MaxSerial \in Nat \ {0} /\ MaxSequence \in Nat \ {0}
ASSUME ValidAssumption  == Valid \subseteq Extents

VARIABLES serial, extent, last_sequence, displayed, queued, presenting, returned

vars == <<serial, extent, last_sequence, displayed, queued, presenting, returned>>

\* Presentation::Frame, as a client sends it: 0 is no sequence and no
\* buffer, and any serial and extent may be named.
Frames == [sequence : 0..MaxSequence, buffer : Buffers \cup {NoBuffer},
           configure : 0..MaxSerial, extent : Extents]
Errors == {"InvalidExtent", "InvalidFrame", "StaleConfigure", "WrongExtent", "OutOfOrder",
           "BufferBusy", "PresentationBusy", "NoPresentation", "SerialExhausted"}

ASSUME NoneAssumption == None \notin Frames \cup Errors

TypeOK ==
    /\ serial \in 1..MaxSerial
    /\ extent \in Valid
    /\ last_sequence \in 0..MaxSequence
    /\ displayed \in Frames \cup {None}
    /\ queued \in Frames \cup {None}
    /\ presenting \in Frames \cup {None}
    /\ returned \in [frames : SUBSET Frames, error : Errors \cup {None}]

\* Presentation::new.
Init ==
    /\ serial = 1
    /\ extent \in Valid
    /\ last_sequence = 0
    /\ displayed = None /\ queued = None /\ presenting = None
    /\ returned = [frames |-> {}, error |-> None]

Held == {displayed, presenting, queued} \ {None}

Give(F) == returned' = [frames |-> F \ {None}, error |-> None]
Refuse(e) == /\ returned' = [frames |-> {}, error |-> e]
             /\ UNCHANGED <<serial, extent, last_sequence, displayed, queued, presenting>>

\* Presentation::configure.
Configure(e) ==
    IF e \notin Valid
    THEN Refuse("InvalidExtent")
    ELSE IF serial = MaxSerial
    THEN Refuse("SerialExhausted")
    ELSE /\ serial' = serial + 1
         /\ extent' = e
         /\ queued' = None
         /\ Give({queued})
         /\ UNCHANGED <<last_sequence, displayed, presenting>>

\* A mistake: frames are taken in any order.
SubmitErrorAnyOrder(f) ==
    IF f.sequence = 0 \/ f.buffer = NoBuffer THEN "InvalidFrame"
    ELSE IF f.configure # serial THEN "StaleConfigure"
    ELSE IF f.extent # extent THEN "WrongExtent"
    ELSE IF f.buffer \in {h.buffer : h \in Held} THEN "BufferBusy"
    ELSE None

\* The check of Presentation::submit that refuses f, in the order it makes them.
SubmitError(f) ==
    IF f.sequence = 0 \/ f.buffer = NoBuffer THEN "InvalidFrame"
    ELSE IF f.configure # serial THEN "StaleConfigure"
    ELSE IF f.extent # extent THEN "WrongExtent"
    ELSE IF f.sequence <= last_sequence THEN "OutOfOrder"
    ELSE IF f.buffer \in {h.buffer : h \in Held} THEN "BufferBusy"
    ELSE None

\* Presentation::submit.
Submit(f) ==
    IF SubmitError(f) # None
    THEN Refuse(SubmitError(f))
    ELSE /\ last_sequence' = f.sequence
         /\ queued' = f
         /\ Give({queued})
         /\ UNCHANGED <<serial, extent, displayed, presenting>>

\* Presentation::begin_present; the frame it returns stays this surface's.
BeginPresent ==
    IF presenting # None
    THEN Refuse("PresentationBusy")
    ELSE /\ presenting' = queued
         /\ queued' = None
         /\ Give({})
         /\ UNCHANGED <<serial, extent, last_sequence, displayed>>

\* A mistake: the frame replaced is not handed back.
CompletePresentKeeps ==
    IF presenting = None
    THEN Refuse("NoPresentation")
    ELSE /\ displayed' = presenting /\ presenting' = None
         /\ Give({})
         /\ UNCHANGED <<serial, extent, last_sequence, queued>>

\* Presentation::complete_present.
CompletePresent ==
    IF presenting = None
    THEN Refuse("NoPresentation")
    ELSE /\ displayed' = presenting
         /\ presenting' = None
         /\ Give({displayed})
         /\ UNCHANGED <<serial, extent, last_sequence, queued>>

\* A mistake: a frame of a configure replaced since waits again.
RetryPresentStale ==
    IF presenting = None
    THEN Refuse("NoPresentation")
    ELSE /\ presenting' = None
         /\ IF queued # None
            THEN Give({presenting}) /\ UNCHANGED queued
            ELSE Give({}) /\ queued' = presenting
         /\ UNCHANGED <<serial, extent, last_sequence, displayed>>

\* Presentation::retry_present: the frame waits again unless it was overtaken.
RetryPresent ==
    IF presenting = None
    THEN Refuse("NoPresentation")
    ELSE /\ presenting' = None
         /\ IF queued # None \/ presenting.configure # serial
            THEN Give({presenting}) /\ UNCHANGED queued
            ELSE Give({}) /\ queued' = presenting
         /\ UNCHANGED <<serial, extent, last_sequence, displayed>>

\* Presentation::take_all.
TakeAll ==
    /\ Give(Held)
    /\ displayed' = None /\ presenting' = None /\ queued' = None
    /\ UNCHANGED <<serial, extent, last_sequence>>

Next == \/ \E e \in Extents : Configure(e)
        \/ \E f \in Frames : Submit(f)
        \/ BeginPresent \/ CompletePresent \/ RetryPresent \/ TakeAll

Spec == Init /\ [][Next]_vars

-----------------------------------------------------------------------------
(* Properties.                                                               *)

Before(f, g) == f = None \/ g = None \/ (f.sequence < g.sequence /\ f.buffer # g.buffer)

\* The frames held are in the order they were submitted and name different
\* buffers: what is displayed is older than what is presenting, older than what
\* is queued, however configures, retries and completions interleave.
HeldInOrder ==
    /\ Before(displayed, presenting) /\ Before(displayed, queued) /\ Before(presenting, queued)
    /\ \A f \in Held : f.sequence \in 1..last_sequence

\* A queued frame was drawn for the configure in force, so no frame of an old
\* size ever starts presenting (configure, submit and retry_present each keep it).
QueuedIsCurrent == queued # None => queued.configure = serial /\ queued.extent = extent

\* No call loses a frame or hands one back that is still held: each frame that
\* leaves is returned once, so that its caller can release its buffer.
FramesHandedBack ==
    [][/\ Held \subseteq Held' \cup returned'.frames
       /\ Held' \cap returned'.frames = {}]_vars

\* A surface never goes back to older content: what is displayed is replaced
\* only by a later frame, or taken with everything else.
DisplayedMovesOn ==
    [][displayed # displayed' => displayed' = None \/ Before(displayed, displayed')]_vars
=============================================================================
