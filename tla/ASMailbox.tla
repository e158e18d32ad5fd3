----------------------------- MODULE ASMailbox -----------------------------
(***************************************************************************)
(* What the two tasks promise each other through the globals of            *)
(* ASRequestGlobal.hpp: a mailbox of one slot.  The HTTP thread puts a     *)
(* command into it (WAIT_IN -> PROCESSING), the main loop executes it      *)
(* (PROCESSING -> PROCESSED) and the HTTP thread takes the result          *)
(* (PROCESSED -> WAIT_IN).  There is no lock: the phase alone says whose   *)
(* turn it is.  ASServer implements this module; GameLoop plays its main   *)
(* loop's end in detail.                                                   *)
(***************************************************************************)
EXTENDS Naturals, Sequences

CONSTANT Commands   \* what a slot can hold

VARIABLES phase,    \* "WAIT_IN", "PROCESSING" or "PROCESSED"
          slot,     \* the command put last, meaningful while PROCESSING
          executed  \* the commands the main loop executed, in order

mailbox == <<phase, slot, executed>>

Init ==
    /\ phase = "WAIT_IN"
    /\ executed = <<>>

\* The HTTP thread hands a command over; only an empty mailbox accepts one.
Put ==
    /\ phase = "WAIT_IN"
    /\ phase' = "PROCESSING"
    /\ slot' \in Commands
    /\ UNCHANGED executed

\* The main loop executes exactly the command that was put, and once.
Execute ==
    /\ phase = "PROCESSING"
    /\ phase' = "PROCESSED"
    /\ executed' = Append(executed, slot)
    /\ UNCHANGED slot

\* The HTTP thread takes the result and reopens the mailbox.
Take ==
    /\ phase = "PROCESSED"
    /\ phase' = "WAIT_IN"
    /\ UNCHANGED <<slot, executed>>

Next == Put \/ Execute \/ Take

Safety == Init /\ [][Next]_mailbox

\* The main loop never leaves a command unexecuted.
Spec == Safety /\ WF_mailbox(Execute)
=============================================================================
