--------------------------- MODULE CaptureSession ----------------------------
(***************************************************************************)
(* What the helper promises of a capture, whatever fails around it: it is  *)
(* of one configuration and of a device that has the channels for it; its  *)
(* callbacks find all of its rings and its buffers; once its device is     *)
(* lost or it is being stopped no callback begins again; and it ends after *)
(* the last callback has returned, unless the process dies.                *)
(***************************************************************************)
EXTENDS Naturals

CONSTANTS
  Configs, Devices,
  Suits(_, _)   \* is a device the one that a configuration asks for, with the
                \* channels that it needs?

VARIABLES
  sessions,  \* the capture that is going on and what it works with, if any
  on,        \* may a callback begin?
  busy       \* is a callback running?

capture == <<sessions, on, busy>>

SessionInit == sessions = {} /\ ~on /\ ~busy

Session(config, device) ==
  [config |-> config, device |-> device,
   rings |-> 1 .. config.players, buffers |-> TRUE]

\* The device may be gone by the time that its unit has started.
Begin ==
  /\ sessions = {} /\ sessions' # {}
  /\ \E config \in Configs, device \in Devices :
       /\ Suits(config, device)
       /\ sessions' = {Session(config, device)}
  /\ on' \in BOOLEAN
  /\ ~busy /\ ~busy'

Halt == on /\ ~on' /\ UNCHANGED <<sessions, busy>>

CallbackBegins == on /\ ~busy /\ busy' /\ UNCHANGED <<sessions, on>>

CallbackEnds == busy /\ ~busy' /\ UNCHANGED <<sessions, on>>

End ==
  /\ sessions # {} /\ ~on /\ ~busy
  /\ sessions' = {}
  /\ UNCHANGED <<on, busy>>

Die == sessions' = {} /\ ~on' /\ ~busy'

SessionNext ==
  Begin \/ Halt \/ CallbackBegins \/ CallbackEnds \/ End \/ Die

SessionSpec == SessionInit /\ [][SessionNext]_capture
=============================================================================
