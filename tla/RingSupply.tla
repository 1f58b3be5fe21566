----------------------------- MODULE RingSupply ------------------------------
(***************************************************************************)
(* What the helper, ctl and the driver promise the readers of a player's   *)
(* ring between them: a ring that was once fit for use stays fit, whoever  *)
(* starts, dies or sets a latency; the driver takes a fit ring only while  *)
(* nobody does I/O, and keeps the first one that it took; a client reads   *)
(* that ring and no other.                                                 *)
(***************************************************************************)
CONSTANTS Rings, Clients, None

VARIABLES
  fit,      \* the rings that are fit for use
  ring,     \* the one that the driver has, or None
  doing,    \* per client: does it do I/O?
  reading   \* per client: the ring that it accesses, or None

io == <<doing, reading>>

SupplyInit ==
  /\ fit = {}
  /\ ring = None
  /\ doing = [c \in Clients |-> FALSE]
  /\ reading = [c \in Clients |-> None]

Publish ==
  /\ fit' # fit
  /\ \E i \in Rings : fit' = fit \cup {i}
  /\ UNCHANGED <<ring, io>>

Take ==
  /\ ring' # ring
  /\ ring = None /\ ring' \in fit
  /\ \A c \in Clients : ~doing[c]
  /\ UNCHANGED <<fit, io>>

Access(c) == ring # None /\ reading' = [reading EXCEPT ![c] = ring]

\* The first client's start looks at the ring itself.
Enter(c) ==
  /\ ~doing[c] /\ doing' = [doing EXCEPT ![c] = TRUE]
  /\ \/ UNCHANGED reading
     \/ (\A d \in Clients : ~doing[d]) /\ Access(c)
  /\ UNCHANGED <<fit, ring>>

Leave(c) ==
  /\ doing[c] /\ doing' = [doing EXCEPT ![c] = FALSE]
  /\ reading[c] = None
  /\ UNCHANGED <<fit, ring, reading>>

Read(c) ==
  /\ doing[c] /\ reading[c] = None
  /\ Access(c)
  /\ UNCHANGED <<fit, ring, doing>>

Done(c) ==
  /\ reading[c] # None
  /\ reading' = [reading EXCEPT ![c] = None]
  /\ UNCHANGED <<fit, ring, doing>>

SupplyNext ==
  \/ Publish
  \/ Take
  \/ \E c \in Clients : Enter(c) \/ Leave(c) \/ Read(c) \/ Done(c)

SupplySpec == SupplyInit /\ [][SupplyNext]_<<fit, ring, io>>
=============================================================================
