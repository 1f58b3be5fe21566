--------------------------- MODULE RingFileSupply ----------------------------
(***************************************************************************)
(* RingFile as an implementation of RingSupply.  A ring is fit when its    *)
(* file has the size and its header is accepted; the driver has taken the  *)
(* ring that it keeps mapped when refreshRing has returned.                *)
(***************************************************************************)
EXTENDS RingFile

FitRings == {i \in Inodes : size[i] = "full" /\ Valid(i)}

Supply == INSTANCE RingSupply
  WITH Rings <- Inodes,
       fit <- FitRings,
       ring <- IF header # 0 /\ NoOneRefreshes THEN Inode(header) ELSE None,
       doing <- ioing,
       reading <- [c \in Clients |->
                     IF dpc[c] = "deref" THEN Inode(ptr[c]) ELSE None]

\* However the helper's starts, deaths and repairs, the commands of ctl, an
\* unlink and the driver's calls interleave, the driver's clients are supplied
\* with one ring: it was complete when the driver took it, is never cleared,
\* and is neither given back nor exchanged.
ImplementsSupply == Supply!SupplySpec
=============================================================================
