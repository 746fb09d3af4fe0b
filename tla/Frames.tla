-------------------------------- MODULE Frames --------------------------------
(***************************************************************************)
(* What frames.h promises and every owner of memory relies on: a frame is  *)
(* free or has one owner, an owner takes frames that are free and gives    *)
(* back its own, and nobody's frames change hands in between.  Memory      *)
(* implements it as long as no Exec has left a page behind.                *)
(***************************************************************************)
CONSTANTS Frame, Owners, Nobody

VARIABLE owner   \* the owner of each frame; Nobody's are free

(* One owner takes free frames and gives back frames of its own.           *)
Trade(o) ==
  /\ owner' \in [Frame -> Owners \cup {Nobody}]
  /\ \A f \in Frame : owner'[f] # owner[f] =>
        \/ owner[f] = Nobody /\ owner'[f] = o     \* allocate_frame
        \/ owner[f] = o /\ owner'[f] = Nobody     \* free_frame

Next == \E o \in Owners : Trade(o)
=============================================================================
