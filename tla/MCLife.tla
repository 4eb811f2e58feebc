------------------------------- MODULE MCLife -------------------------------
(***************************************************************************)
(* Small instances of UrekaLife for TLC.                                   *)
(***************************************************************************)
EXTENDS UrekaLife, MCUreka

(* Nobody reads the order of a device that lost its memory; and where      *)
(* Reporters is empty, nobody reads the receipts that are stored.          *)
LifeView ==
  <<life, state, [d \in Devices |-> IF life[d] = "lost" THEN 0 ELSE order[d]], owner, session,
    initTicket, [a \in Agents |-> [d \in Devices |-> [table[a][d] EXCEPT !.rOwner = NoRT]]],
    channel>>
=============================================================================
