------------------------------ MODULE MCDriver ------------------------------
(***************************************************************************)
(* Small instances of UrekaDriver for TLC.                                 *)
(***************************************************************************)
EXTENDS UrekaDriver, MCUreka

FirstTexts == Commands \cup {NoCmd}

DriverView == <<View, goal, done>>

OneCommand == {{c} : c \in Commands}
=============================================================================
