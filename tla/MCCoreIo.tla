------------------------------ MODULE MCCoreIo ------------------------------
(***************************************************************************)
(* CoreIo on small instances: a reply of two items, a control byte and a   *)
(* string, followed by a byte of the next document.                        *)
(***************************************************************************)
EXTENDS CoreIo

MCItems == <<1, 2>>
=============================================================================
