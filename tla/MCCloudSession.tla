---------------------------- MODULE MCCloudSession ----------------------------
(***************************************************************************)
(* Two accounts, some sign-ins and two sign-outs that may be out together. *)
(***************************************************************************)
EXTENDS CloudSession, TLC
=============================================================================
