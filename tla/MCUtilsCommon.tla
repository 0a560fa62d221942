--------------------------- MODULE MCUtilsCommon ---------------------------
(***************************************************************************)
(* UtilsCommon on three call sites: two that initialise and clean up the   *)
(* process-wide ICU state in different ways, and one whose utility lets    *)
(* foreign exceptions through.                                             *)
(***************************************************************************)
EXTENDS UtilsCommon, TLC

CONSTANTS c1, c2, c3

MCCalls == {c1, c2, c3}
MCFunction == c1 :> "format_number" @@ c2 :> "public_link" @@ c3 :> "currency_spellout"
=============================================================================
