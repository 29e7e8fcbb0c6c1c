------------------------- MODULE SanitizerContract -------------------------
(***************************************************************************)
(* What a session promises about plaintext, with no word on how: text that *)
(* was taken in is held until it is settled (handed back sanitized) or     *)
(* dropped; nothing is lost or settled twice; once the session is over it  *)
(* holds nothing and hands nothing back any more.                          *)
(***************************************************************************)
EXTENDS Integers

VARIABLES phase, taken, held, settled

contract == <<phase, taken, held, settled>>

ContractInit == phase = "Accepting" /\ taken = 0 /\ held = 0 /\ settled = 0

Take ==
    /\ phase = "Accepting"
    /\ taken' > taken
    /\ held' - held = taken' - taken
    /\ UNCHANGED <<phase, settled>>

Settle ==
    /\ phase = "Accepting"
    /\ settled' > settled
    /\ settled' - settled = held - held' /\ held' >= 0
    /\ UNCHANGED <<phase, taken>>

\* The session ends well only with all it took settled.
Conclude ==
    /\ phase = "Accepting" /\ phase' = "Finalized"
    /\ settled' = taken /\ held' = 0
    /\ UNCHANGED taken

Drop ==
    /\ phase = "Accepting" /\ phase' \in {"Aborted", "Failed"}
    /\ held' = 0
    /\ UNCHANGED <<taken, settled>>

ContractNext == Take \/ Settle \/ Conclude \/ Drop

ContractSpec == ContractInit /\ [][ContractNext]_contract
=============================================================================
