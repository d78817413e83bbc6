-------------------------- MODULE MCPreviousPolicy --------------------------
(* SealedKeys with a history variable for the policies that the running    *)
(* update has taken out of its key data files.                             *)
EXTENDS MCSealedKeys

VARIABLE replaced

Replaced == {files[p] : p \in {q \in keys : files'[q] # files[q]}}

PreviousInit == Init /\ replaced = {}

PreviousNext ==
  /\ Next
  /\ replaced' = IF pc' = "idle" THEN {}
                 ELSE IF pc = "updateKeys" THEN replaced \cup Replaced
                 ELSE replaced

PreviousSpec == PreviousInit /\ [][PreviousNext]_<<vars, replaced>>

(***************************************************************************)
(* UpdateKeyPCRProtectionPolicy's documentation: "the previous PCR policy  *)
(* will be revoked".  When an update of a key that was sealed completely   *)
(* succeeds, the policies it has replaced in the files are of no use any   *)
(* more.                                                                   *)
(***************************************************************************)
PreviousPolicyRevoked ==
  [][pc = "updateIncrement" /\ last' = "ok" /\ (\E c \in confirmed : Related(c, pol)) =>
       \A q \in replaced \ {pol} : ~ Usable(q)']_<<vars, replaced>>
=============================================================================
