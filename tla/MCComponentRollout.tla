------------------------- MODULE MCComponentRollout -------------------------
(* Instances of ComponentRollout for TLC.                                   *)
EXTENDS ComponentRollout

CONSTANT api

Single == [parts |-> {api}, native |-> {}, archived |-> FALSE,
           deps |-> [c \in Components |-> {}]]
SingleConfigs == {Single}
=============================================================================
