------------------------------ MODULE MCBilling ------------------------------
(* Small instances of Billing for TLC. *)
EXTENDS Billing

MCAdjustments == {-1, 1}

MCPrices == {1}

==============================================================================
