------------------------- MODULE MCWebhookIngestion -------------------------
(***************************************************************************)
(* WebhookIngestion with a batch of two events, as HubSpot sends them, and *)
(* a batch of one, as Stripe and Google do.                                *)
(***************************************************************************)
EXTENDS WebhookIngestion, TLC

CONSTANTS e1, e2

MCEvents == {e1, e2}
MCEffect == e1 :> "persisted" @@ e2 :> "reported"
MCBatches == {{e1, e2}, {e2}}

=============================================================================
