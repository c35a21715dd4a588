------------------------ MODULE MCWebhookDispatcher ------------------------
(* Small instances of WebhookDispatcher for TLC.                           *)
EXTENDS WebhookDispatcher

=============================================================================
