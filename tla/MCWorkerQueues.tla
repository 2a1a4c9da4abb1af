---------------------------- MODULE MCWorkerQueues ----------------------------
EXTENDS WorkerQueues

\* Every endpoint is subscribed to every event.
MCWants == Endpoint \X WebhookEvent
=============================================================================
