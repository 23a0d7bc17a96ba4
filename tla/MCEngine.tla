------------------------------ MODULE MCEngine ------------------------------
(* Small instances of Engine for TLC. *)
EXTENDS EngineProperties, TLC

CONSTANTS c1, c2, b1, b2

Size21 == b1 :> 2 @@ b2 :> 1
Size2 == b1 :> 2

\* One client and the handlers exercise every batch operation against close().
OpsDelivery ==
  c1 :> {"generateImages", "cancel", "cancelAll", "close", "waitFor"}
  @@ Worker :> {"imageAt", "generateImages", "cancel", "close", "wait"}

\* Two clients race for the decoder with the worker, one of them queues a batch and
\* waits for it, and either a client or a handler closes the generator.
OpsProgress ==
  c1 :> {"imageAt", "generateImages", "wait"} @@ c2 :> {"imageAt", "close"}
  @@ Worker :> {"imageAt", "close"}

\* One batch beside a single thread calling imageAt() in a loop.
OpsStarvation == c1 :> {"generateImages"} @@ c2 :> {"imageAt"} @@ Worker :> {}

\* Two threads that never stop calling imageAt() beside one batch.
OpsTurn == c1 :> {"imageAt", "generateImages"} @@ c2 :> {"imageAt"} @@ Worker :> {}

\* A handler chains a request while the client closes the generator.
OpsDrain == c1 :> {"generateImages", "close"} @@ Worker :> {"generateImages"}

\* One thread calls imageAt() while the other closes the generator.
OpsHandle == c1 :> {"imageAt"} @@ c2 :> {"close"} @@ Worker :> {}

=============================================================================
