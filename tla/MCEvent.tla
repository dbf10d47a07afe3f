------------------------------ MODULE MCEvent -------------------------------
(* An instance of Event for TLC: an event that resets itself and is notified *)
(* either way, and events of either kind that are notified with notify_all.  *)
EXTENDS Event

MCKinds ==
  {[auto |-> TRUE, notifies |-> {"one", "all"}],
   [auto |-> TRUE, notifies |-> {"all"}],
   [auto |-> FALSE, notifies |-> {"all"}]}

=============================================================================
