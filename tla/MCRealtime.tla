----------------------------- MODULE MCRealtime -----------------------------
EXTENDS Realtime

\* For one with a pallet truck, which carries ANY only: a pickup is accepted (told to
\* all), a delivery changes its equipment and a pickup for a forklift makes a pair with
\* a delivery (neither is told), or the desk is asked for a pallet.
SomeRequests ==
  {acceptOpenPickupTask("ANY", "ANY"), updateDeliveryTask("ANY", "FORKLIFT", FALSE),
   requestPickupOnly("FORKLIFT", "CREATED", "ANY"), requestSupplyOnly("ANY", NONE)}
=============================================================================
