--------------------------- MODULE MCBookingDesk ---------------------------
(* BookingDesk on small sets of calls, services and references.            *)
EXTENDS BookingDesk, TLC

Symmetry == Permutations(Calls) \cup Permutations(PlatformRefs)

=============================================================================
