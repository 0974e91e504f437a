--------------------------- MODULE MCTorBoxStatus ---------------------------
(* TorBoxStatus for TLC, in two corners of the instance.  In one the owner *)
(* adds by hand what scout may add too, and nothing is parked.  In the     *)
(* other TorBox parks scout's adds and promotes them, under an id of their *)
(* own, nothing is added by hand or stalls, and the listing is fetched for *)
(* this release alone.  In both, of the status read, the Cancel, the add   *)
(* and the resolve that waits for a listing two are out together, beside a *)
(* listing.                                                                *)
EXTENDS TorBoxStatus, FiniteSets
CONSTANT Second
VARIABLE corner

Busy == {i \in 1..4 : <<flight, cancel, add, resolve>>[i] # Idle}
Hands == account'.is # "queued" /\ account'.id # Second
Parked ==
  /\ listing = Idle /\ listing' # Idle => "listing" \in {flight'.at, cancel'.at, resolve'.at}
  /\ account'.id \notin HandIds /\ account'.is # "stalled"
  /\ account = Nothing => account'.id # Second

MCInit == StatusInit /\ corner \in {"hands", "parked"}
MCNext ==
  /\ StatusNext /\ UNCHANGED corner
  /\ Cardinality(Busy') <= 2
  /\ corner = "hands" => Hands
  /\ corner = "parked" => Parked
MCSpec == MCInit /\ [][MCNext]_<<statusVars, corner>>
=============================================================================
