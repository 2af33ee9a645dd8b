------------------------- MODULE DetectorRefinement -------------------------
(***************************************************************************)
(* Failover implements FailureDetector: the coordinator's unlocked threads *)
(* with their clock do only what the untimed detector may do.              *)
(***************************************************************************)
EXTENDS FailoverInv

\* The servers a heartbeat of which is on the wire or about to be stored.
UnderWay ==
    {x \in Servers : \E s \in Streams :
        Sender(s) = x /\ (wire[s] # <<>> \/ pc[s] = "assign")}

Detector == INSTANCE FailureDetector WITH
    routable <- {x \in Servers : Active(x)},
    settled  <- {x \in Servers : Settled(x, MaxDelay)},
    pending  <- UnderWay,
    heard    <- {s \in Streams : hb_timestamp[s] # Epoch},
    ended    <- {s \in Streams : pc[s] = "ended"}

(***************************************************************************)
(* Every step of the timed, threaded system is a step of the detector or   *)
(* none: above all, a settled server leaves the routing only by the end of *)
(* a stream, and only a heartbeat of its own brings a server back.         *)
(***************************************************************************)
ImplementsDetector == Detector!Spec

=============================================================================
