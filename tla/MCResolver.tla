----------------------------- MODULE MCResolver -----------------------------
(***************************************************************************)
(* Appearances for model checking Resolver.                                *)
(***************************************************************************)
EXTENDS Resolver

Look(addr, stable, payload, hap, name) ==
    [addr |-> addr, stable |-> stable, company |-> 1, payload |-> payload,
     hap |-> hap, uuids |-> None, name |-> name]

\* A device that rotates: each appearance joins the next one by the signal they
\* share (payload and name, address, HAP id) and no other.
Rotating == << Look(1, FALSE, 1, None, 1), Look(2, FALSE, 1, None, 1),
               Look(2, FALSE, 2, 1, None), Look(3, FALSE, 3, 1, None) >>

\* Two identical products, each on a stable address of its own.
Twins == << Look(1, TRUE, 1, None, 1), Look(2, TRUE, 1, None, 1) >>

=============================================================================
