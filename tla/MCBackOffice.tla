---------------------------- MODULE MCBackOffice ----------------------------
(* What the staff keeps running: the tickets of the help desk, the         *)
(* certificates the services show each other, the accounts customers       *)
(* open, close and have erased, and the hardware of the habitats.  They     *)
(* share no state, so a behaviour moves one of them, chosen at the start.  *)
EXTENDS TLC, Tickets, Certificates, AccountLifecycle, Facilities

VARIABLE desk

(* A call fails over PostgreSQL; what Forgejo and ntfy do does not depend  *)
(* on the store.                                                           *)
MCTicketFaults == [pgx |-> 1, mock |-> 0]

(* The kind of database matters to one part each. *)
MCInit ==
    /\ desk \in {"tickets", "certificates", "accounts", "fleet"}
    /\ TicketsInit /\ CertificatesInit /\ LifecycleInit /\ FacilitiesInit
    /\ desk # "tickets" => backend = "pgx"
    /\ desk # "certificates" => source = "file"
    /\ desk # "accounts" => store = "pgx"
    /\ desk # "fleet" => fleet = "pgx"

Moves(d) == desk = d /\ UNCHANGED desk
MCNext ==
    \/ Moves("tickets") /\ TicketsNext /\ UNCHANGED <<certificateVars, lifecycleVars, fleetVars>>
    \/ Moves("certificates") /\ CertificatesNext /\ UNCHANGED <<ticketVars, lifecycleVars, fleetVars>>
    \/ Moves("accounts") /\ LifecycleNext /\ UNCHANGED <<ticketVars, certificateVars, fleetVars>>
    \/ Moves("fleet") /\ FacilitiesNext /\ UNCHANGED <<ticketVars, certificateVars, lifecycleVars>>
MCSpec == MCInit /\ [][MCNext]_<<desk, ticketVars, certificateVars, lifecycleVars, fleetVars>>

Symmetry == Permutations(Tickets)
=============================================================================
