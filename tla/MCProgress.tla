----------------------------- MODULE MCProgress -----------------------------
(***************************************************************************)
(* Values for TLC of the constants of Progress.                             *)
(***************************************************************************)
EXTENDS Progress

(* A keyed lookup with a cancellation event, a second request with its key and without an
   event, and another tenant's lookup of the first request. *)
Lookup(tenant, key, request, scope, event) ==
    [tenant |-> tenant, key |-> key, request |-> request, scope |-> scope, event |-> event]
MCLookups == {Lookup("t1", "k", "r1", "tenant", TRUE), Lookup("t1", "k", "r2", "disabled", FALSE),
              Lookup("t2", None, "r1", "tenant", FALSE)}
=============================================================================
