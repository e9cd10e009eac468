------------------------------- MODULE Lease -------------------------------
(***************************************************************************)
(* What a table of short-lived credentials promises: a credential is       *)
(* issued for a purpose, opens uses for that purpose from the moment it is *)
(* issued until TTL ticks later, and a use that was opened may last longer *)
(* than the credential.  How the table finds, keeps and drops its entries  *)
(* does not show.                                                          *)
(***************************************************************************)
EXTENDS Naturals

CONSTANTS Creds, Purposes, TTL, Never

VARIABLES
    age,        \* credential -> ticks since it was issued, up to TTL
    purpose,    \* credential -> what it was issued for
    using       \* what is being done: a credential and a purpose

leaseVars == <<age, purpose, using>>

LeaseInit ==
    /\ age = [c \in Creds |-> Never]
    /\ purpose \in [Creds -> Purposes]
    /\ using = {}

Issue(c, p) ==
    /\ age[c] = Never
    /\ age' = [age EXCEPT ![c] = 0]
    /\ purpose' = [purpose EXCEPT ![c] = p]
    /\ UNCHANGED using

Use(c) ==
    /\ age[c] # Never
    /\ age[c] < TTL
    /\ using' = using \cup {<<c, purpose[c]>>}
    /\ UNCHANGED <<age, purpose>>

Release(u) ==
    /\ using' = using \ {u}
    /\ UNCHANGED <<age, purpose>>

Aged(n) == IF n = Never \/ n = TTL THEN n ELSE n + 1

LeaseTick ==
    /\ age' = [c \in Creds |-> Aged(age[c])]
    /\ UNCHANGED <<purpose, using>>

LeaseNext ==
    \/ \E c \in Creds, p \in Purposes : Issue(c, p)
    \/ \E c \in Creds : Use(c)
    \/ \E u \in using : Release(u)
    \/ LeaseTick

LeaseSpec == LeaseInit /\ [][LeaseNext]_leaseVars
=============================================================================
