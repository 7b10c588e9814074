----------------------------- MODULE LookupLimit -----------------------------
(***************************************************************************)
(* JobService::enforce_identifier_lookup_limit: a counter per user in      *)
(* Redis, incremented by every lookup and given an expiry by the lookup    *)
(* that created it.  The two commands are two round trips.                 *)
(***************************************************************************)
EXTENDS Integers, FiniteSets

CONSTANTS
    Lookups,     \* lookups of one user, numbered in the order they begin
    LookupLimit, \* IDENTIFIER_LOOKUP_LIMIT
    LookupFaults \* may a command err, or its answer be lost, or the request be cancelled?

ASSUME LookupAssumption ==
    /\ LookupLimit \in Nat \ {0} /\ LookupFaults \in BOOLEAN
    /\ IsFiniteSet(Lookups)

VARIABLES
    counter,   \* chat:identifier_lookup:{user}; 0 when the key does not exist
    expiring,  \* the key has an expiry
    admitted,  \* lookups admitted since the key was created
    abandoned, \* some lookup ended between INCR and EXPIRE
    lookup     \* lookup[l]: "idle", "incr", "expire", "admitted" or "refused"

limitVars == <<counter, expiring, admitted, abandoned, lookup>>

LimitTypeOK ==
    /\ counter \in 0..Cardinality(Lookups)
    /\ expiring \in BOOLEAN /\ abandoned \in BOOLEAN
    /\ admitted \in 0..Cardinality(Lookups)
    /\ lookup \in [Lookups -> {"idle", "incr", "expire", "admitted", "refused"}]

LimitInit ==
    /\ counter = 0 /\ expiring = FALSE /\ admitted = 0 /\ abandoned = FALSE
    /\ lookup = [l \in Lookups |-> "idle"]

BeginLookup(l) ==
    /\ lookup[l] = "idle"
    /\ \A k \in Lookups : k < l => lookup[k] # "idle"
    /\ lookup' = [lookup EXCEPT ![l] = "incr"]
    /\ UNCHANGED <<counter, expiring, admitted, abandoned>>

\* Deviation: the limit itself is refused, one too late.
AdmitAtLimit(l, n) ==
    /\ lookup'   = [lookup EXCEPT ![l] = IF n > LookupLimit + 1 THEN "refused" ELSE "admitted"]
    /\ admitted' = IF n > LookupLimit + 1 THEN admitted ELSE admitted + 1

\* The decision: attempts beyond the limit are refused.
Admit(l, n) ==
    /\ lookup'   = [lookup EXCEPT ![l] = IF n > LookupLimit THEN "refused" ELSE "admitted"]
    /\ admitted' = IF n > LookupLimit THEN admitted ELSE admitted + 1

\* INCR; only the one that returns 1 sets the expiry.
Increment(l) ==
    /\ lookup[l] = "incr"
    /\ counter' = counter + 1
    /\ IF counter = 0
       THEN lookup' = [lookup EXCEPT ![l] = "expire"] /\ UNCHANGED admitted
       ELSE Admit(l, counter + 1)
    /\ UNCHANGED <<expiring, abandoned>>

\* EXPIRE.  The key may have been removed in between only by its own expiry,
\* which it does not have yet.
SetExpiry(l) ==
    /\ lookup[l] = "expire"
    /\ expiring' = (counter # 0)
    /\ Admit(l, 1)
    /\ UNCHANGED <<counter, abandoned>>

\* Redis errs (identifier_lookup_rate_limit_unavailable) or the client goes
\* away and the handler is dropped; the command may have been applied.
LookupFails(l, applied) ==
    /\ LookupFaults
    /\ lookup[l] \in {"incr", "expire"}
    /\ LET opened == IF lookup[l] = "incr" THEN applied /\ counter = 0 ELSE ~applied
       IN  abandoned' = (abandoned \/ opened)
    /\ counter'  = IF lookup[l] = "incr" /\ applied THEN counter + 1 ELSE counter
    /\ expiring' = (expiring \/ (lookup[l] = "expire" /\ applied /\ counter # 0))
    /\ lookup' = [lookup EXCEPT ![l] = "refused"]
    /\ UNCHANGED admitted

WindowEnds ==
    /\ expiring
    /\ counter' = 0 /\ expiring' = FALSE /\ admitted' = 0
    /\ UNCHANGED <<abandoned, lookup>>

LimitNext ==
    \/ \E l \in Lookups : \/ BeginLookup(l) \/ Increment(l) \/ SetExpiry(l)
                          \/ \E applied \in BOOLEAN : LookupFails(l, applied)
    \/ WindowEnds

LimitSpec == LimitInit /\ [][LimitNext]_limitVars

-----------------------------------------------------------------------------
(* Properties *)

\* Between two expiries no more lookups are admitted than the limit says,
\* whoever sets the expiry and however late; and a window has no end only
\* while the lookup that opened it is about to set it, or was cut off between
\* its two commands.
WithinLookupLimit ==
    /\ admitted <= LookupLimit
    /\ counter # 0 /\ ~expiring /\ ~abandoned => \E l \in Lookups : lookup[l] = "expire"
=============================================================================
