---------------------------- MODULE Disconnects ----------------------------
(***************************************************************************)
(* What a disconnect of the proxy promises, without handlers, connections  *)
(* and the registry of those in flight: it takes effect at one instant     *)
(* between its call and its return.  The requests it cancels are those of  *)
(* its user that are in flight at that instant, not one that has ended     *)
(* before or begins later, and it returns when all of them are cancelled.  *)
(***************************************************************************)
CONSTANTS
    Requests,  \* proxied requests
    Users,     \* proxy accounts
    Calls      \* disconnect calls

VARIABLES
    user,       \* the account a request or a call belongs to
    life,       \* of each request: "new", "inFlight" or "ended"
    gone,       \* requests whose client went away
    cancelled,  \* requests that are cancelled
    stage,      \* of each call: "idle", "called", "cancelling" or "returned"
    owed        \* the requests each call has to cancel yet

vars == <<user, life, gone, cancelled, stage, owed>>

Init ==
    /\ user \in [Requests \union Calls -> Users]
    /\ life = [r \in Requests |-> "new"]
    /\ gone = {}
    /\ cancelled = {}
    /\ stage = [c \in Calls |-> "idle"]
    /\ owed = [c \in Calls |-> {}]

Begin(r) ==
    /\ life[r] = "new"
    /\ life' = [life EXCEPT ![r] = "inFlight"]
    /\ UNCHANGED <<user, gone, cancelled, stage, owed>>

End(r) ==
    /\ life[r] = "inFlight"
    /\ life' = [life EXCEPT ![r] = "ended"]
    /\ UNCHANGED <<user, gone, cancelled, stage, owed>>

\* A client that goes away cancels its own request.
HangUp(r) ==
    /\ gone' = gone \union {r}
    /\ cancelled' = cancelled \union {r}
    /\ UNCHANGED <<user, life, stage, owed>>

Call(c) ==
    /\ stage[c] = "idle"
    /\ stage' = [stage EXCEPT ![c] = "called"]
    /\ UNCHANGED <<user, life, gone, cancelled, owed>>

\* The instant at which the disconnect takes effect.
Cut(c) ==
    /\ stage[c] = "called"
    /\ stage' = [stage EXCEPT ![c] = "cancelling"]
    /\ owed' = [owed EXCEPT ![c] =
                   {r \in Requests : user[r] = user[c] /\ life[r] = "inFlight"}]
    /\ UNCHANGED <<user, life, gone, cancelled>>

Cancel(c, r) ==
    /\ r \in owed[c]
    /\ owed' = [owed EXCEPT ![c] = @ \ {r}]
    /\ cancelled' = cancelled \union {r}
    /\ UNCHANGED <<user, life, gone, stage>>

Return(c) ==
    /\ stage[c] = "cancelling"
    /\ owed[c] = {}
    /\ stage' = [stage EXCEPT ![c] = "returned"]
    /\ UNCHANGED <<user, life, gone, cancelled, owed>>

Next ==
    \/ \E r \in Requests : Begin(r) \/ End(r) \/ HangUp(r)
    \/ \E c \in Calls : Call(c) \/ Cut(c) \/ Return(c) \/ \E r \in Requests : Cancel(c, r)

Spec == Init /\ [][Next]_vars
=============================================================================
