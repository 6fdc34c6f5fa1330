------------------------- MODULE ProxyTunnelsProofs -------------------------
(***************************************************************************)
(* The safety properties of ProxyTunnels for any number of requests, users *)
(* and disconnect calls.  The inductive invariant says in which stages a   *)
(* handler holds connections, that the registry holds exactly the requests *)
(* in flight, and how far each disconnect call has come with the requests  *)
(* it has to reach.                                                        *)
(***************************************************************************)
EXTENDS ProxyTunnels, TLAPS

Held == {"hijack", "greet", "relay", "body", "blocked"}

\* A handler holds connections only in the stages that lead to a step closing them, or
\* leaving the upstream connection to the pool; what is in the pool is that connection.
HoldsInStages ==
    \A r \in Requests :
        /\ sockets[r] # {} => handler[r] \in Held \/ r \in idle
        /\ handler[r] \in {"hijack", "body", "blocked"} => "client" \notin sockets[r]
        /\ r \in idle => handler[r] \in {"end", "done"} /\ sockets[r] = {"upstream"}

\* The registry holds the requests between Begin and Finish, each for its own user.
Registered == \A u \in Users : connections[u] = InFlight(u)

Ended(r) == InStage(r, {"end", "done"})

\* What a call still has to cancel belongs to its user.
TodoIsOwn ==
    \A c \in Calls : \A r \in call[c].todo :
        call[c].stage = "cancelling" /\ user[r] = user[c]

\* Each request a call has to reach is in flight until the call has collected it, and
\* then on its list until it is cancelled.
CallsProgress ==
    \A c \in Calls : \A r \in reached[c] :
        /\ user[r] = user[c]
        /\ ~InStage(r, Opening)
        /\ call[c].stage = "cancelling" => r \in call[c].todo \/ r \in cancelled \/ Ended(r)
        /\ call[c].stage = "returned" => r \in cancelled \/ Ended(r)

IInv ==
    /\ TypeOK
    /\ HoldsInStages
    /\ Registered
    /\ TodoIsOwn
    /\ CallsProgress
    /\ OthersUndisturbed

USE DEF TypeOK, HoldsInStages, Registered, TodoIsOwn, CallsProgress, OthersUndisturbed,
        InFlight, InStage, Opening, Stages, CallType, Tunnel, Forward, Held, Ended,
        Directions, outside, Becomes, CloseAll, Hold, Close, Drop, Pool, CallBecomes

-----------------------------------------------------------------------------
(* The invariant is inductive *)

\* It holds when nothing has been served yet.
LEMMA InitEstablishes == Init => IInv
  BY DEF Init, IInv

\* A handler's registration changes the registry; the rest of the invariant follows
\* from the stages before and after.
LEMMA RegistrationPreserves ==
    ASSUME IInv, NEW r \in Requests, Authenticate(r) \/ Begin(r) \/ Finish(r)
    PROVE  IInv'
  <1>1. CASE Authenticate(r)
    BY <1>1 DEF IInv, Authenticate
  <1>2. CASE Begin(r)
    BY <1>2 DEF IInv, Begin
  <1>3. CASE Finish(r)
    BY <1>3 DEF IInv, Finish
  <1> QED
    BY <1>1, <1>2, <1>3

\* The steps of a tunnel leave the registry alone: they open and close connections and
\* move between the stages of a request in flight.
LEMMA ConnectPreserves ==
    ASSUME IInv, NEW r \in Requests, Connect(r)
    PROVE  IInv'
  <1>1. CASE DialSucceeds(r)
    BY <1>1 DEF IInv, DialSucceeds
  <1>10. CASE DialFails(r)
    BY <1>10 DEF IInv, DialFails
  <1>2. CASE HijackSucceeds(r)
    BY <1>2 DEF IInv, HijackSucceeds
  <1>3. CASE HijackFails(r)
    BY <1>3 DEF IInv, HijackFails
  <1>4. CASE GreetSucceeds(r)
    BY <1>4 DEF IInv, GreetSucceeds
  <1>5. CASE GreetFails(r)
    BY <1>5 DEF IInv, GreetFails
  <1>6. CASE CloseOnCancel(r)
    BY <1>6 DEF IInv, CloseOnCancel
  <1>7. ASSUME NEW d \in Directions, CopyEnds(r, d)
        PROVE  IInv'
    BY <1>7 DEF IInv, CopyEnds
  <1>8. CASE FirstFinished(r)
    BY <1>8 DEF IInv, FirstFinished
  <1>9. CASE SecondFinished(r)
    BY <1>9 DEF IInv, SecondFinished
  <1> QED
    BY <1>1, <1>2, <1>3, <1>4, <1>5, <1>6, <1>7, <1>8, <1>9, <1>10 DEF Connect

\* So do the steps of a forwarded request.
LEMMA ForwardPreserves ==
    ASSUME IInv, NEW r \in Requests, ForwardHTTP(r)
    PROVE  IInv'
  <1>1. CASE RoundTripSucceeds(r)
    BY <1>1 DEF IInv, RoundTripSucceeds
  <1>2. CASE RoundTripFails(r)
    BY <1>2 DEF IInv, RoundTripFails
  <1>3. CASE ClientStalls(r)
    BY <1>3 DEF IInv, ClientStalls
  <1>4. CASE ClientReads(r)
    BY <1>4 DEF IInv, ClientReads
  <1>5. CASE BodyEnds(r)
    BY <1>5 DEF IInv, BodyEnds
  <1>6. CASE IdleCloses(r)
    BY <1>6 DEF IInv, IdleCloses
  <1> QED
    BY <1>1, <1>2, <1>3, <1>4, <1>5, <1>6 DEF ForwardHTTP

\* A client that leaves cancels its own request, which the history records.
LEMMA ClientGonePreserves ==
    ASSUME IInv, NEW r \in Requests, ClientGone(r)
    PROVE  IInv'
  BY DEF IInv, ClientGone

\* A disconnect call collects what the registry holds for its user, which by
\* Registered includes what it has to reach, and cancels it one by one.
LEMMA CallPreserves ==
    ASSUME IInv, NEW c \in Calls,
           Disconnect(c) \/ Collect(c) \/ Return(c) \/ \E r \in Requests : CancelOne(c, r)
    PROVE  IInv'
  <1>1. CASE Disconnect(c)
    BY <1>1 DEF IInv, Disconnect
  <1>2. CASE Collect(c)
    BY <1>2 DEF IInv, Collect
  <1>3. CASE Return(c)
    BY <1>3 DEF IInv, Return
  <1>4. ASSUME NEW r \in Requests, CancelOne(c, r)
        PROVE  IInv'
    BY <1>4 DEF IInv, CancelOne
  <1> QED
    BY <1>1, <1>2, <1>3, <1>4

\* The inductive invariant holds in every reachable state.
THEOREM Inductive == Spec => []IInv
  <1>1. Init => IInv
    BY InitEstablishes
  <1>2. IInv /\ [Next]_vars => IInv'
    <2> SUFFICES ASSUME IInv, [Next]_vars
                 PROVE  IInv'
      OBVIOUS
    <2>1. CASE UNCHANGED vars
      BY <2>1 DEF IInv, vars
    <2>2. CASE Next
      BY <2>2, RegistrationPreserves, ConnectPreserves, ForwardPreserves, ClientGonePreserves,
         CallPreserves DEF Next
    <2> QED
      BY <2>1, <2>2
  <1> QED
    BY <1>1, <1>2, PTL DEF Spec

-----------------------------------------------------------------------------
(* What follows from it *)

\* Every variable keeps its type, and a tunnel copies only while it relays.
THEOREM TypeCorrect == Spec => []TypeOK
  <1>1. IInv => TypeOK
    BY DEF IInv
  <1> QED
    BY <1>1, Inductive, PTL

\* A handler that has returned has ended its copies and closed its connections; only the
\* upstream connection of a forwarded request may be open yet, and then it is in the pool.
THEOREM HandlersCleanUp == Spec => []NothingLeaks
  <1>1. IInv => NothingLeaks
    BY DEF IInv, NothingLeaks
  <1> QED
    BY <1>1, Inductive, PTL

\* A connection in use belongs to a registered request, so disconnect can find it, and the
\* counts of the admin interface never include a request that has ended.
THEOREM RegistryExact == Spec => []RegistryIsExact
  <1>1. IInv => RegistryIsExact
    BY DEF IInv, RegistryIsExact
  <1> QED
    BY <1>1, Inductive, PTL

\* A disconnect that has returned has missed none of the requests in flight when it
\* was called.
THEOREM DisconnectIsComplete == Spec => []DisconnectReachesAll
  <1>1. IInv => DisconnectReachesAll
    BY DEF IInv, DisconnectReachesAll
  <1> QED
    BY <1>1, Inductive, PTL

\* A disconnect cancels nothing of another user.
THEOREM DisconnectIsConfined == Spec => []OthersUndisturbed
  <1>1. IInv => OthersUndisturbed
    BY DEF IInv
  <1> QED
    BY <1>1, Inductive, PTL

-----------------------------------------------------------------------------
(* Disconnects are atomic: the calls implement the specification Disconnects *)

Lives == [r \in Requests |-> Life(r)]
CallStages == [c \in Calls |-> call[c].stage]
Owed == [c \in Calls |-> call[c].todo]

\* A handler that stays on its side of registration and end changes no life.
LEMMA SameLife ==
    ASSUME TypeOK, NEW r \in Requests, NEW s \in Stages, Becomes(r, s),
           ~InStage(r, {"new", "admitted", "done"}), s \notin {"new", "admitted", "done"}
    PROVE  Lives' = Lives
  BY DEF Lives, Life

\* The steps of a request register it, end it, cancel it for its client, or are not
\* seen at all.
LEMMA RequestStep ==
    ASSUME IInv, NEW r \in Requests,
           Authenticate(r) \/ Begin(r) \/ Finish(r) \/ ClientGone(r)
    PROVE  [Atomic!Next]_(Atomic!vars)
  <1> USE DEF Lives, Life, CallStages, Owed, Atomic!vars
  <1>1. CASE Authenticate(r)
    <2>1. Lives' = Lives
      BY <1>1 DEF IInv, Authenticate
    <2> QED
      BY <1>1, <2>1 DEF Authenticate
  <1>2. CASE Begin(r)
    <2>1. Lives' = [Lives EXCEPT ![r] = "inFlight"] /\ Lives[r] = "new"
      BY <1>2 DEF IInv, Begin
    <2> QED
      BY <1>2, <2>1 DEF Begin, Atomic!Begin, Atomic!Next
  <1>3. CASE Finish(r)
    <2>1. Lives' = [Lives EXCEPT ![r] = "ended"] /\ Lives[r] = "inFlight"
      BY <1>3 DEF IInv, Finish
    <2> QED
      BY <1>3, <2>1 DEF Finish, Atomic!End, Atomic!Next
  <1>4. CASE ClientGone(r)
    <2>1. Lives' = Lives
      BY <1>4 DEF IInv, ClientGone
    <2> QED
      BY <1>4, <2>1 DEF ClientGone, Atomic!HangUp, Atomic!Next
  <1> QED
    BY <1>1, <1>2, <1>3, <1>4

\* Between registration and end a handler's steps are not seen.
LEMMA HiddenStep ==
    ASSUME IInv, NEW r \in Requests, Connect(r) \/ ForwardHTTP(r)
    PROVE  UNCHANGED Atomic!vars
  <1>1. Lives' = Lives
    <2>1. CASE \E d \in Directions : CopyEnds(r, d)
      BY <2>1 DEF Lives, Life, CopyEnds
    <2>2. CASE CloseOnCancel(r)
      BY <2>2 DEF Lives, Life, CloseOnCancel
    <2>3. CASE \/ DialSucceeds(r) \/ DialFails(r) \/ HijackSucceeds(r) \/ HijackFails(r)
               \/ GreetSucceeds(r) \/ GreetFails(r) \/ FirstFinished(r) \/ SecondFinished(r)
      BY <2>3, SameLife DEF IInv, DialSucceeds, DialFails, HijackSucceeds, HijackFails,
         GreetSucceeds, GreetFails, FirstFinished, SecondFinished
    <2>4. CASE \/ RoundTripSucceeds(r) \/ RoundTripFails(r) \/ ClientStalls(r)
               \/ ClientReads(r) \/ BodyEnds(r)
      BY <2>4, SameLife DEF IInv, RoundTripSucceeds, RoundTripFails, ClientStalls, ClientReads,
         BodyEnds
    <2>5. CASE IdleCloses(r)
      BY <2>5 DEF Lives, Life, IdleCloses
    <2> QED
      BY <2>1, <2>2, <2>3, <2>4, <2>5 DEF Connect, ForwardHTTP
  <1>2. UNCHANGED <<user, gone, cancelled, call>>
    BY DEF Connect, DialSucceeds, DialFails, HijackSucceeds, HijackFails, GreetSucceeds, GreetFails,
       CloseOnCancel, CopyEnds, FirstFinished, SecondFinished, ForwardHTTP, RoundTripSucceeds,
       RoundTripFails, ClientStalls, ClientReads, BodyEnds, IdleCloses
  <1> QED
    BY <1>1, <1>2 DEF Lives, Atomic!vars

\* What a call collects from the registry is what is in flight of its user.
LEMMA CallStep ==
    ASSUME IInv, NEW c \in Calls,
           Disconnect(c) \/ Collect(c) \/ Return(c) \/ \E r \in Requests : CancelOne(c, r)
    PROVE  [Atomic!Next]_(Atomic!vars)
  <1>1. Lives' = Lives /\ UNCHANGED <<user, gone>>
    BY DEF Lives, Life, Disconnect, Collect, Return, CancelOne
  <1>2. CASE Disconnect(c)
    <2>1. CallStages' = [CallStages EXCEPT ![c] = "called"] /\ CallStages[c] = "idle"
      BY <1>2 DEF IInv, CallStages, Disconnect
    <2>2. Owed' = Owed
      <3>1. \A r \in call[c].todo : FALSE
        BY <1>2 DEF IInv, Disconnect
      <3>2. call' = [call EXCEPT ![c] = [stage |-> "called", todo |-> {}]] /\ call[c].todo = {}
        BY <1>2, <3>1 DEF Disconnect
      <3>3. DOMAIN call = Calls
        BY DEF IInv
      <3>4. \A d \in Calls : call'[d].todo = call[d].todo
        BY <3>2, <3>3
      <3> QED
        BY <3>4 DEF Owed
    <2>3. Atomic!Call(c)
      BY <1>1, <1>2, <2>1, <2>2 DEF Atomic!Call, Disconnect, Lives, CallStages, Owed
    <2> QED
      BY <2>3 DEF Atomic!Next
  <1>3. CASE Collect(c)
    <2>1. CallStages' = [CallStages EXCEPT ![c] = "cancelling"] /\ CallStages[c] = "called"
      BY <1>3 DEF IInv, CallStages, Collect
    <2>2. connections[user[c]] = {r \in Requests : user[r] = user[c] /\ Lives[r] = "inFlight"}
      BY DEF IInv, Lives, Life
    <2>3. Owed' = [Owed EXCEPT ![c] = connections[user[c]]]
      BY <1>3 DEF IInv, Owed, Collect
    <2>4. Atomic!Cut(c)
      BY <1>1, <1>3, <2>1, <2>2, <2>3 DEF Atomic!Cut, Collect, Lives, CallStages, Owed
    <2> QED
      BY <2>4 DEF Atomic!Next
  <1>4. CASE Return(c)
    <2>1. CallStages' = [CallStages EXCEPT ![c] = "returned"] /\ CallStages[c] = "cancelling"
      BY <1>4 DEF IInv, CallStages, Return
    <2>2. Owed' = Owed /\ Owed[c] = {}
      <3>1. call' = [call EXCEPT ![c] = [stage |-> "returned", todo |-> {}]] /\ call[c].todo = {}
        BY <1>4 DEF Return
      <3>3. DOMAIN call = Calls
        BY DEF IInv
      <3>4. \A d \in Calls : call'[d].todo = call[d].todo
        BY <3>1, <3>3
      <3> QED
        BY <3>1, <3>4 DEF Owed
    <2>3. Atomic!Return(c)
      BY <1>1, <1>4, <2>1, <2>2 DEF Atomic!Return, Return, Lives, CallStages, Owed
    <2> QED
      BY <2>3 DEF Atomic!Next
  <1>5. ASSUME NEW r \in Requests, CancelOne(c, r)
        PROVE  [Atomic!Next]_(Atomic!vars)
    <2>0. /\ call' = [call EXCEPT ![c] = [stage |-> "cancelling", todo |-> call[c].todo \ {r}]]
          /\ call[c].stage = "cancelling" /\ r \in call[c].todo /\ DOMAIN call = Calls
      BY <1>5 DEF IInv, CancelOne
    <2>1. CallStages' = CallStages
      BY <2>0 DEF CallStages
    <2>2. Owed' = [Owed EXCEPT ![c] = @ \ {r}] /\ r \in Owed[c]
      <3>1. \A d \in Calls : call'[d].todo = IF d = c THEN call[c].todo \ {r} ELSE call[d].todo
        BY <2>0
      <3> QED
        BY <2>0, <3>1 DEF Owed
    <2>3. Atomic!Cancel(c, r)
      BY <1>1, <1>5, <2>1, <2>2 DEF Atomic!Cancel, CancelOne, Lives, CallStages, Owed
    <2> QED
      BY <2>3 DEF Atomic!Next
  <1> QED
    BY <1>2, <1>3, <1>4, <1>5

\* A disconnect call takes effect as if at one instant between its call and its return.
THEOREM DisconnectRefinement == Spec => DisconnectsAreAtomic
  <1>1. Init => Atomic!Init
    BY DEF Init, Atomic!Init, Life
  <1>2. IInv /\ [Next]_vars => [Atomic!Next]_(Atomic!vars)
    <2> SUFFICES ASSUME IInv, [Next]_vars
                 PROVE  [Atomic!Next]_(Atomic!vars)
      OBVIOUS
    <2>1. CASE UNCHANGED vars
      BY <2>1 DEF vars, Atomic!vars, Life
    <2>2. CASE Next
      BY <2>2, RequestStep, HiddenStep, CallStep DEF Next
    <2> QED
      BY <2>1, <2>2
  <1> QED
    BY <1>1, <1>2, Inductive, PTL DEF Spec, DisconnectsAreAtomic, Atomic!Spec
=============================================================================
