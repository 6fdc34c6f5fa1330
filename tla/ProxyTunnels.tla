---------------------------- MODULE ProxyTunnels ----------------------------
(***************************************************************************)
(* Proxied requests of addons/proxy-router (proxy.go, activity.go and      *)
(* handleProxyDisconnect of admin.go): CONNECT tunnels and forwarded HTTP  *)
(* requests, the registry of those in flight, and the disconnect call that *)
(* cancels all of one user's.                                              *)
(*                                                                         *)
(* Every request and every disconnect call is a goroutine of its own; a    *)
(* tunnel has two more that copy, and one that closes it when its context  *)
(* is cancelled.  A step is a critical section of proxyActivity.mu, the    *)
(* return of a blocking call, or the closing of connections.               *)
(***************************************************************************)
EXTENDS Integers, FiniteSets

CONSTANTS
    Requests,  \* proxied requests; each is served once
    Users,     \* proxy accounts
    Calls      \* disconnect calls; each is made once

VARIABLES
    user,         \* the account whose credentials a request or a call carries
    handler,      \* how far the handler of each request is
    connections,  \* proxyActivity.connections: the requests in flight of each user
    cancelled,    \* requests whose context is cancelled
    sockets,      \* the open connections made for each request
    idle,         \* requests whose upstream connection is in the idle pool of its Transport
    copying,      \* the directions a tunnel still copies
    call,         \* disconnect calls: stage, and the requests still to cancel
    gone,         \* history: requests whose client went away
    reached       \* history: for each call, what was in flight when it began

vars == <<user, handler, connections, cancelled, sockets, idle, copying, call, gone, reached>>

Directions == {"up", "down"}

\* Stages before the request is registered, of a tunnel, and of a forwarded request.
Opening == {"new", "admitted"}
Tunnel == {"dial", "hijack", "greet", "relay", "drain"}
Forward == {"roundtrip", "body", "blocked"}

Stages == Opening \union Tunnel \union Forward \union {"end", "done"}

CallType == [stage : {"idle", "called", "cancelling", "returned"}, todo : SUBSET Requests]

TypeOK ==
    /\ user \in [Requests \union Calls -> Users]
    /\ handler \in [Requests -> Stages]
    /\ connections \in [Users -> SUBSET Requests]
    /\ cancelled \subseteq Requests
    /\ sockets \in [Requests -> SUBSET {"client", "upstream"}]
    /\ idle \subseteq Requests
    /\ copying \in [Requests -> SUBSET Directions]
    /\ call \in [Calls -> CallType]
    /\ gone \subseteq Requests
    /\ reached \in [Calls -> SUBSET Requests]
    /\ \A r \in Requests : copying[r] # {} => handler[r] \in {"relay", "drain"}

Init ==
    /\ user \in [Requests \union Calls -> Users]
    /\ handler = [r \in Requests |-> "new"]
    /\ connections = [u \in Users |-> {}]
    /\ cancelled = {}
    /\ sockets = [r \in Requests |-> {}]
    /\ idle = {}
    /\ copying = [r \in Requests |-> {}]
    /\ call = [c \in Calls |-> [stage |-> "idle", todo |-> {}]]
    /\ gone = {}
    /\ reached = [c \in Calls |-> {}]

InStage(r, S) == handler[r] \in S

Becomes(r, stage) == handler' = [handler EXCEPT ![r] = stage]

CloseAll(r) == sockets' = [sockets EXCEPT ![r] = {}]

Hold(r, s) == sockets' = [sockets EXCEPT ![r] = @ \union {s}]

Close(r, s) == sockets' = [sockets EXCEPT ![r] = @ \ {s}]

outside == <<user, call, gone, reached>>  \* what a handler's own steps leave alone

-----------------------------------------------------------------------------
(* Both kinds of request *)

\* authenticateProxyUserRequest accepts the credentials.  (Otherwise the handler
\* answers 407 and returns.)
Authenticate(r) ==
    /\ InStage(r, {"new"})
    /\ Becomes(r, "admitted")
    /\ UNCHANGED <<outside, connections, cancelled, sockets, idle, copying>>

\* Variant: a user's map is replaced by one with the new request alone.
BeginReplacing(r) ==
    /\ InStage(r, {"admitted"})
    /\ connections' = [connections EXCEPT ![user[r]] = {r}]
    /\ \E stage \in {"dial", "roundtrip", "end"} : Becomes(r, stage)
    /\ UNCHANGED <<outside, cancelled, sockets, idle, copying>>

\* begin registers the request; handleConnect dials, handleForward sends the request
\* on, or ends when the URL is not absolute.
Begin(r) ==
    /\ InStage(r, {"admitted"})
    /\ connections' = [connections EXCEPT ![user[r]] = @ \union {r}]
    /\ \E stage \in {"dial", "roundtrip", "end"} : Becomes(r, stage)
    /\ UNCHANGED <<outside, cancelled, sockets, idle, copying>>

\* The handler returns: its deferred finishActivity takes the request out again.
Finish(r) ==
    /\ InStage(r, {"end"})
    /\ Becomes(r, "done")
    /\ connections' = [connections EXCEPT ![user[r]] = @ \ {r}]
    /\ UNCHANGED <<outside, cancelled, sockets, idle, copying>>

\* The client's connection ends while net/http still reads from it: the request's
\* context, the parent of proxyContext, is cancelled.  A write to it fails.
ClientGone(r) ==
    /\ InStage(r, {"admitted", "dial", "hijack"} \union Forward)
    /\ r \notin gone
    /\ gone' = gone \union {r}
    /\ cancelled' = cancelled \union {r}
    /\ Becomes(r, IF handler[r] = "blocked" THEN "body" ELSE handler[r])
    /\ UNCHANGED <<user, call, reached, connections, sockets, idle, copying>>

-----------------------------------------------------------------------------
(* handleConnect *)

DialSucceeds(r) ==
    /\ InStage(r, {"dial"})
    /\ Becomes(r, "hijack")
    /\ Hold(r, "upstream")
    /\ UNCHANGED <<outside, connections, cancelled, idle, copying>>

\* The destination is forbidden or out of reach, or the context is cancelled.
DialFails(r) ==
    /\ InStage(r, {"dial"})
    /\ Becomes(r, "end")
    /\ UNCHANGED <<outside, connections, cancelled, sockets, idle, copying>>

HijackSucceeds(r) ==
    /\ InStage(r, {"hijack"})
    /\ Becomes(r, "greet")
    /\ Hold(r, "client")
    /\ UNCHANGED <<outside, connections, cancelled, idle, copying>>

HijackFails(r) ==
    /\ InStage(r, {"hijack"})
    /\ Becomes(r, "end")
    /\ Close(r, "upstream")
    /\ UNCHANGED <<outside, connections, cancelled, idle, copying>>

\* The 200 response is flushed, the AfterFunc installed, and both copies start.
GreetSucceeds(r) ==
    /\ InStage(r, {"greet"})
    /\ Becomes(r, "relay")
    /\ copying' = [copying EXCEPT ![r] = Directions]
    /\ UNCHANGED <<outside, connections, cancelled, sockets, idle>>

\* Variant: only the client's side is closed.
GreetFailsHalf(r) ==
    /\ InStage(r, {"greet"})
    /\ Becomes(r, "end")
    /\ Close(r, "client")
    /\ UNCHANGED <<outside, connections, cancelled, idle, copying>>

\* Writing or flushing the response fails.
GreetFails(r) ==
    /\ InStage(r, {"greet"})
    /\ Becomes(r, "end")
    /\ CloseAll(r)
    /\ UNCHANGED <<outside, connections, cancelled, idle, copying>>

\* Variant: only the upstream is closed.
CloseOnCancelHalf(r) ==
    /\ InStage(r, {"relay"})
    /\ r \in cancelled
    /\ sockets[r] # {}
    /\ Close(r, "upstream")
    /\ UNCHANGED <<outside, handler, connections, cancelled, idle, copying>>

\* The AfterFunc: it fires whether the context was cancelled before or after it was
\* installed.
CloseOnCancel(r) ==
    /\ InStage(r, {"relay"})
    /\ r \in cancelled
    /\ sockets[r] # {}
    /\ CloseAll(r)
    /\ UNCHANGED <<outside, handler, connections, cancelled, idle, copying>>

\* io.Copy returns in one direction: an end of file, an error, or a closed connection.
CopyEnds(r, d) ==
    /\ InStage(r, {"relay", "drain"})
    /\ d \in copying[r]
    /\ copying' = [copying EXCEPT ![r] = @ \ {d}]
    /\ UNCHANGED <<outside, handler, connections, cancelled, sockets, idle>>

\* Variant: the other direction is left to end by itself.
FirstFinishedWaits(r) ==
    /\ InStage(r, {"relay"})
    /\ copying[r] # Directions
    /\ Becomes(r, "drain")
    /\ UNCHANGED <<outside, connections, cancelled, sockets, idle, copying>>

\* The first of the copies has finished: both connections are closed.
FirstFinished(r) ==
    /\ InStage(r, {"relay"})
    /\ copying[r] # Directions
    /\ Becomes(r, "drain")
    /\ CloseAll(r)
    /\ UNCHANGED <<outside, connections, cancelled, idle, copying>>

\* Variant: the second is not waited for.
SecondNotAwaited(r) ==
    /\ InStage(r, {"drain"})
    /\ Becomes(r, "end")
    /\ UNCHANGED <<outside, connections, cancelled, sockets, idle, copying>>

\* So has the second.
SecondFinished(r) ==
    /\ InStage(r, {"drain"})
    /\ copying[r] = {}
    /\ Becomes(r, "end")
    /\ UNCHANGED <<outside, connections, cancelled, sockets, idle, copying>>

-----------------------------------------------------------------------------
(* handleForward.  The Transport it makes keeps connections alive, so the upstream  *)
(* connection may stay open in the Transport's idle pool when the handler is done. *)

Drop(r) == CloseAll(r) /\ idle' = idle

Pool(r) == Hold(r, "upstream") /\ idle' = idle \union {r}

RoundTripSucceeds(r) ==
    /\ InStage(r, {"roundtrip"})
    /\ Becomes(r, "body")
    /\ Hold(r, "upstream")
    /\ UNCHANGED <<outside, connections, cancelled, idle, copying>>

\* A dial that the Transport had begun may go on after a cancellation: its connection
\* goes into the pool.
RoundTripFails(r) ==
    /\ InStage(r, {"roundtrip"})
    /\ Becomes(r, "end")
    /\ Drop(r) \/ Pool(r)
    /\ UNCHANGED <<outside, connections, cancelled, copying>>

\* A write of the response waits for a client that does not read; the server has no
\* write timeout, and cancelling the context does not interrupt the write.  (It does
\* end the reading of the response, and so the writing of more.)
ClientStalls(r) ==
    /\ InStage(r, {"body"})
    /\ r \notin cancelled
    /\ Becomes(r, "blocked")
    /\ UNCHANGED <<outside, connections, cancelled, sockets, idle, copying>>

ClientReads(r) ==
    /\ InStage(r, {"blocked"})
    /\ Becomes(r, "body")
    /\ UNCHANGED <<outside, connections, cancelled, sockets, idle, copying>>

\* The response is complete, or reading it fails: the deferred Body.Close.  The
\* connection of a response that was read to its end goes into the pool.
BodyEnds(r) ==
    /\ InStage(r, {"body"})
    /\ Becomes(r, "end")
    /\ Drop(r) \/ Pool(r)
    /\ UNCHANGED <<outside, connections, cancelled, copying>>

\* Variant: without IdleConnTimeout it stays as long as the upstream keeps it.
IdleKept(r) ==
    /\ r \in idle
    /\ UNCHANGED vars

\* IdleConnTimeout, or the upstream closes first.  No other request uses the pool: every
\* request has a Transport of its own.
IdleCloses(r) ==
    /\ r \in idle
    /\ idle' = idle \ {r}
    /\ Close(r, "upstream")
    /\ UNCHANGED <<outside, handler, connections, cancelled, copying>>

-----------------------------------------------------------------------------
(* handleProxyDisconnect and proxyActivity.disconnect *)

InFlight(u) == {r \in Requests : user[r] = u /\ ~InStage(r, Opening \union {"done"})}

CallBecomes(c, stage, todo) == call' = [call EXCEPT ![c] = [stage |-> stage, todo |-> todo]]

\* The credentials are accepted.
Disconnect(c) ==
    /\ call[c].stage = "idle"
    /\ CallBecomes(c, "called", {})
    /\ reached' = [reached EXCEPT ![c] = InFlight(user[c])]
    /\ UNCHANGED <<user, handler, connections, cancelled, sockets, idle, copying, gone>>

CollectAndForget(c) ==
    /\ call[c].stage = "called"
    /\ CallBecomes(c, "cancelling", connections[user[c]])
    /\ connections' = [connections EXCEPT ![user[c]] = {}]
    /\ UNCHANGED <<user, handler, cancelled, sockets, idle, copying, gone, reached>>

\* Under the lock: the cancel functions of the user's requests.
Collect(c) ==
    /\ call[c].stage = "called"
    /\ CallBecomes(c, "cancelling", connections[user[c]])
    /\ UNCHANGED <<user, handler, connections, cancelled, sockets, idle, copying, gone, reached>>

\* Without the lock: one of them is called.
CancelOne(c, r) ==
    /\ call[c].stage = "cancelling"
    /\ r \in call[c].todo
    /\ CallBecomes(c, "cancelling", call[c].todo \ {r})
    /\ cancelled' = cancelled \union {r}
    /\ UNCHANGED <<user, handler, connections, sockets, idle, copying, gone, reached>>

\* All have been called: the number of requests closed is returned.
Return(c) ==
    /\ call[c].stage = "cancelling"
    /\ call[c].todo = {}
    /\ CallBecomes(c, "returned", {})
    /\ UNCHANGED <<user, handler, connections, cancelled, sockets, idle, copying, gone, reached>>

-----------------------------------------------------------------------------

Connect(r) ==
    \/ DialSucceeds(r) \/ DialFails(r) \/ HijackSucceeds(r) \/ HijackFails(r)
    \/ GreetSucceeds(r) \/ GreetFails(r) \/ CloseOnCancel(r)
    \/ \E d \in Directions : CopyEnds(r, d)
    \/ FirstFinished(r) \/ SecondFinished(r)

ForwardHTTP(r) ==
    \/ RoundTripSucceeds(r) \/ RoundTripFails(r)
    \/ ClientStalls(r) \/ ClientReads(r) \/ BodyEnds(r) \/ IdleCloses(r)

Next ==
    \/ \E r \in Requests :
          Authenticate(r) \/ Begin(r) \/ Connect(r) \/ ForwardHTTP(r) \/ Finish(r) \/ ClientGone(r)
    \/ \E c \in Calls :
          Disconnect(c) \/ Collect(c) \/ Return(c) \/ \E r \in Requests : CancelOne(c, r)

Spec == Init /\ [][Next]_vars

(***************************************************************************)
(* Fairness.  A handler takes the steps that wait for nobody, and the      *)
(* steps that a cancelled context or a closed connection unblocks: the     *)
(* dial and the round trip are bound to the context, io.Copy to its        *)
(* connections.  A Transport closes what it has kept idle for 30 seconds.  *)
(* Nothing is assumed of clients and upstreams.                            *)
(***************************************************************************)
Own(r) ==
    Begin(r) \/ HijackSucceeds(r) \/ HijackFails(r) \/ GreetSucceeds(r) \/ GreetFails(r)
      \/ CloseOnCancel(r) \/ FirstFinished(r) \/ SecondFinished(r) \/ Finish(r)

Unblocked(r) ==
    \/ r \in cancelled /\ (DialSucceeds(r) \/ DialFails(r) \/ RoundTripSucceeds(r)
                             \/ RoundTripFails(r) \/ BodyEnds(r))
    \/ sockets[r] = {} /\ \E d \in Directions : CopyEnds(r, d)

Serving(c) == Collect(c) \/ Return(c) \/ \E r \in Requests : CancelOne(c, r)

FairSpec ==
    /\ Spec
    /\ \A r \in Requests : WF_vars(Own(r)) /\ WF_vars(Unblocked(r)) /\ WF_vars(IdleCloses(r))
    /\ \A c \in Calls : WF_vars(Serving(c))

-----------------------------------------------------------------------------
(* Properties *)

\* Whatever path a handler takes, it returns with every copy ended and every connection
\* closed, but for the upstream connection of a forwarded request that the Transport keeps.
NothingLeaks ==
    \A r \in Requests : InStage(r, {"done"}) =>
        /\ copying[r] = {}
        /\ sockets[r] = IF r \in idle THEN {"upstream"} ELSE {}

\* The registry is exact: while a request has a connection in use disconnect can find it,
\* under its own user and no other (an idle connection it cannot find); and no entry
\* outlives its handler, so nothing in flight is nothing counted.
RegistryIsExact ==
    /\ \A r \in Requests :
          /\ (sockets[r] # {} /\ r \notin idle) \/ copying[r] # {} => r \in connections[user[r]]
          /\ \A u \in Users \ {user[r]} : r \notin connections[u]
    /\ \A u \in Users : connections[u] \subseteq InFlight(u)

\* When disconnect returns, each of the user's requests that was in flight when it
\* was called is cancelled or has ended, whatever began or ended meanwhile.
DisconnectReachesAll ==
    \A c \in Calls : call[c].stage = "returned" =>
        \A r \in reached[c] : r \in cancelled \/ InStage(r, {"end", "done"})

\* A request is cancelled by its own client or by a disconnect of its own user.
OthersUndisturbed ==
    \A r \in cancelled \ gone :
        \E c \in Calls : user[c] = user[r] /\ call[c].stage \in {"cancelling", "returned"}

\* A request is in flight from its registration to the end of its handler.
Life(r) ==
    IF InStage(r, Opening) THEN "new" ELSE IF InStage(r, {"done"}) THEN "ended" ELSE "inFlight"

Atomic == INSTANCE Disconnects WITH
    life <- [r \in Requests |-> Life(r)],
    stage <- [c \in Calls |-> call[c].stage],
    owed <- [c \in Calls |-> call[c].todo]

\* The registry, which handlers enter and leave one by one while disconnect calls read
\* it and cancel what they read without the lock, lets every call take effect as if at
\* one instant, on the requests of its user in flight at that instant.
DisconnectsAreAtomic == Atomic!Spec

\* A cancelled request ends, at whatever point of the dial, the hijack or the relay the
\* cancellation comes, or waits for a client that does not read a forwarded response.
CancelledEnds ==
    \A r \in Requests :
        (r \in cancelled /\ ~InStage(r, Opening)) ~> InStage(r, {"done", "blocked"})

\* One direction of a tunnel ending is the end of the tunnel: no handler and no
\* copying goroutine stays behind.
HalfEndedEnds ==
    \A r \in Requests :
        (InStage(r, {"relay"}) /\ copying[r] # Directions) ~> InStage(r, {"done"})

\* Everything opened for a request is closed in the end, the connection that outlives its
\* handler included.
ConnectionsClose == \A r \in Requests : InStage(r, {"done"}) ~> sockets[r] = {}
=============================================================================
