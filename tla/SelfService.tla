---------------------------- MODULE SelfService ----------------------------
(***************************************************************************)
(* Single sign-on and revocation of addons/homerouter-vpn (oidc.go,        *)
(* owners.go): users sign in at an OIDC provider, manage their own peers   *)
(* through a session, and a reconciler that runs beside the HTTP handlers  *)
(* revokes the peers of users the provider no longer vouches for.          *)
(*                                                                         *)
(* Handlers and reconciler share three locks: Authenticator.mu (sessions), *)
(* OwnerStore.mu (owner records) and Service.mu (peers).  None is held     *)
(* across another, or across a request to the provider: every step below   *)
(* is one critical section or one such request.  The peer service appears  *)
(* with the outcomes PeerService establishes for its calls, and a user's   *)
(* peers as their number.                                                  *)
(***************************************************************************)
EXTENDS Integers, FiniteSets

CONSTANTS
    Users,         \* OIDC subjects
    Sids,          \* session identifiers; each names one sign-in from its callback on
    None,          \* no user
    MaxPeers,      \* VPN_MAX_PEERS_PER_USER
    Rotates,       \* the provider may replace a refresh token when it is used
    RefusesClient, \* the provider may refuse the service itself (a client secret that expired)
    PeersExpire,   \* VPN_PEER_TTL is set
    MaxTokens,     \* bound on the refresh tokens of one user
    MaxFaults,     \* bound on failed saves, removals and requests to the provider
    MaxRestarts    \* bound on restarts

ASSUME NoneAssumption == None \notin Users
ASSUME ConfigAssumption ==
    /\ MaxPeers \in Nat /\ MaxPeers >= 1
    /\ Rotates \in BOOLEAN /\ RefusesClient \in BOOLEAN /\ PeersExpire \in BOOLEAN
ASSUME BoundAssumption == MaxTokens \in Nat /\ MaxFaults \in Nat /\ MaxRestarts \in Nat

VARIABLES
    (* the identity provider *)
    status,   \* "member" of the group, "outsider" or "disabled" account
    issued,   \* number of refresh tokens issued to each user
    valid,    \* the refresh tokens it accepts
    (* the service *)
    owners,   \* OwnerStore.m: NoRecord, or the refresh token of the record
    stored,   \* owners.json
    peers,    \* number of peers each user owns
    session,  \* each sign-in: stage, user and, until it is recorded, its token
    request,  \* for each session, the user a request in flight was admitted as
    rec,      \* the reconciler: stage, users left to check, snapshot, user, answer
    (* for the model only *)
    faults,   \* failures so far
    restarts, \* restarts so far
    left,     \* history: users who have been anything but members
    raced,    \* history: users whose revocation was overtaken (see RevokeSignOut)
    unsaved,  \* history: users whose replaced token is in memory only
    lost      \* history: users whose token was lost, or refused for the service's sake

provider == <<status, issued, valid>>
excuses == <<unsaved, lost>>
vars == <<provider, owners, stored, peers, session, request, rec, faults, restarts,
          left, raced, excuses>>

NoRecord == -1
NoToken == 0   \* a record, or an answer, without a refresh token
Tokens == 0..MaxTokens

Statuses == {"member", "outsider", "disabled"}

NoSession == [stage |-> "none", user |-> None, token |-> NoToken]

SessionType ==
    [stage : {"none", "exchanged", "recorded", "open"}, user : Users \union {None}, token : Tokens]

Idle == [stage |-> "idle", todo |-> {}, snap |-> [u \in Users |-> NoRecord],
         user |-> None, token |-> NoToken, keep |-> TRUE]

RecType ==
    [stage : {"idle", "snapshot", "check", "refresh", "rotate", "revoke", "forget", "signout"},
     todo : SUBSET Users, snap : [Users -> Tokens \union {NoRecord}],
     user : Users \union {None}, token : Tokens, keep : BOOLEAN]

TypeOK ==
    /\ status \in [Users -> Statuses]
    /\ issued \in [Users -> 0..MaxTokens]
    /\ valid \in [Users -> SUBSET (1..MaxTokens)]
    /\ owners \in [Users -> Tokens \union {NoRecord}]
    /\ stored \in [Users -> Tokens \union {NoRecord}]
    /\ peers \in [Users -> 0..MaxPeers]
    /\ session \in [Sids -> SessionType]
    /\ request \in [Sids -> Users \union {None}]
    /\ rec \in RecType
    /\ faults \in 0..MaxFaults
    /\ restarts \in 0..MaxRestarts
    /\ left \subseteq Users
    /\ raced \subseteq Users
    /\ unsaved \subseteq Users
    /\ lost \subseteq Users

Init ==
    /\ status \in [Users -> {"member", "outsider"}]
    /\ issued = [u \in Users |-> 0]
    /\ valid = [u \in Users |-> {}]
    /\ owners = [u \in Users |-> NoRecord]
    /\ stored = [u \in Users |-> NoRecord]
    /\ peers = [u \in Users |-> 0]
    /\ session = [s \in Sids |-> NoSession]
    /\ request = [s \in Sids |-> None]
    /\ rec = Idle
    /\ faults = 0
    /\ restarts = 0
    /\ left = {u \in Users : status[u] # "member"}
    /\ raced = {}
    /\ unsaved = {}
    /\ lost = {}

Fault == faults < MaxFaults /\ faults' = faults + 1 /\ restarts' = restarts

NoFault == UNCHANGED <<faults, restarts>>

-----------------------------------------------------------------------------
(* The provider *)

\* An administrator changes a user's account or groups.
ChangeStatus(u) ==
    /\ status' \in {[status EXCEPT ![u] = x] : x \in Statuses \ {status[u]}}
    /\ left' = left \union {v \in Users : status'[v] # "member"}
    /\ NoFault
    /\ UNCHANGED <<issued, valid, owners, stored, peers, session, request, rec, raced, excuses>>

\* A new refresh token for u, in place of those in `old'.
Issue(u, old) ==
    /\ issued[u] < MaxTokens
    /\ issued' = [issued EXCEPT ![u] = @ + 1]
    /\ valid' = [valid EXCEPT ![u] = (@ \ old) \union {issued'[u]}]

IssueNone == UNCHANGED <<issued, valid>>

-----------------------------------------------------------------------------
(* OwnerStore.  Every save writes the whole map. *)

\* Set: an empty token keeps the one in the record.
WithRecord(u, t) ==
    [owners EXCEPT ![u] = IF t # NoToken \/ @ = NoRecord THEN t ELSE @]

Saved == stored' = owners' /\ unsaved' = {} /\ NoFault

NotSaved == stored' = stored /\ Fault

-----------------------------------------------------------------------------
(* Signing in: callback *)

\* The code is exchanged and the ID token shows the group; without offline_access no
\* refresh token comes with it.  (Anyone else is turned away, with nothing changed.)
CallbackExchange(s, u) ==
    /\ session[s] = NoSession
    /\ request[s] = None
    /\ status[u] = "member"
    /\ \E t \in Tokens :
          /\ \/ Issue(u, {}) /\ t = issued'[u]
             \/ IssueNone /\ t = NoToken
          /\ session' = [session EXCEPT ![s] = [stage |-> "exchanged", user |-> u, token |-> t]]
    /\ NoFault
    /\ UNCHANGED <<status, owners, stored, peers, request, rec, left, raced, excuses>>

\* owners.Set: the sign-in is refused when the save fails, and the record stays in
\* memory.
CallbackRecord(s) ==
    /\ session[s].stage = "exchanged"
    /\ owners' = WithRecord(session[s].user, session[s].token)
    /\ \/ Saved /\ session' = [session EXCEPT ![s].stage = "recorded", ![s].token = NoToken]
       \/ NotSaved /\ unsaved' = unsaved /\ session' = [session EXCEPT ![s] = NoSession]
    /\ UNCHANGED <<provider, peers, request, rec, left, raced, lost>>

\* The session is opened.
CallbackOpen(s) ==
    /\ session[s].stage = "recorded"
    /\ session' = [session EXCEPT ![s].stage = "open"]
    /\ NoFault
    /\ UNCHANGED <<provider, owners, stored, peers, request, rec, left, raced, excuses>>

\* logout, or the end of sessionTTL.
SessionEnds(s) ==
    /\ session[s].stage = "open"
    /\ session' = [session EXCEPT ![s] = NoSession]
    /\ NoFault
    /\ UNCHANGED <<provider, owners, stored, peers, request, rec, left, raced, excuses>>

-----------------------------------------------------------------------------
(* Requests that change peers: require, then createMine or deleteMine *)

\* require finds the session; its user goes with the request from here on.
Require(s) ==
    /\ session[s].stage = "open"
    /\ request[s] = None
    /\ request' = [request EXCEPT ![s] = session[s].user]
    /\ NoFault
    /\ UNCHANGED <<provider, owners, stored, peers, session, rec, left, raced, excuses>>

Respond(s) == request' = [request EXCEPT ![s] = None]

\* The reconciler has removed the peers of u and is not done with the rest.
BeingRevoked(u) == rec.user = u /\ rec.stage \in {"forget", "signout"}

Overtakes(u) == raced' = IF BeingRevoked(u) THEN raced \union {u} ELSE raced

\* Variant: the limit is off by one.
CreateMineOneMore(s) ==
    /\ request[s] # None
    /\ peers[request[s]] <= MaxPeers
    /\ peers' = [peers EXCEPT ![request[s]] = @ + 1]
    /\ Respond(s)
    /\ Overtakes(request[s])
    /\ NoFault
    /\ UNCHANGED <<provider, owners, stored, session, rec, left, excuses>>

\* Service.Create within the limit; the user may be losing the others right now.
CreateMine(s) ==
    /\ request[s] # None
    /\ peers[request[s]] < MaxPeers
    /\ peers' = [peers EXCEPT ![request[s]] = @ + 1]
    /\ Respond(s)
    /\ Overtakes(request[s])
    /\ NoFault
    /\ UNCHANGED <<provider, owners, stored, session, rec, left, excuses>>

\* Service.DeleteOwned finds a peer of the user.
DeleteMine(s) ==
    /\ request[s] # None
    /\ peers[request[s]] > 0
    /\ peers' = [peers EXCEPT ![request[s]] = @ - 1]
    /\ Respond(s)
    /\ NoFault
    /\ UNCHANGED <<provider, owners, stored, session, rec, left, raced, excuses>>

\* The request is refused, fails, or only reads.
RequestChangesNothing(s) ==
    /\ request[s] # None
    /\ Respond(s)
    /\ NoFault
    /\ UNCHANGED <<provider, owners, stored, peers, session, rec, left, raced, excuses>>

\* api.deletePeer: an administrator deletes a peer of the user.
AdminDelete(u) ==
    /\ peers[u] > 0
    /\ peers' = [peers EXCEPT ![u] = @ - 1]
    /\ NoFault
    /\ UNCHANGED <<provider, owners, stored, session, request, rec, left, raced, excuses>>

-----------------------------------------------------------------------------
(* The reconciler *)

NextUser == [rec EXCEPT !.stage = "check", !.user = None, !.token = NoToken, !.keep = TRUE]

\* A tick: RemoveExpired, which removes peers of any users when they can expire.
ReconcileExpired ==
    /\ rec.stage = "idle"
    /\ rec' = [rec EXCEPT !.stage = "snapshot"]
    /\ peers' \in [Users -> 0..MaxPeers]
    /\ \A u \in Users : IF PeersExpire THEN peers'[u] <= peers[u] ELSE peers'[u] = peers[u]
    /\ NoFault
    /\ UNCHANGED <<provider, owners, stored, session, request, left, raced, excuses>>

\* OwnerStore.Snapshot.
ReconcileSnapshot ==
    /\ rec.stage = "snapshot"
    /\ rec' = [rec EXCEPT !.stage = "check", !.snap = owners,
                          !.todo = {u \in Users : owners[u] # NoRecord}]
    /\ NoFault
    /\ UNCHANGED <<provider, owners, stored, peers, session, request, left, raced, excuses>>

\* The next owner; one without a token or without peers is skipped.
ReconcileCheck(u) ==
    /\ rec.stage = "check"
    /\ u \in rec.todo
    /\ rec' = IF rec.snap[u] = NoToken \/ peers[u] = 0
              THEN [rec EXCEPT !.todo = @ \ {u}]
              ELSE [rec EXCEPT !.todo = @ \ {u}, !.user = u, !.stage = "refresh"]
    /\ NoFault
    /\ UNCHANGED <<provider, owners, stored, peers, session, request, left, raced, excuses>>

ReconcileDone ==
    /\ rec.stage = "check"
    /\ rec.todo = {}
    /\ rec' = Idle
    /\ NoFault
    /\ UNCHANGED <<provider, owners, stored, peers, session, request, left, raced, excuses>>

\* What stillAllowed's verdict leads to.
Verdict(keep) == IF keep THEN NextUser ELSE [rec EXCEPT !.stage = "revoke", !.token = NoToken]

TokenAccepted(u) == rec.snap[u] \in valid[u] /\ status[u] # "disabled"

\* Variant: a refusal counts as a transient error.
RefreshRejectedKeeps ==
    /\ rec.stage = "refresh"
    /\ \/ ~TokenAccepted(rec.user) /\ NoFault /\ lost' = lost
       \/ RefusesClient /\ Fault /\ lost' = lost \union {rec.user}
    /\ rec' = Verdict(TRUE)
    /\ UNCHANGED <<provider, owners, stored, peers, session, request, left, raced, unsaved>>

\* The answer is a 400 or 401: the provider refuses the token, or it refuses the service
\* whatever the token is worth (invalid_client), which the code does not tell apart.
RefreshRejected ==
    /\ rec.stage = "refresh"
    /\ \/ ~TokenAccepted(rec.user) /\ NoFault /\ lost' = lost
       \/ RefusesClient /\ Fault /\ lost' = lost \union {rec.user}
    /\ rec' = Verdict(FALSE)
    /\ UNCHANGED <<provider, owners, stored, peers, session, request, left, raced, unsaved>>

\* The provider accepts the token, and may replace it.  `keep' is what the new ID
\* token says, or TRUE if there is none that can be verified.
RefreshAccepted ==
    /\ rec.stage = "refresh"
    /\ TokenAccepted(rec.user)
    /\ \E keep \in BOOLEAN :
          /\ \/ keep = (status[rec.user] = "member") /\ NoFault
             \/ keep /\ status[rec.user] # "member" /\ Fault
          /\ \/ /\ Rotates
                /\ Issue(rec.user, {rec.snap[rec.user]})
                /\ rec' = [rec EXCEPT !.stage = "rotate", !.keep = keep,
                                      !.token = issued'[rec.user]]
             \/ rec' = Verdict(keep) /\ IssueNone
    /\ UNCHANGED <<status, owners, stored, peers, session, request, left, raced, excuses>>

\* The provider is out of reach, or its answer is lost: the peers are kept.
RefreshUnanswered ==
    /\ rec.stage = "refresh"
    /\ rec' = NextUser
    /\ \/ IssueNone /\ lost' = lost
       \/ /\ TokenAccepted(rec.user)
          /\ Rotates
          /\ Issue(rec.user, {rec.snap[rec.user]})
          /\ lost' = lost \union {rec.user}
    /\ Fault
    /\ UNCHANGED <<status, owners, stored, peers, session, request, left, raced, unsaved>>

\* Variant: the new token is dropped.
RotatedTokenDropped ==
    /\ rec.stage = "rotate"
    /\ rec' = Verdict(rec.keep)
    /\ NoFault
    /\ UNCHANGED <<provider, owners, stored, peers, session, request, left, raced, excuses>>

\* The new token goes into the record; a failed save is only logged.
StoreRotated ==
    /\ rec.stage = "rotate"
    /\ owners' = WithRecord(rec.user, rec.token)
    /\ Saved \/ (NotSaved /\ unsaved' = unsaved \union {rec.user})
    /\ rec' = Verdict(rec.keep)
    /\ UNCHANGED <<provider, peers, session, request, left, raced, lost>>

\* revoke: RemoveOwner removes every peer ...
RevokePeers ==
    /\ rec.stage = "revoke"
    /\ peers' = [peers EXCEPT ![rec.user] = 0]
    /\ rec' = [rec EXCEPT !.stage = "forget"]
    /\ NoFault
    /\ UNCHANGED <<provider, owners, stored, session, request, left, raced, excuses>>

\* Variant: the error of RemoveOwner is only logged.
RevokeGoesOn ==
    /\ rec.stage = "revoke"
    /\ \E n \in 0..peers[rec.user] : peers' = [peers EXCEPT ![rec.user] = n]
    /\ rec' = [rec EXCEPT !.stage = "forget"]
    /\ Fault
    /\ UNCHANGED <<provider, owners, stored, session, request, left, raced, excuses>>

\* ... or fails, with some of them removed: the rest is left to the next run.
RevokeFails ==
    /\ rec.stage = "revoke"
    /\ \E n \in 0..peers[rec.user] : peers' = [peers EXCEPT ![rec.user] = n]
    /\ rec' = NextUser
    /\ Fault
    /\ UNCHANGED <<provider, owners, stored, session, request, left, raced, excuses>>

\* owners.Delete; a failed save is only logged.
RevokeForget ==
    /\ rec.stage = "forget"
    /\ owners' = [owners EXCEPT ![rec.user] = NoRecord]
    /\ Saved \/ (NotSaved /\ unsaved' = unsaved)
    /\ rec' = [rec EXCEPT !.stage = "signout"]
    /\ UNCHANGED <<provider, peers, session, request, left, raced, lost>>

InFlight(u) ==
    \E s \in Sids : request[s] = u \/ (session[s].user = u /\ session[s].stage # "open")

\* The sessions of the user end.  The revocation has been overtaken when something of
\* the user in flight can still create a peer (or has, see CreateMine).
RevokeSignOut ==
    /\ rec.stage = "signout"
    /\ session' = [s \in Sids |->
          IF session[s].user = rec.user /\ session[s].stage = "open" THEN NoSession ELSE session[s]]
    /\ raced' = IF InFlight(rec.user) THEN raced \union {rec.user} ELSE raced
    /\ rec' = NextUser
    /\ NoFault
    /\ UNCHANGED <<provider, owners, stored, peers, request, left, excuses>>

-----------------------------------------------------------------------------

\* The process ends and is started again: sessions, requests and the reconciler are
\* gone, owners.json is loaded.  A replacement that was not on disk is lost.
Restart ==
    /\ restarts < MaxRestarts
    /\ restarts' = restarts + 1
    /\ owners' = stored
    /\ session' = [s \in Sids |-> NoSession]
    /\ request' = [s \in Sids |-> None]
    /\ rec' = Idle
    /\ lost' = lost \union unsaved \union (IF rec.stage = "rotate" THEN {rec.user} ELSE {})
    /\ unsaved' = {}
    /\ UNCHANGED <<provider, stored, peers, faults, left, raced>>

Handlers ==
    \/ \E s \in Sids :
          \/ \E u \in Users : CallbackExchange(s, u)
          \/ CallbackRecord(s) \/ CallbackOpen(s) \/ SessionEnds(s)
          \/ Require(s) \/ CreateMine(s) \/ DeleteMine(s) \/ RequestChangesNothing(s)
    \/ \E u \in Users : AdminDelete(u)

Reconciler ==
    \/ ReconcileExpired \/ ReconcileSnapshot \/ ReconcileDone
    \/ \E u \in Users : ReconcileCheck(u)
    \/ RefreshRejected \/ RefreshAccepted \/ RefreshUnanswered \/ StoreRotated
    \/ RevokePeers \/ RevokeFails \/ RevokeForget \/ RevokeSignOut

Next ==
    \/ \E u \in Users : ChangeStatus(u)
    \/ Handlers
    \/ Reconciler
    \/ Restart

Spec == Init /\ [][Next]_vars

\* RunReconciler's ticker keeps calling Reconcile, and every request to the provider
\* ends, by its 15 second timeout at the latest.
FairSpec == Spec /\ WF_vars(Reconciler)

-----------------------------------------------------------------------------
(* Properties *)

\* No outage, failed save, failed removal or restart, and no sign-in that replaces a
\* token while the reconciler works through older ones, gets a user revoked who has been
\* a member all along.  Excepted are the users whose replaced token was lost, because its
\* answer was (see OutageKeepsPeers) or because the process ended before the token was on
\* disk, and those whose refresh was refused although their token was good.
MembersKeepPeers ==
    \A u \in Users \ (left \union lost) :
        ~(rec.user = u /\ rec.stage \in {"revoke", "forget", "signout"})

\* Peers and sessions stay tied to an account: whoever owns a peer has an owner record,
\* in memory and on disk, for the reconciler to find, and whoever has an open session has
\* one in memory, unless a request or sign-in overtook the revocation.
OwnersAreRecorded ==
    \A u \in Users \ raced : ~BeingRevoked(u) =>
        /\ peers[u] > 0 => owners[u] # NoRecord /\ stored[u] # NoRecord
        /\ (\E s \in Sids : session[s].stage = "open" /\ session[s].user = u) => owners[u] # NoRecord

\* Whoever loses access loses their peers, however removals fail and restarts
\* interleave with the reconciler, unless the revocation was overtaken or the
\* provider never issued a refresh token.
LeaversLosePeers ==
    \A u \in Users : (peers[u] > 0 /\ status[u] # "member")
                       ~> (peers[u] = 0 \/ status[u] = "member" \/ u \in raced \/ owners[u] = NoToken)

-----------------------------------------------------------------------------
(* Statements of the repository that the races and the token rotation refute *)

\* README.md:82-83 of the add-on: a rejected refresh or an ID token without the group
\* "removes that user's peers and sessions": a user whose owner record the revocation
\* has deleted has neither.
RevocationIsComplete ==
    \A u \in Users : owners[u] = NoRecord /\ ~BeingRevoked(u) =>
        /\ peers[u] = 0
        /\ \A s \in Sids : ~(session[s].stage = "open" /\ session[s].user = u)

\* oidc.go:361-362: "Transient provider errors keep peers in place so an outage cannot
\* lock everyone out."  Nobody who has been a member all along is revoked.
OutageKeepsPeers ==
    \A u \in Users \ left : ~(rec.stage = "forget" /\ rec.user = u)
=============================================================================
