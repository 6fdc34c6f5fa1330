-------------------------- MODULE SelfServiceProofs --------------------------
(***************************************************************************)
(* Proofs of the safety properties of SelfService.                         *)
(***************************************************************************)
EXTENDS SelfService, TLAPS

USE DEF excuses

-----------------------------------------------------------------------------
(* Types: those of TypeOK, and who a session or the reconciler is busy with. *)

Busy == {"refresh", "rotate", "revoke", "forget", "signout"}

Typed ==
    /\ TypeOK
    /\ \A s \in Sids : session[s].stage # "none" => session[s].user \in Users
    /\ rec.stage \in Busy => rec.user \in Users

LEMMA TokensRange == NoToken \in Tokens /\ NoRecord \notin Tokens /\ Tokens \subseteq Int
  BY BoundAssumption DEF Tokens, NoToken, NoRecord

LEMMA RecordsAreInts ==
    ASSUME TypeOK, NEW v \in Users
    PROVE  owners[v] \in Int /\ rec.snap[v] \in Int
  <1>1. owners[v] \in Tokens \cup {NoRecord} /\ rec.snap[v] \in Tokens \cup {NoRecord}
    BY DEF TypeOK, RecType
  <1>2. NoRecord \in Int
    BY DEF NoRecord
  <1> QED
    BY <1>1, <1>2, TokensRange

LEMMA IdleType == Idle \in RecType /\ NoSession \in SessionType /\ Idle.stage = "idle" /\ NoSession.stage = "none"
  BY TokensRange DEF Idle, RecType, NoSession, SessionType

LEMMA NextUserType ==
    ASSUME rec \in RecType
    PROVE  /\ NextUser \in RecType /\ NextUser.stage = "check"
           /\ NextUser.todo = rec.todo /\ NextUser.snap = rec.snap
  BY TokensRange DEF NextUser, RecType

LEMMA VerdictType ==
    ASSUME rec \in RecType, NEW keep \in BOOLEAN
    PROVE  /\ Verdict(keep) \in RecType
           /\ keep => Verdict(keep) = NextUser
           /\ ~keep => /\ Verdict(keep).stage = "revoke" /\ Verdict(keep).user = rec.user
                       /\ Verdict(keep).todo = rec.todo /\ Verdict(keep).snap = rec.snap
  <1>1. [rec EXCEPT !.stage = "revoke", !.token = NoToken] \in RecType
    BY TokensRange DEF RecType
  <1> QED
    BY <1>1, NextUserType DEF Verdict, RecType

LEMMA IssueType ==
    ASSUME TypeOK, NEW u \in Users, NEW old, Issue(u, old)
    PROVE  /\ issued' \in [Users -> 0 .. MaxTokens] /\ valid' \in [Users -> SUBSET (1 .. MaxTokens)]
           /\ issued'[u] = issued[u] + 1 /\ issued'[u] \in Tokens \ {NoToken}
           /\ \A v \in Users : v # u => issued'[v] = issued[v] /\ valid'[v] = valid[v]
           /\ valid'[u] = (valid[u] \ old) \cup {issued[u] + 1}
  <1>1. issued[u] \in 0 .. MaxTokens /\ issued[u] < MaxTokens
    BY DEF TypeOK, Issue
  <1>2. issued[u] + 1 \in 1 .. MaxTokens
    BY <1>1, BoundAssumption
  <1>3. issued' = [issued EXCEPT ![u] = issued[u] + 1]
    BY DEF Issue
  <1>4. issued'[u] = issued[u] + 1
    BY <1>3 DEF TypeOK
  <1>5. valid' = [valid EXCEPT ![u] = (valid[u] \ old) \cup {issued[u] + 1}]
    BY <1>4 DEF Issue
  <1>6. (valid[u] \ old) \cup {issued[u] + 1} \in SUBSET (1 .. MaxTokens)
    BY <1>2 DEF TypeOK
  <1>7. issued' \in [Users -> 0 .. MaxTokens]
    <2>1. issued[u] + 1 \in 0 .. MaxTokens
      BY <1>2, BoundAssumption
    <2> QED
      BY <1>3, <2>1 DEF TypeOK
  <1>8. issued'[u] \in Tokens \ {NoToken}
    BY <1>2, <1>4, BoundAssumption DEF Tokens, NoToken
  <1> QED
    BY <1>3, <1>4, <1>5, <1>6, <1>7, <1>8 DEF TypeOK

LEMMA FaultType ==
    ASSUME TypeOK, Fault \/ NoFault
    PROVE  faults' \in 0 .. MaxFaults /\ restarts' \in 0 .. MaxRestarts
  <1>1. faults \in 0 .. MaxFaults /\ restarts \in 0 .. MaxRestarts
    BY DEF TypeOK
  <1>2. CASE NoFault
    BY <1>1, <1>2 DEF NoFault
  <1>3. CASE Fault
    BY <1>1, <1>3, BoundAssumption DEF Fault
  <1> QED
    BY <1>2, <1>3

LEMMA RecordType ==
    ASSUME TypeOK, NEW u \in Users, NEW t \in Tokens
    PROVE  /\ WithRecord(u, t) \in [Users -> Tokens \cup {NoRecord}]
           /\ WithRecord(u, t)[u] # NoRecord
           /\ t # NoToken => WithRecord(u, t)[u] = t
           /\ t = NoToken => WithRecord(u, t)[u] \in {NoToken, owners[u]}
           /\ \A v \in Users : v # u => WithRecord(u, t)[v] = owners[v]
  <1> DEFINE r == IF t # NoToken \/ owners[u] = NoRecord THEN t ELSE owners[u]
  <1>1. WithRecord(u, t) = [owners EXCEPT ![u] = r]
    BY DEF WithRecord
  <1>2. r \in Tokens \cup {NoRecord} /\ r # NoRecord
    BY TokensRange DEF TypeOK
  <1>3. (t # NoToken => r = t) /\ (t = NoToken => r \in {NoToken, owners[u]})
    OBVIOUS
  <1> HIDE DEF r
  <1> QED
    BY <1>1, <1>2, <1>3 DEF TypeOK

\* A number of peers that went down, or up within the limit.
LEMMA PeersType ==
    ASSUME TypeOK, NEW u \in Users, NEW n \in 0 .. MaxPeers, peers' = [peers EXCEPT ![u] = n]
    PROVE  peers' \in [Users -> 0 .. MaxPeers] /\ peers'[u] = n /\ \A v \in Users : v # u => peers'[v] = peers[v]
  BY DEF TypeOK

\* The steps of handlers keep Typed.
LEMMA TypedHandlers ==
    ASSUME Typed, Handlers
    PROVE  Typed'
  <1>1. ASSUME NEW s \in Sids, NEW u \in Users, CallbackExchange(s, u) PROVE Typed'
    <2>1. faults' \in 0 .. MaxFaults /\ restarts' \in 0 .. MaxRestarts
      BY <1>1, FaultType DEF Typed, CallbackExchange
    <2>2. PICK t \in Tokens :
              /\ Issue(u, {}) \/ IssueNone
              /\ session' = [session EXCEPT ![s] = [stage |-> "exchanged", user |-> u, token |-> t]]
      BY <1>1 DEF CallbackExchange
    <2>3. issued' \in [Users -> 0 .. MaxTokens] /\ valid' \in [Users -> SUBSET (1 .. MaxTokens)]
      BY <2>2, IssueType DEF Typed, TypeOK, IssueNone
    <2>4. [stage |-> "exchanged", user |-> u, token |-> t] \in SessionType
      BY DEF SessionType
    <2>5. /\ session' \in [Sids -> SessionType]
          /\ \A q \in Sids : session'[q].stage # "none" => session'[q].user \in Users
      BY <2>2, <2>4 DEF Typed, TypeOK
    <2> QED
      BY <1>1, <2>1, <2>3, <2>5 DEF Typed, TypeOK, CallbackExchange
  <1>2. ASSUME NEW s \in Sids, CallbackRecord(s) PROVE Typed'
    <2>1. session[s] \in SessionType /\ session[s].user \in Users /\ session[s].token \in Tokens
      BY <1>2 DEF Typed, TypeOK, SessionType, CallbackRecord
    <2>2. owners' \in [Users -> Tokens \cup {NoRecord}] /\ stored' \in [Users -> Tokens \cup {NoRecord}]
      BY <1>2, <2>1, RecordType DEF CallbackRecord, Saved, NotSaved, Typed, TypeOK
    <2>3. faults' \in 0 .. MaxFaults /\ restarts' \in 0 .. MaxRestarts /\ unsaved' \in SUBSET Users
      BY <1>2, FaultType DEF Typed, TypeOK, CallbackRecord, Saved, NotSaved
    <2>4. /\ session' \in [Sids -> SessionType]
          /\ \A q \in Sids : session'[q].stage # "none" => session'[q].user \in Users
      <3>1. PICK x \in SessionType : session' = [session EXCEPT ![s] = x] /\ (x.stage # "none" => x.user \in Users)
        <4>1. [session[s] EXCEPT !.stage = "recorded", !.token = NoToken] \in SessionType
          BY <2>1, TokensRange DEF SessionType
        <4>2. [session[s] EXCEPT !.stage = "recorded", !.token = NoToken].user = session[s].user
          BY <2>1 DEF SessionType
        <4> QED
          BY <1>2, <2>1, <4>1, <4>2, IdleType DEF CallbackRecord
      <3> QED
        BY <3>1 DEF Typed, TypeOK
    <2> QED
      BY <1>2, <2>2, <2>3, <2>4 DEF Typed, TypeOK, CallbackRecord, provider
  <1>3. ASSUME NEW s \in Sids, CallbackOpen(s) PROVE Typed'
    <2>1. faults' \in 0 .. MaxFaults /\ restarts' \in 0 .. MaxRestarts
      BY <1>3, FaultType DEF Typed, CallbackOpen
    <2>2. session[s] \in SessionType /\ session[s].user \in Users
      BY <1>3 DEF Typed, TypeOK, CallbackOpen
    <2>3. /\ session' \in [Sids -> SessionType]
          /\ \A q \in Sids : session'[q].stage # "none" => session'[q].user \in Users
      BY <1>3, <2>2 DEF Typed, TypeOK, CallbackOpen, SessionType
    <2> QED
      BY <1>3, <2>1, <2>3 DEF Typed, TypeOK, CallbackOpen, provider
  <1>4. ASSUME NEW s \in Sids, SessionEnds(s) PROVE Typed'
    <2>1. faults' \in 0 .. MaxFaults /\ restarts' \in 0 .. MaxRestarts
      BY <1>4, FaultType DEF Typed, SessionEnds
    <2> QED
      BY <1>4, <2>1, IdleType DEF Typed, TypeOK, SessionEnds, provider
  <1>5. ASSUME NEW s \in Sids, Require(s) PROVE Typed'
    <2>1. faults' \in 0 .. MaxFaults /\ restarts' \in 0 .. MaxRestarts
      BY <1>5, FaultType DEF Typed, Require
    <2>2. session[s].user \in Users
      BY <1>5 DEF Typed, Require
    <2> QED
      BY <1>5, <2>1, <2>2 DEF Typed, TypeOK, Require, provider
  <1>6. ASSUME NEW s \in Sids, CreateMine(s) PROVE Typed'
    <2>1. faults' \in 0 .. MaxFaults /\ restarts' \in 0 .. MaxRestarts
      BY <1>6, FaultType DEF Typed, CreateMine
    <2>2. request[s] \in Users
      BY <1>6, NoneAssumption DEF Typed, TypeOK, CreateMine
    <2>3. peers[request[s]] \in 0 .. MaxPeers /\ peers[request[s]] + 1 \in 0 .. MaxPeers
      <3>1. peers[request[s]] \in 0 .. MaxPeers
        BY <2>2 DEF Typed, TypeOK
      <3>2. peers[request[s]] < MaxPeers
        BY <1>6 DEF CreateMine
      <3> QED
        BY <3>1, <3>2, ConfigAssumption
    <2>4. peers' \in [Users -> 0 .. MaxPeers]
      BY <1>6, <2>2, <2>3, PeersType DEF CreateMine, Typed
    <2>5. raced' \in SUBSET Users /\ request' \in [Sids -> Users \cup {None}]
      BY <1>6, <2>2 DEF Typed, TypeOK, CreateMine, Respond, Overtakes
    <2> QED
      BY <1>6, <2>1, <2>4, <2>5 DEF Typed, TypeOK, CreateMine, provider
  <1>7. ASSUME NEW s \in Sids, DeleteMine(s) PROVE Typed'
    <2>1. faults' \in 0 .. MaxFaults /\ restarts' \in 0 .. MaxRestarts
      BY <1>7, FaultType DEF Typed, DeleteMine
    <2>2. request[s] \in Users
      BY <1>7, NoneAssumption DEF Typed, TypeOK, DeleteMine
    <2>3. peers[request[s]] \in 0 .. MaxPeers /\ peers[request[s]] - 1 \in 0 .. MaxPeers
      <3>1. peers[request[s]] \in 0 .. MaxPeers
        BY <2>2 DEF Typed, TypeOK
      <3>2. peers[request[s]] > 0
        BY <1>7 DEF DeleteMine
      <3> QED
        BY <3>1, <3>2, ConfigAssumption
    <2>4. peers' \in [Users -> 0 .. MaxPeers]
      BY <1>7, <2>2, <2>3, PeersType DEF DeleteMine, Typed
    <2>5. raced' \in SUBSET Users /\ request' \in [Sids -> Users \cup {None}]
      BY <1>7, <2>2 DEF Typed, TypeOK, DeleteMine, Respond, Overtakes
    <2> QED
      BY <1>7, <2>1, <2>4, <2>5 DEF Typed, TypeOK, DeleteMine, provider
  <1>8. ASSUME NEW s \in Sids, RequestChangesNothing(s) PROVE Typed'
    <2>1. faults' \in 0 .. MaxFaults /\ restarts' \in 0 .. MaxRestarts
      BY <1>8, FaultType DEF Typed, RequestChangesNothing
    <2> QED
      BY <1>8, <2>1 DEF Typed, TypeOK, RequestChangesNothing, Respond, provider
  <1>9. ASSUME NEW u \in Users, AdminDelete(u) PROVE Typed'
    <2>1. faults' \in 0 .. MaxFaults /\ restarts' \in 0 .. MaxRestarts
      BY <1>9, FaultType DEF Typed, AdminDelete
    <2>2. u \in Users
      BY <1>9, NoneAssumption DEF Typed, TypeOK, AdminDelete
    <2>3. peers[u] \in 0 .. MaxPeers /\ peers[u] - 1 \in 0 .. MaxPeers
      <3>1. peers[u] \in 0 .. MaxPeers
        BY <2>2 DEF Typed, TypeOK
      <3>2. peers[u] > 0
        BY <1>9 DEF AdminDelete
      <3> QED
        BY <3>1, <3>2, ConfigAssumption
    <2>4. peers' \in [Users -> 0 .. MaxPeers]
      BY <1>9, <2>2, <2>3, PeersType DEF AdminDelete, Typed
    <2>5. raced' \in SUBSET Users /\ request' \in [Sids -> Users \cup {None}]
      BY <1>9, <2>2 DEF Typed, TypeOK, AdminDelete, Respond, Overtakes
    <2> QED
      BY <1>9, <2>1, <2>4, <2>5 DEF Typed, TypeOK, AdminDelete, provider
  <1> QED
    BY <1>1, <1>2, <1>3, <1>4, <1>5, <1>6, <1>7, <1>8, <1>9 DEF Handlers

\* The steps of the reconciler keep Typed.
LEMMA TypedReconciler ==
    ASSUME Typed, Reconciler
    PROVE  Typed'
  <1>1. CASE ReconcileExpired
    <2>1. faults' \in 0 .. MaxFaults /\ restarts' \in 0 .. MaxRestarts
      BY <1>1, FaultType DEF Typed, ReconcileExpired
    <2>2. rec' \in RecType /\ (rec'.stage \in Busy => rec'.user \in Users)
      BY <1>1 DEF ReconcileExpired, Typed, TypeOK, RecType, Busy
    <2>3. peers' \in [Users -> 0 .. MaxPeers]
      BY <1>1 DEF ReconcileExpired
    <2> QED
      BY <1>1, <2>1, <2>2, <2>3 DEF Typed, TypeOK, ReconcileExpired, provider
  <1>2. CASE ReconcileSnapshot
    <2>1. faults' \in 0 .. MaxFaults /\ restarts' \in 0 .. MaxRestarts
      BY <1>2, FaultType DEF Typed, ReconcileSnapshot
    <2>2. rec' \in RecType /\ (rec'.stage \in Busy => rec'.user \in Users)
      BY <1>2 DEF ReconcileSnapshot, Typed, TypeOK, RecType, Busy
    <2> QED
      BY <1>2, <2>1, <2>2 DEF Typed, TypeOK, ReconcileSnapshot, provider
  <1>3. ASSUME NEW u \in Users, ReconcileCheck(u) PROVE Typed'
    <2>1. faults' \in 0 .. MaxFaults /\ restarts' \in 0 .. MaxRestarts
      BY <1>3, FaultType DEF Typed, ReconcileCheck
    <2>2. rec' \in RecType /\ (rec'.stage \in Busy => rec'.user \in Users)
      <3>1. \/ rec' = [rec EXCEPT !.todo = rec.todo \ {u}]
            \/ rec' = [rec EXCEPT !.todo = rec.todo \ {u}, !.user = u, !.stage = "refresh"]
        BY <1>3 DEF ReconcileCheck
      <3> QED
        BY <1>3, <3>1 DEF ReconcileCheck, Typed, TypeOK, RecType, Busy
    <2> QED
      BY <1>3, <2>1, <2>2 DEF Typed, TypeOK, ReconcileCheck, provider
  <1>4. CASE ReconcileDone
    <2>1. faults' \in 0 .. MaxFaults /\ restarts' \in 0 .. MaxRestarts
      BY <1>4, FaultType DEF Typed, ReconcileDone
    <2>2. rec' \in RecType /\ (rec'.stage \in Busy => rec'.user \in Users)
      BY <1>4, IdleType DEF ReconcileDone, Busy
    <2> QED
      BY <1>4, <2>1, <2>2 DEF Typed, TypeOK, ReconcileDone, provider
  <1>5. CASE RefreshRejected
    <2>1. faults' \in 0 .. MaxFaults /\ restarts' \in 0 .. MaxRestarts /\ lost' \in SUBSET Users
      BY <1>5, FaultType DEF Typed, TypeOK, Busy, RefreshRejected
    <2>2. rec' \in RecType /\ (rec'.stage \in Busy => rec'.user \in Users)
      <3>1. rec \in RecType /\ rec.user \in Users
        BY <1>5 DEF RefreshRejected, Typed, TypeOK, Busy
      <3> QED
        BY <1>5, <3>1, VerdictType DEF RefreshRejected
    <2> QED
      BY <1>5, <2>1, <2>2 DEF Typed, TypeOK, RefreshRejected, provider
  <1>6. CASE RefreshAccepted
    <2>1. rec \in RecType /\ rec.user \in Users
      BY <1>6 DEF RefreshAccepted, Typed, TypeOK, Busy
    <2>2. PICK keep \in BOOLEAN :
              /\ Fault \/ NoFault
              /\ \/ /\ Issue(rec.user, {rec.snap[rec.user]})
                    /\ rec' = [rec EXCEPT !.stage = "rotate", !.keep = keep, !.token = issued'[rec.user]]
                 \/ rec' = Verdict(keep) /\ IssueNone
      BY <1>6 DEF RefreshAccepted
    <2>3. faults' \in 0 .. MaxFaults /\ restarts' \in 0 .. MaxRestarts
      BY <2>2, FaultType DEF Typed
    <2>4. /\ issued' \in [Users -> 0 .. MaxTokens] /\ valid' \in [Users -> SUBSET (1 .. MaxTokens)]
          /\ rec' \in RecType /\ (rec'.stage \in Busy => rec'.user \in Users)
      <3>1. CASE /\ Issue(rec.user, {rec.snap[rec.user]})
                 /\ rec' = [rec EXCEPT !.stage = "rotate", !.keep = keep, !.token = issued'[rec.user]]
        <4>1. issued'[rec.user] \in Tokens
          BY <2>1, <3>1, IssueType DEF Typed
        <4>2. rec' \in RecType /\ rec'.user = rec.user
          BY <2>1, <3>1, <4>1 DEF RecType
        <4> QED
          BY <2>1, <3>1, <4>2, IssueType DEF Typed
      <3>2. CASE rec' = Verdict(keep) /\ IssueNone
        BY <2>1, <3>2, VerdictType, NextUserType DEF IssueNone, Typed, TypeOK, Busy
      <3> QED
        BY <2>2, <3>1, <3>2
    <2> QED
      BY <1>6, <2>3, <2>4 DEF Typed, TypeOK, RefreshAccepted
  <1>7. CASE RefreshUnanswered
    <2>1. faults' \in 0 .. MaxFaults /\ restarts' \in 0 .. MaxRestarts /\ lost' \in SUBSET Users
      BY <1>7, FaultType DEF Typed, TypeOK, Busy, RefreshUnanswered
    <2>2. rec' \in RecType /\ (rec'.stage \in Busy => rec'.user \in Users)
      BY <1>7, NextUserType DEF RefreshUnanswered, Typed, TypeOK, Busy
    <2>3. issued' \in [Users -> 0 .. MaxTokens] /\ valid' \in [Users -> SUBSET (1 .. MaxTokens)]
      <3>1. rec.user \in Users /\ (IssueNone \/ Issue(rec.user, {rec.snap[rec.user]}))
        BY <1>7 DEF RefreshUnanswered, Typed, Busy
      <3> QED
        BY <3>1, IssueType DEF IssueNone, Typed, TypeOK
    <2> QED
      BY <1>7, <2>1, <2>2, <2>3 DEF Typed, TypeOK, RefreshUnanswered, provider
  <1>8. CASE StoreRotated
    <2>1. rec \in RecType /\ rec.user \in Users /\ rec.token \in Tokens /\ rec.keep \in BOOLEAN
      BY <1>8 DEF StoreRotated, Typed, TypeOK, RecType, Busy
    <2>2. owners' \in [Users -> Tokens \cup {NoRecord}] /\ stored' \in [Users -> Tokens \cup {NoRecord}]
      BY <1>8, <2>1, RecordType DEF StoreRotated, Saved, NotSaved, Typed, TypeOK
    <2>3. faults' \in 0 .. MaxFaults /\ restarts' \in 0 .. MaxRestarts /\ unsaved' \in SUBSET Users
      BY <1>8, <2>1, FaultType DEF Typed, TypeOK, StoreRotated, Saved, NotSaved
    <2>4. rec' \in RecType /\ (rec'.stage \in Busy => rec'.user \in Users)
      BY <1>8, <2>1, VerdictType, NextUserType DEF StoreRotated, Busy
    <2> QED
      BY <1>8, <2>2, <2>3, <2>4 DEF Typed, TypeOK, StoreRotated, provider
  <1>9. CASE RevokePeers
    <2>1. faults' \in 0 .. MaxFaults /\ restarts' \in 0 .. MaxRestarts
      BY <1>9, FaultType DEF Typed, RevokePeers
    <2>2. rec' \in RecType /\ (rec'.stage \in Busy => rec'.user \in Users)
      BY <1>9 DEF RevokePeers, Typed, TypeOK, RecType, Busy
    <2>3. peers' \in [Users -> 0 .. MaxPeers]
      <3>1. 0 \in 0 .. MaxPeers
        BY ConfigAssumption
      <3> QED
        BY <1>9, <3>1 DEF RevokePeers, Typed, TypeOK
    <2> QED
      BY <1>9, <2>1, <2>2, <2>3 DEF Typed, TypeOK, RevokePeers, provider
  <1>10. CASE RevokeFails
    <2>1. faults' \in 0 .. MaxFaults /\ restarts' \in 0 .. MaxRestarts
      BY <1>10, FaultType DEF Typed, RevokeFails
    <2>2. rec' \in RecType /\ (rec'.stage \in Busy => rec'.user \in Users)
      BY <1>10, NextUserType DEF RevokeFails, Typed, TypeOK, Busy
    <2>3. peers' \in [Users -> 0 .. MaxPeers]
      <3>1. rec.user \in Users /\ peers[rec.user] \in 0 .. MaxPeers
        BY <1>10 DEF RevokeFails, Typed, TypeOK, Busy
      <3>2. PICK n \in 0 .. peers[rec.user] : peers' = [peers EXCEPT ![rec.user] = n]
        BY <1>10 DEF RevokeFails
      <3>3. n \in 0 .. MaxPeers
        BY <3>1, ConfigAssumption
      <3> QED
        BY <3>1, <3>2, <3>3, PeersType DEF Typed
    <2> QED
      BY <1>10, <2>1, <2>2, <2>3 DEF Typed, TypeOK, RevokeFails, provider
  <1>11. CASE RevokeForget
    <2>1. rec \in RecType /\ rec.user \in Users
      BY <1>11 DEF RevokeForget, Typed, TypeOK, Busy
    <2>2. owners' \in [Users -> Tokens \cup {NoRecord}] /\ stored' \in [Users -> Tokens \cup {NoRecord}]
      BY <1>11 DEF RevokeForget, Saved, NotSaved, Typed, TypeOK
    <2>3. faults' \in 0 .. MaxFaults /\ restarts' \in 0 .. MaxRestarts /\ unsaved' \in SUBSET Users
      BY <1>11, FaultType DEF Typed, TypeOK, RevokeForget, Saved, NotSaved
    <2>4. rec' \in RecType /\ (rec'.stage \in Busy => rec'.user \in Users)
      BY <1>11, <2>1 DEF RevokeForget, RecType
    <2> QED
      BY <1>11, <2>2, <2>3, <2>4 DEF Typed, TypeOK, RevokeForget, provider
  <1>12. CASE RevokeSignOut
    <2>1. faults' \in 0 .. MaxFaults /\ restarts' \in 0 .. MaxRestarts
      BY <1>12, FaultType DEF Typed, RevokeSignOut
    <2>2. rec' \in RecType /\ (rec'.stage \in Busy => rec'.user \in Users)
      BY <1>12, NextUserType DEF RevokeSignOut, Typed, TypeOK, Busy
    <2>3. /\ session' \in [Sids -> SessionType] /\ raced' \in SUBSET Users
          /\ \A q \in Sids : session'[q].stage # "none" => session'[q].user \in Users
      <3>1. rec.user \in Users
        BY <1>12 DEF RevokeSignOut, Typed, Busy
      <3> QED
        BY <1>12, <3>1, IdleType DEF RevokeSignOut, Typed, TypeOK
    <2> QED
      BY <1>12, <2>1, <2>2, <2>3 DEF Typed, TypeOK, RevokeSignOut, provider
  <1> QED
    BY <1>1, <1>2, <1>3, <1>4, <1>5, <1>6, <1>7, <1>8, <1>9, <1>10, <1>11, <1>12 DEF
       Reconciler

LEMMA TypedStep ==
    ASSUME Typed, [Next]_vars
    PROVE  Typed'
  <1>1. ASSUME NEW u \in Users, ChangeStatus(u) PROVE Typed'
    <2>1. faults' \in 0 .. MaxFaults /\ restarts' \in 0 .. MaxRestarts
      BY <1>1, FaultType DEF Typed, ChangeStatus
    <2> QED
      BY <1>1, <2>1 DEF Typed, TypeOK, ChangeStatus
  <1>2. CASE Restart
    <2>1. restarts' \in 0 .. MaxRestarts /\ lost' \in SUBSET Users /\ unsaved' \in SUBSET Users
      BY <1>2, BoundAssumption DEF Restart, Typed, TypeOK, Busy
    <2>2. rec' \in RecType /\ rec'.stage = "idle"
      BY <1>2, IdleType DEF Restart
    <2>3. /\ session' \in [Sids -> SessionType] /\ request' \in [Sids -> Users \cup {None}]
          /\ \A q \in Sids : session'[q].stage = "none"
      BY <1>2, IdleType DEF Restart
    <2> QED
      BY <1>2, <2>1, <2>2, <2>3 DEF Typed, TypeOK, Restart, provider, Busy
  <1>3. CASE UNCHANGED vars
    BY <1>3 DEF vars, provider, Typed, TypeOK
  <1> QED
    BY <1>1, <1>2, <1>3, TypedHandlers, TypedReconciler DEF Next


-----------------------------------------------------------------------------
(* Owner records *)

\* The user owns a peer, or a session or a request that may yet create one.
Tied(u) ==
    \/ peers[u] > 0
    \/ \E s \in Sids :
          request[s] = u \/ (session[s].user = u /\ session[s].stage \in {"recorded", "open"})

\* The conjunct for one user: a revocation under way has removed the peers, and a tied
\* user has an owner record in memory and on disk.
OwnedAt(u) ==
    IF BeingRevoked(u) THEN peers[u] = 0
    ELSE Tied(u) => owners[u] # NoRecord /\ stored[u] # NoRecord

OwnersOK == \A u \in Users \ raced : OwnedAt(u)

-----------------------------------------------------------------------------
(* The refresh tokens of users who have lost none *)

At(stage, u) == rec.stage = stage /\ rec.user = u

Good(u, t) == t \in valid[u] \cup {NoToken, NoRecord}

\* The sign-in of s is about to record a token.
Carries(s, u) ==
    session[s].stage = "exchanged" /\ session[s].user = u /\ session[s].token # NoToken

\* What is recorded is valid, except while the reconciler is about to replace it, or on
\* disk when that failed.
RecordsAt(u) ==
    /\ owners[u] <= issued[u]
    /\ valid[u] \subseteq 1 .. issued[u]
    /\ ~At("rotate", u) => Good(u, owners[u])
    /\ u \notin unsaved /\ ~At("rotate", u) => Good(u, stored[u])

\* The reconciler works with valid tokens.
ReconcilerAt(u) ==
    /\ rec.snap[u] <= issued[u]
    /\ u \in rec.todo \/ At("refresh", u) => rec.snap[u] \in valid[u] \cup {NoToken}
    /\ At("refresh", u) => rec.snap[u] # NoToken
    /\ At("rotate", u) => rec.token \in valid[u]
    /\ rec.stage \in Busy /\ rec.user = u => u \notin rec.todo

\* The token of a sign-in is valid and held nowhere else.
SignInsAt(u) ==
    \A s \in Sids :
        Carries(s, u) =>
            /\ session[s].token \in valid[u] \ {owners[u], rec.snap[u]}
            /\ At("rotate", u) => session[s].token # rec.token
            /\ \A q \in Sids : Carries(q, u) /\ session[q].token = session[s].token => q = s

TokensAt(u) == RecordsAt(u) /\ ReconcilerAt(u) /\ SignInsAt(u)

TokensOK == \A u \in Users \ lost : TokensAt(u)

-----------------------------------------------------------------------------
(* Users who have been members all along *)

MemberAt(u) ==
    /\ status[u] = "member"
    /\ u \notin lost => /\ ~(rec.user = u /\ rec.stage \in {"revoke", "forget", "signout"})
                       /\ (At("rotate", u) => rec.keep)

MembersOK == \A u \in Users \ left : MemberAt(u)

-----------------------------------------------------------------------------
(* Where tokens are not replaced and the service is not refused, none is ever lost *)

KeptOK ==
    (~Rotates /\ ~RefusesClient) => (lost = {} /\ unsaved = {} /\ rec.stage # "rotate")

IInv == Typed /\ OwnersOK /\ TokensOK /\ MembersOK /\ KeptOK

\* Handlers keep OwnersOK: a user overtaking a revocation is counted in raced.
LEMMA OwnedHandlers ==
    ASSUME Typed, OwnersOK, Handlers
    PROVE  OwnersOK'
  <1>1. ASSUME NEW s \in Sids, NEW u \in Users, CallbackExchange(s, u) PROVE OwnersOK'
    <2> SUFFICES ASSUME NEW v \in Users, v \notin raced' PROVE OwnedAt(v)'
      BY DEF OwnersOK
    <2>0. v \in Users \ raced => OwnedAt(v)
      BY DEF OwnersOK
    <2> QED
      BY <1>1, <2>0, NoneAssumption DEF Typed, TypeOK, OwnedAt, Tied, BeingRevoked,
         CallbackExchange
  <1>2. ASSUME NEW s \in Sids, CallbackRecord(s) PROVE OwnersOK'
    <2> SUFFICES ASSUME NEW v \in Users, v \notin raced' PROVE OwnedAt(v)'
      BY DEF OwnersOK
    <2>0. v \in Users \ raced => OwnedAt(v)
      BY DEF OwnersOK
    <2>1. session[s].user \in Users /\ session[s].token \in Tokens /\ session[s].stage = "exchanged"
      BY <1>2 DEF Typed, TypeOK, SessionType, CallbackRecord
    <2>2. /\ owners'[session[s].user] # NoRecord
          /\ \A w \in Users : owners[w] # NoRecord => owners'[w] # NoRecord
      <3>1. owners' = WithRecord(session[s].user, session[s].token)
        BY <1>2 DEF CallbackRecord
      <3>2. WithRecord(session[s].user, session[s].token)[session[s].user] # NoRecord
        BY <2>1, RecordType DEF Typed
      <3>3. \A w \in Users : w # session[s].user =>
                WithRecord(session[s].user, session[s].token)[w] = owners[w]
        BY <2>1, RecordType DEF Typed
      <3> QED
        BY <3>1, <3>2, <3>3
    <2>3. v \notin raced /\ (BeingRevoked(v)' <=> BeingRevoked(v)) /\ peers' = peers /\ request' = request
      BY <1>2 DEF CallbackRecord, BeingRevoked
    <2>4. CASE stored' = owners'
      <3>1. \A q \in Sids : session'[q].user = v /\ session'[q].stage \in {"recorded", "open"} =>
                \/ session[q].user = v /\ session[q].stage \in {"recorded", "open"}
                \/ v = session[s].user
        BY <1>2, <2>1, IdleType DEF CallbackRecord, Typed, TypeOK, SessionType
      <3> QED
        BY <2>0, <2>2, <2>3, <2>4, <3>1 DEF OwnedAt, Tied
    <2>5. CASE stored' = stored /\ session' = [session EXCEPT ![s] = NoSession]
      <3>1. \A q \in Sids : session'[q].stage \in {"recorded", "open"} => session'[q] = session[q]
        BY <2>5, IdleType DEF Typed, TypeOK
      <3> QED
        BY <2>0, <2>2, <2>3, <2>5, <3>1 DEF OwnedAt, Tied
    <2> QED
      BY <1>2, <2>4, <2>5 DEF CallbackRecord, Saved, NotSaved
  <1>3. ASSUME NEW s \in Sids, CallbackOpen(s) PROVE OwnersOK'
    <2> SUFFICES ASSUME NEW v \in Users, v \notin raced' PROVE OwnedAt(v)'
      BY DEF OwnersOK
    <2>0. v \in Users \ raced => OwnedAt(v)
      BY DEF OwnersOK
    <2> QED
      BY <1>3, <2>0, NoneAssumption DEF Typed, TypeOK, OwnedAt, Tied, BeingRevoked,
         CallbackOpen
  <1>4. ASSUME NEW s \in Sids, SessionEnds(s) PROVE OwnersOK'
    <2> SUFFICES ASSUME NEW v \in Users, v \notin raced' PROVE OwnedAt(v)'
      BY DEF OwnersOK
    <2>0. v \in Users \ raced => OwnedAt(v)
      BY DEF OwnersOK
    <2> QED
      BY <1>4, <2>0, IdleType DEF Typed, TypeOK, OwnedAt, Tied, BeingRevoked, SessionEnds
  <1>5. ASSUME NEW s \in Sids, Require(s) PROVE OwnersOK'
    <2> SUFFICES ASSUME NEW v \in Users, v \notin raced' PROVE OwnedAt(v)'
      BY DEF OwnersOK
    <2>0. v \in Users \ raced => OwnedAt(v)
      BY DEF OwnersOK
    <2> QED
      BY <1>5, <2>0, NoneAssumption DEF Typed, TypeOK, OwnedAt, Tied, BeingRevoked, Require
  <1>6. ASSUME NEW s \in Sids, CreateMine(s) PROVE OwnersOK'
    <2> SUFFICES ASSUME NEW v \in Users, v \notin raced' PROVE OwnedAt(v)'
      BY DEF OwnersOK
    <2>0. v \in Users \ raced => OwnedAt(v)
      BY DEF OwnersOK
    <2> QED
      BY <1>6, <2>0, NoneAssumption DEF Typed, TypeOK, OwnedAt, Tied, BeingRevoked, CreateMine,
         Respond, Overtakes
  <1>7. ASSUME NEW s \in Sids, DeleteMine(s) PROVE OwnersOK'
    <2> SUFFICES ASSUME NEW v \in Users, v \notin raced' PROVE OwnedAt(v)'
      BY DEF OwnersOK
    <2>0. v \in Users \ raced => OwnedAt(v)
      BY DEF OwnersOK
    <2> QED
      BY <1>7, <2>0, NoneAssumption DEF Typed, TypeOK, OwnedAt, Tied, BeingRevoked, DeleteMine,
         Respond
  <1>8. ASSUME NEW s \in Sids, RequestChangesNothing(s) PROVE OwnersOK'
    <2> SUFFICES ASSUME NEW v \in Users, v \notin raced' PROVE OwnedAt(v)'
      BY DEF OwnersOK
    <2>0. v \in Users \ raced => OwnedAt(v)
      BY DEF OwnersOK
    <2> QED
      BY <1>8, <2>0, NoneAssumption DEF Typed, TypeOK, OwnedAt, Tied, BeingRevoked,
         RequestChangesNothing, Respond
  <1>9. ASSUME NEW u \in Users, AdminDelete(u) PROVE OwnersOK'
    <2> SUFFICES ASSUME NEW v \in Users, v \notin raced' PROVE OwnedAt(v)'
      BY DEF OwnersOK
    <2>0. v \in Users \ raced => OwnedAt(v)
      BY DEF OwnersOK
    <2> QED
      BY <1>9, <2>0, NoneAssumption DEF Typed, TypeOK, OwnedAt, Tied, BeingRevoked, AdminDelete
  <1> QED
    BY <1>1, <1>2, <1>3, <1>4, <1>5, <1>6, <1>7, <1>8, <1>9 DEF Handlers

\* The reconciler keeps OwnersOK.
LEMMA OwnedReconciler ==
    ASSUME Typed, OwnersOK, Reconciler
    PROVE  OwnersOK'
  <1>1. CASE ReconcileExpired
    <2> SUFFICES ASSUME NEW v \in Users, v \notin raced' PROVE OwnedAt(v)'
      BY DEF OwnersOK
    <2>0. v \in Users \ raced => OwnedAt(v)
      BY DEF OwnersOK
    <2> QED
      BY <1>1, <2>0, IdleType, NextUserType DEF Typed, TypeOK, OwnedAt, Tied, BeingRevoked,
         ReconcileExpired
  <1>2. CASE ReconcileSnapshot
    <2> SUFFICES ASSUME NEW v \in Users, v \notin raced' PROVE OwnedAt(v)'
      BY DEF OwnersOK
    <2>0. v \in Users \ raced => OwnedAt(v)
      BY DEF OwnersOK
    <2> QED
      BY <1>2, <2>0, IdleType, NextUserType DEF Typed, TypeOK, OwnedAt, Tied, BeingRevoked,
         ReconcileSnapshot
  <1>3. ASSUME NEW u \in Users, ReconcileCheck(u) PROVE OwnersOK'
    <2> SUFFICES ASSUME NEW v \in Users, v \notin raced' PROVE OwnedAt(v)'
      BY DEF OwnersOK
    <2>0. v \in Users \ raced => OwnedAt(v)
      BY DEF OwnersOK
    <2> QED
      BY <1>3, <2>0, IdleType, NextUserType DEF Typed, TypeOK, OwnedAt, Tied, BeingRevoked,
         ReconcileCheck
  <1>4. CASE ReconcileDone
    <2> SUFFICES ASSUME NEW v \in Users, v \notin raced' PROVE OwnedAt(v)'
      BY DEF OwnersOK
    <2>0. v \in Users \ raced => OwnedAt(v)
      BY DEF OwnersOK
    <2> QED
      BY <1>4, <2>0, IdleType, NextUserType DEF Typed, TypeOK, OwnedAt, Tied, BeingRevoked,
         ReconcileDone
  <1>5. CASE RefreshRejected
    <2> SUFFICES ASSUME NEW v \in Users, v \notin raced' PROVE OwnedAt(v)'
      BY DEF OwnersOK
    <2>0. v \in Users \ raced => OwnedAt(v)
      BY DEF OwnersOK
    <2>1. rec.stage = "refresh" /\ rec'.stage = "revoke"
      BY <1>5, VerdictType DEF RefreshRejected, Typed, TypeOK
    <2> QED
      BY <1>5, <2>0, <2>1 DEF RefreshRejected, OwnedAt, Tied, BeingRevoked
  <1>6. CASE RefreshAccepted
    <2> SUFFICES ASSUME NEW v \in Users, v \notin raced' PROVE OwnedAt(v)'
      BY DEF OwnersOK
    <2>0. v \in Users \ raced => OwnedAt(v)
      BY DEF OwnersOK
    <2>1. rec \in RecType /\ rec.stage = "refresh"
      BY <1>6 DEF RefreshAccepted, Typed, TypeOK
    <2>2. rec'.stage \notin {"forget", "signout"}
      <3>1. PICK keep \in BOOLEAN :
                \/ rec' = [rec EXCEPT !.stage = "rotate", !.keep = keep, !.token = issued'[rec.user]]
                \/ rec' = Verdict(keep)
        BY <1>6 DEF RefreshAccepted
      <3> QED
        BY <2>1, <3>1, VerdictType, NextUserType DEF RecType
    <2> QED
      BY <1>6, <2>0, <2>1, <2>2 DEF RefreshAccepted, OwnedAt, Tied, BeingRevoked
  <1>7. CASE RefreshUnanswered
    <2> SUFFICES ASSUME NEW v \in Users, v \notin raced' PROVE OwnedAt(v)'
      BY DEF OwnersOK
    <2>0. v \in Users \ raced => OwnedAt(v)
      BY DEF OwnersOK
    <2> QED
      BY <1>7, <2>0, IdleType, NextUserType DEF Typed, TypeOK, OwnedAt, Tied, BeingRevoked,
         RefreshUnanswered
  <1>8. CASE StoreRotated
    <2> SUFFICES ASSUME NEW v \in Users, v \notin raced' PROVE OwnedAt(v)'
      BY DEF OwnersOK
    <2>0. v \in Users \ raced => OwnedAt(v)
      BY DEF OwnersOK
    <2>1. rec \in RecType /\ rec.user \in Users /\ rec.token \in Tokens /\ rec.keep \in BOOLEAN
      BY <1>8 DEF StoreRotated, Typed, TypeOK, RecType, Busy
    <2>2. rec.stage = "rotate" /\ rec'.stage \in {"check", "revoke"}
      BY <1>8, <2>1, VerdictType, NextUserType DEF StoreRotated
    <2>3. \A w \in Users : owners[w] # NoRecord => owners'[w] # NoRecord
      BY <1>8, <2>1, RecordType DEF StoreRotated, Typed
    <2>4. stored' = owners' \/ stored' = stored
      BY <1>8 DEF StoreRotated, Saved, NotSaved
    <2> QED
      BY <1>8, <2>0, <2>2, <2>3, <2>4 DEF StoreRotated, OwnedAt, Tied, BeingRevoked
  <1>9. CASE RevokePeers
    <2> SUFFICES ASSUME NEW v \in Users, v \notin raced' PROVE OwnedAt(v)'
      BY DEF OwnersOK
    <2>0. v \in Users \ raced => OwnedAt(v)
      BY DEF OwnersOK
    <2> QED
      BY <1>9, <2>0, IdleType, NextUserType DEF Typed, TypeOK, OwnedAt, Tied, BeingRevoked,
         RevokePeers
  <1>10. CASE RevokeFails
    <2> SUFFICES ASSUME NEW v \in Users, v \notin raced' PROVE OwnedAt(v)'
      BY DEF OwnersOK
    <2>0. v \in Users \ raced => OwnedAt(v)
      BY DEF OwnersOK
    <2> QED
      BY <1>10, <2>0, IdleType, NextUserType DEF Typed, TypeOK, OwnedAt, Tied, BeingRevoked,
         RevokeFails
  <1>11. CASE RevokeForget
    <2> SUFFICES ASSUME NEW v \in Users, v \notin raced' PROVE OwnedAt(v)'
      BY DEF OwnersOK
    <2>0. v \in Users \ raced => OwnedAt(v)
      BY DEF OwnersOK
    <2>1. rec' = [rec EXCEPT !.stage = "signout"] /\ rec.stage = "forget" /\ rec \in RecType
      BY <1>11 DEF RevokeForget, Typed, TypeOK
    <2>2. BeingRevoked(v)' <=> BeingRevoked(v)
      BY <2>1 DEF BeingRevoked, RecType
    <2>3. ~BeingRevoked(v) => owners'[v] = owners[v]
      BY <1>11, <2>1 DEF BeingRevoked, RevokeForget, Typed, TypeOK
    <2>4. stored' = owners' \/ stored' = stored
      BY <1>11 DEF RevokeForget, Saved, NotSaved
    <2> QED
      BY <1>11, <2>0, <2>2, <2>3, <2>4 DEF RevokeForget, OwnedAt, Tied
  <1>12. CASE RevokeSignOut
    <2> SUFFICES ASSUME NEW v \in Users, v \notin raced' PROVE OwnedAt(v)'
      BY DEF OwnersOK
    <2>0. v \in Users \ raced => OwnedAt(v)
      BY DEF OwnersOK
    <2>1. rec.stage = "signout" /\ rec.user \in Users /\ rec'.stage = "check"
      BY <1>12, NextUserType DEF RevokeSignOut, Typed, TypeOK, Busy
    <2>2. \A q \in Sids : session'[q].stage \in {"recorded", "open"} =>
              session'[q] = session[q] /\ (session[q].user = rec.user => session[q].stage # "open")
      BY <1>12, IdleType DEF RevokeSignOut
    <2>3. v \notin raced /\ peers' = peers /\ owners' = owners /\ stored' = stored /\ request' = request
      BY <1>12 DEF RevokeSignOut
    <2>4. CASE v = rec.user
      <3>1. ~InFlight(v) /\ peers[v] = 0
        BY <1>12, <2>0, <2>1, <2>3, <2>4 DEF RevokeSignOut, OwnedAt, BeingRevoked
      <3>2. ~Tied(v)'
        BY <2>2, <2>3, <2>4, <3>1 DEF InFlight, Tied
      <3> QED
        BY <2>1, <3>2 DEF OwnedAt, BeingRevoked
    <2>5. CASE v # rec.user
      BY <2>0, <2>1, <2>2, <2>3, <2>5 DEF OwnedAt, Tied, BeingRevoked
    <2> QED
      BY <2>4, <2>5
  <1> QED
    BY <1>1, <1>2, <1>3, <1>4, <1>5, <1>6, <1>7, <1>8, <1>9, <1>10, <1>11, <1>12 DEF
       Reconciler

LEMMA OwnedStep ==
    ASSUME Typed, OwnersOK, [Next]_vars
    PROVE  OwnersOK'
  <1>1. ASSUME NEW u \in Users, ChangeStatus(u) PROVE OwnersOK'
    BY <1>1 DEF ChangeStatus, OwnersOK, OwnedAt, Tied, BeingRevoked
  <1>2. CASE Restart
    <2> SUFFICES ASSUME NEW v \in Users, v \notin raced' PROVE OwnedAt(v)'
      BY DEF OwnersOK
    <2>0. v \in Users \ raced => OwnedAt(v)
      BY DEF OwnersOK
    <2>1. \A s \in Sids : request'[s] # v /\ session'[s].stage = "none"
      BY <1>2, NoneAssumption, IdleType DEF Restart
    <2>2. ~BeingRevoked(v)'
      BY <1>2, IdleType DEF Restart, BeingRevoked
    <2> QED
      BY <1>2, <2>0, <2>1, <2>2 DEF Restart, OwnedAt, Tied
  <1>3. CASE UNCHANGED vars
    BY <1>3 DEF vars, provider, OwnersOK, OwnedAt, Tied, BeingRevoked
  <1> QED
    BY <1>1, <1>2, <1>3, OwnedHandlers, OwnedReconciler DEF Next

-----------------------------------------------------------------------------
(* Tokens *)

\* A step that leaves the tokens sign-ins carry alone, and those tokens unique.
LEMMA SignInsKept ==
    ASSUME NEW v \in Users, SignInsAt(v),
           \A q \in Sids : Carries(q, v)' =>
               /\ Carries(q, v) /\ session'[q].token = session[q].token
               /\ session'[q].token \in valid'[v] \ {owners'[v], rec'.snap[v]}
               /\ rec'.stage = "rotate" /\ rec'.user = v => session'[q].token # rec'.token
    PROVE  SignInsAt(v)'
  BY DEF SignInsAt, At

\* Handlers keep TokensOK.
LEMMA TokensHandlers ==
    ASSUME Typed, TokensOK, Handlers
    PROVE  TokensOK'
  <1>1. ASSUME NEW s \in Sids, NEW u \in Users, CallbackExchange(s, u) PROVE TokensOK'
    <2> SUFFICES ASSUME NEW v \in Users, v \notin lost' PROVE TokensAt(v)'
      BY DEF TokensOK
    <2>0. TokensAt(v)
      BY <1>1 DEF TokensOK, CallbackExchange
    <2>1. PICK t \in Tokens :
              /\ \/ Issue(u, {}) /\ t = issued'[u]
                 \/ IssueNone /\ t = NoToken
              /\ session' = [session EXCEPT ![s] = [stage |-> "exchanged", user |-> u, token |-> t]]
      BY <1>1 DEF CallbackExchange
    <2>2. owners' = owners /\ stored' = stored /\ rec' = rec /\ unsaved' = unsaved
      BY <1>1 DEF CallbackExchange
    <2>3. session[s].stage = "none"
      BY <1>1, IdleType DEF CallbackExchange
    <2>4. /\ session'[s] = [stage |-> "exchanged", user |-> u, token |-> t]
          /\ \A q \in Sids : q # s => session'[q] = session[q]
      BY <2>1 DEF Typed, TypeOK
    <2>5. CASE IssueNone /\ t = NoToken
      <3>1. \A q \in Sids : Carries(q, v)' => Carries(q, v) /\ session'[q].token = session[q].token
        BY <2>4, <2>5 DEF Carries
      <3>2. RecordsAt(v)' /\ ReconcilerAt(v)'
        BY <2>0, <2>2, <2>5 DEF TokensAt, RecordsAt, ReconcilerAt, Good, At, IssueNone
      <3>3. SignInsAt(v)'
        BY <2>0, <2>2, <2>5, <3>1, SignInsKept DEF TokensAt, SignInsAt, At, IssueNone
      <3> QED
        BY <3>2, <3>3 DEF TokensAt
    <2>6. CASE Issue(u, {}) /\ t = issued'[u] /\ v = u
      <3>1. issued'[v] = issued[v] + 1 /\ valid'[v] = valid[v] \cup {issued[v] + 1} /\ issued[v] \in Nat
        BY <2>6, IssueType, BoundAssumption DEF Typed, TypeOK
      <3>2. RecordsAt(v)'
        <4>1. owners[v] \in Int /\ owners[v] <= issued[v] /\ valid[v] \subseteq 1 .. issued[v]
          BY <2>0, RecordsAreInts DEF TokensAt, RecordsAt, Typed
        <4> QED
          BY <2>0, <2>2, <3>1, <4>1 DEF TokensAt, RecordsAt, Good, At
      <3>3. rec.snap[v] \in Int /\ rec.snap[v] <= issued[v] /\ valid[v] \subseteq 1 .. issued[v]
          /\ owners[v] \in Int /\ owners[v] <= issued[v]
        BY <2>0, RecordsAreInts DEF TokensAt, RecordsAt, ReconcilerAt, Typed
      <3>4. ReconcilerAt(v)'
        BY <2>0, <2>2, <3>1, <3>3 DEF TokensAt, ReconcilerAt, At
      <3>5. SignInsAt(v)'
        <4>1. \A q \in Sids : Carries(q, v)' /\ q # s => Carries(q, v) /\ session'[q] = session[q]
          BY <2>4 DEF Carries
        <4>2. \A q \in Sids : Carries(q, v) =>
                  /\ session[q].token \in valid[v] \ {owners[v], rec.snap[v]}
                  /\ At("rotate", v) => session[q].token # rec.token
                  /\ \A p \in Sids : Carries(p, v) /\ session[p].token = session[q].token => p = q
          BY <2>0 DEF TokensAt, SignInsAt
        <4>3. session'[s].token = issued[v] + 1 /\ (At("rotate", v) => rec.token \in valid[v])
          BY <2>0, <2>4, <2>6, <3>1 DEF TokensAt, ReconcilerAt
        <4>4. \A k \in valid[v] \cup {owners[v], rec.snap[v]} : k # issued[v] + 1
          BY <3>1, <3>3
        <4>5. ASSUME NEW q \in Sids, Carries(q, v)'
              PROVE  /\ session'[q].token \in valid'[v] \ {owners'[v], rec'.snap[v]}
                     /\ At("rotate", v)' => session'[q].token # rec'.token
          <5>1. CASE q = s
            BY <2>2, <3>1, <4>3, <4>4, <5>1 DEF At
          <5>2. CASE q # s
            BY <2>2, <3>1, <4>1, <4>2, <4>5, <5>2 DEF At
          <5> QED
            BY <5>1, <5>2
        <4>6. ASSUME NEW q \in Sids, NEW p \in Sids, Carries(q, v)', Carries(p, v)',
                     session'[p].token = session'[q].token
              PROVE  p = q
          <5>1. \A k \in Sids : Carries(k, v)' /\ k # s => session'[k].token # issued[v] + 1
            BY <4>1, <4>2, <4>4
          <5>2. CASE q = s \/ p = s
            BY <4>3, <4>6, <5>1, <5>2
          <5>3. CASE q # s /\ p # s
            BY <4>1, <4>2, <4>6, <5>3
          <5> QED
            BY <5>2, <5>3
        <4> QED
          BY <4>5, <4>6 DEF SignInsAt
      <3> QED
        BY <3>2, <3>4, <3>5 DEF TokensAt
    <2>7. CASE Issue(u, {}) /\ v # u
      <3>1. issued'[v] = issued[v] /\ valid'[v] = valid[v]
        BY <2>7, IssueType DEF Typed
      <3>2. \A q \in Sids : Carries(q, v)' => Carries(q, v) /\ session'[q].token = session[q].token
        BY <2>4, <2>7 DEF Carries
      <3>3. RecordsAt(v)' /\ ReconcilerAt(v)'
        BY <2>0, <2>2, <3>1 DEF TokensAt, RecordsAt, ReconcilerAt, Good, At
      <3>4. SignInsAt(v)'
        BY <2>0, <2>2, <3>1, <3>2, SignInsKept DEF TokensAt, SignInsAt, At
      <3> QED
        BY <3>3, <3>4 DEF TokensAt
    <2> QED
      BY <2>1, <2>5, <2>6, <2>7
  <1>2. ASSUME NEW s \in Sids, CallbackRecord(s) PROVE TokensOK'
    <2> SUFFICES ASSUME NEW v \in Users, v \notin lost' PROVE TokensAt(v)'
      BY DEF TokensOK
    <2>0. TokensAt(v)
      BY <1>2 DEF TokensOK, CallbackRecord
    <2>1. /\ session[s].user \in Users /\ session[s].token \in Tokens
          /\ session[s].stage = "exchanged" /\ rec' = rec /\ issued' = issued /\ valid' = valid
      BY <1>2 DEF Typed, TypeOK, SessionType, CallbackRecord, provider
    <2>2. /\ session[s].token # NoToken => owners'[session[s].user] = session[s].token
          /\ session[s].token = NoToken => owners'[session[s].user] \in {NoToken, owners[session[s].user]}
          /\ \A w \in Users : w # session[s].user => owners'[w] = owners[w]
      <3>1. owners' = WithRecord(session[s].user, session[s].token)
        BY <1>2 DEF CallbackRecord
      <3> HIDE DEF WithRecord
      <3> QED
        BY <2>1, <3>1, RecordType DEF Typed
    <2>3. \A q \in Sids : Carries(q, v)' => Carries(q, v) /\ session'[q] = session[q] /\ q # s
      <3>1. session'[s].stage # "exchanged" /\ \A q \in Sids : q # s => session'[q] = session[q]
        BY <1>2, <2>1, IdleType DEF CallbackRecord, Typed, TypeOK, SessionType
      <3> QED
        BY <3>1 DEF Carries
    <2>4. v = session[s].user /\ session[s].token # NoToken => Carries(s, v)
      BY <2>1 DEF Carries
    <2>5. NoToken <= issued[v] /\ NoToken \notin valid[v] /\ valid[v] \subseteq 1 .. issued[v] /\ issued[v] \in Nat
      BY <2>0, BoundAssumption DEF TokensAt, RecordsAt, NoToken, Typed, TypeOK
    <2>6. owners'[v] = owners[v] \/ owners'[v] = NoToken
            \/ (owners'[v] = session[s].token /\ Carries(s, v))
      BY <2>2, <2>4
    <2>7. RecordsAt(v)'
      <3>1. owners'[v] <= issued[v] /\ (~At("rotate", v) => Good(v, owners'[v]))
        <4>1. Carries(s, v) => session[s].token \in valid[v]
          BY <2>0 DEF TokensAt, SignInsAt
        <4>2. \A k \in valid[v] : k <= issued[v]
          BY <2>5
        <4> QED
          BY <2>0, <2>5, <2>6, <4>1, <4>2 DEF TokensAt, RecordsAt, Good
      <3>2. v \notin unsaved' /\ ~At("rotate", v) => Good(v, stored'[v])
        <4>1. stored' = owners' \/ (stored' = stored /\ unsaved' = unsaved)
          BY <1>2 DEF CallbackRecord, Saved, NotSaved
        <4> QED
          BY <2>0, <3>1, <4>1 DEF TokensAt, RecordsAt
      <3> QED
        BY <2>0, <2>1, <3>1, <3>2 DEF TokensAt, RecordsAt, Good, At
    <2>8. ReconcilerAt(v)'
      BY <2>0, <2>1 DEF TokensAt, ReconcilerAt, At
    <2>9. SignInsAt(v)'
      <3>1. \A q \in Sids : Carries(q, v) /\ q # s => session[q].token \in valid[v] \ {owners'[v], rec.snap[v]}
        BY <2>0, <2>5, <2>6 DEF TokensAt, SignInsAt
      <3> QED
        BY <2>0, <2>1, <2>3, <3>1, SignInsKept DEF TokensAt, SignInsAt, At
    <2> QED
      BY <2>7, <2>8, <2>9 DEF TokensAt
  <1>3. ASSUME NEW s \in Sids, CallbackOpen(s) PROVE TokensOK'
    <2> SUFFICES ASSUME NEW v \in Users, v \notin lost' PROVE TokensAt(v)'
      BY DEF TokensOK
    <2>0. TokensAt(v)
      BY <1>3 DEF TokensOK, CallbackOpen
    <2>9. \A q \in Sids : Carries(q, v)' => Carries(q, v) /\ session'[q].token = session[q].token
      BY <1>3 DEF CallbackOpen, Carries, Typed, TypeOK, SessionType
    <2> QED
      <3>1. RecordsAt(v)' /\ ReconcilerAt(v)'
        BY <1>3, <2>0 DEF TokensAt, RecordsAt, ReconcilerAt, Good, At, provider, CallbackOpen
      <3>2. SignInsAt(v)'
        BY <1>3, <2>0, <2>9, SignInsKept DEF TokensAt, SignInsAt, At, provider, CallbackOpen
      <3> QED
        BY <3>1, <3>2 DEF TokensAt
  <1>4. ASSUME NEW s \in Sids, SessionEnds(s) PROVE TokensOK'
    <2> SUFFICES ASSUME NEW v \in Users, v \notin lost' PROVE TokensAt(v)'
      BY DEF TokensOK
    <2>0. TokensAt(v)
      BY <1>4 DEF TokensOK, SessionEnds
    <2>9. \A q \in Sids : Carries(q, v)' => Carries(q, v) /\ session'[q].token = session[q].token
      BY <1>4, IdleType DEF SessionEnds, Carries, Typed, TypeOK
    <2> QED
      <3>1. RecordsAt(v)' /\ ReconcilerAt(v)'
        BY <1>4, <2>0 DEF TokensAt, RecordsAt, ReconcilerAt, Good, At, provider, SessionEnds
      <3>2. SignInsAt(v)'
        BY <1>4, <2>0, <2>9, SignInsKept DEF TokensAt, SignInsAt, At, provider, SessionEnds
      <3> QED
        BY <3>1, <3>2 DEF TokensAt
  <1>5. ASSUME NEW s \in Sids, Require(s) PROVE TokensOK'
    <2> SUFFICES ASSUME NEW v \in Users, v \notin lost' PROVE TokensAt(v)'
      BY DEF TokensOK
    <2>0. TokensAt(v)
      BY <1>5 DEF TokensOK, Require
    <2> QED
      BY <1>5, <2>0 DEF Typed, TypeOK, TokensAt, RecordsAt, ReconcilerAt, SignInsAt, Carries,
         Good, At, Require, provider
  <1>6. ASSUME NEW s \in Sids, CreateMine(s) PROVE TokensOK'
    <2> SUFFICES ASSUME NEW v \in Users, v \notin lost' PROVE TokensAt(v)'
      BY DEF TokensOK
    <2>0. TokensAt(v)
      BY <1>6 DEF TokensOK, CreateMine
    <2> QED
      BY <1>6, <2>0 DEF Typed, TypeOK, TokensAt, RecordsAt, ReconcilerAt, SignInsAt, Carries,
         Good, At, CreateMine, provider, Respond
  <1>7. ASSUME NEW s \in Sids, DeleteMine(s) PROVE TokensOK'
    <2> SUFFICES ASSUME NEW v \in Users, v \notin lost' PROVE TokensAt(v)'
      BY DEF TokensOK
    <2>0. TokensAt(v)
      BY <1>7 DEF TokensOK, DeleteMine
    <2> QED
      BY <1>7, <2>0 DEF Typed, TypeOK, TokensAt, RecordsAt, ReconcilerAt, SignInsAt, Carries,
         Good, At, DeleteMine, provider, Respond
  <1>8. ASSUME NEW s \in Sids, RequestChangesNothing(s) PROVE TokensOK'
    <2> SUFFICES ASSUME NEW v \in Users, v \notin lost' PROVE TokensAt(v)'
      BY DEF TokensOK
    <2>0. TokensAt(v)
      BY <1>8 DEF TokensOK, RequestChangesNothing
    <2> QED
      BY <1>8, <2>0 DEF Typed, TypeOK, TokensAt, RecordsAt, ReconcilerAt, SignInsAt, Carries,
         Good, At, RequestChangesNothing, provider, Respond
  <1>9. ASSUME NEW u \in Users, AdminDelete(u) PROVE TokensOK'
    <2> SUFFICES ASSUME NEW v \in Users, v \notin lost' PROVE TokensAt(v)'
      BY DEF TokensOK
    <2>0. TokensAt(v)
      BY <1>9 DEF TokensOK, AdminDelete
    <2> QED
      BY <1>9, <2>0 DEF Typed, TypeOK, TokensAt, RecordsAt, ReconcilerAt, SignInsAt, Carries,
         Good, At, AdminDelete, provider
  <1> QED
    BY <1>1, <1>2, <1>3, <1>4, <1>5, <1>6, <1>7, <1>8, <1>9 DEF Handlers

\* The reconciler keeps TokensOK.
LEMMA TokensReconciler ==
    ASSUME Typed, TokensOK, Reconciler
    PROVE  TokensOK'
  <1>1. CASE ReconcileExpired
    <2> SUFFICES ASSUME NEW v \in Users, v \notin lost' PROVE TokensAt(v)'
      BY DEF TokensOK
    <2>0. TokensAt(v)
      BY <1>1 DEF TokensOK, ReconcileExpired
    <2>8. RecordsAt(v)' /\ ReconcilerAt(v)'
      BY <1>1, <2>0 DEF TokensAt, RecordsAt, ReconcilerAt, Good, At, provider, Busy, Typed, TypeOK, RecType, ReconcileExpired
    <2>9. SignInsAt(v)'
      BY <1>1, <2>0, SignInsKept DEF TokensAt, SignInsAt, Carries, At, provider, Typed, TypeOK, RecType, ReconcileExpired
    <2> QED
      BY <2>8, <2>9 DEF TokensAt
  <1>2. CASE ReconcileSnapshot
    <2> SUFFICES ASSUME NEW v \in Users, v \notin lost' PROVE TokensAt(v)'
      BY DEF TokensOK
    <2>0. TokensAt(v)
      BY <1>2 DEF TokensOK, ReconcileSnapshot
    <2>1. rec'.stage = "check" /\ rec'.snap = owners /\ rec'.todo = {w \in Users : owners[w] # NoRecord}
      BY <1>2 DEF ReconcileSnapshot, Typed, TypeOK, RecType
    <2>2. rec.stage = "snapshot"
      BY <1>2 DEF ReconcileSnapshot
    <2>8. RecordsAt(v)' /\ ReconcilerAt(v)'
      BY <1>2, <2>0, <2>1, <2>2 DEF TokensAt, RecordsAt, ReconcilerAt, Good, At, Busy, provider, ReconcileSnapshot
    <2>9. SignInsAt(v)'
      BY <1>2, <2>0, <2>1, SignInsKept DEF TokensAt, SignInsAt, Carries, At, provider, ReconcileSnapshot
    <2> QED
      BY <2>8, <2>9 DEF TokensAt
  <1>3. ASSUME NEW u \in Users, ReconcileCheck(u) PROVE TokensOK'
    <2> SUFFICES ASSUME NEW v \in Users, v \notin lost' PROVE TokensAt(v)'
      BY DEF TokensOK
    <2>0. TokensAt(v)
      BY <1>3 DEF TokensOK, ReconcileCheck
    <2>1. /\ rec'.snap = rec.snap /\ rec'.todo = rec.todo \ {u} /\ rec.stage = "check"
          /\ \/ rec'.stage = "check"
             \/ rec'.stage = "refresh" /\ rec'.user = u /\ rec.snap[u] # NoToken /\ u \in rec.todo
      BY <1>3 DEF ReconcileCheck, Typed, TypeOK, RecType
    <2>8. RecordsAt(v)' /\ ReconcilerAt(v)'
      BY <1>3, <2>0, <2>1 DEF TokensAt, RecordsAt, ReconcilerAt, Good, At, Busy, provider, ReconcileCheck
    <2>9. SignInsAt(v)'
      BY <1>3, <2>0, <2>1, SignInsKept DEF TokensAt, SignInsAt, Carries, At, provider, ReconcileCheck
    <2> QED
      BY <2>8, <2>9 DEF TokensAt
  <1>4. CASE ReconcileDone
    <2> SUFFICES ASSUME NEW v \in Users, v \notin lost' PROVE TokensAt(v)'
      BY DEF TokensOK
    <2>0. TokensAt(v)
      BY <1>4 DEF TokensOK, ReconcileDone
    <2>1. rec'.stage = "idle" /\ rec'.todo = {} /\ rec'.snap[v] = NoRecord /\ rec.stage = "check"
      BY <1>4 DEF ReconcileDone, Idle
    <2>2. NoRecord <= issued[v] /\ NoRecord \notin valid[v]
      <3>1. issued[v] \in Nat /\ valid[v] \subseteq Nat
        BY BoundAssumption DEF Typed, TypeOK
      <3> QED
        BY <3>1 DEF NoRecord
    <2>8. RecordsAt(v)' /\ ReconcilerAt(v)'
      BY <1>4, <2>0, <2>1, <2>2 DEF TokensAt, RecordsAt, ReconcilerAt, Good, At, Busy, provider, ReconcileDone
    <2>9. SignInsAt(v)'
      BY <1>4, <2>0, <2>1, <2>2, SignInsKept DEF TokensAt, SignInsAt, Carries, At, provider, ReconcileDone
    <2> QED
      BY <2>8, <2>9 DEF TokensAt
  <1>5. CASE RefreshRejected
    <2> SUFFICES ASSUME NEW v \in Users, v \notin lost' PROVE TokensAt(v)'
      BY DEF TokensOK
    <2>0. TokensAt(v)
      BY <1>5 DEF TokensOK, RefreshRejected
    <2>1. /\ rec'.snap = rec.snap /\ rec'.todo = rec.todo
          /\ rec'.stage = "check" \/ (rec'.stage = "revoke" /\ rec'.user = rec.user)
          /\ rec.stage = "refresh"
      BY <1>5, VerdictType DEF Typed, TypeOK, RecType, RefreshRejected
    <2>8. RecordsAt(v)' /\ ReconcilerAt(v)'
      BY <1>5, <2>0, <2>1 DEF TokensAt, RecordsAt, ReconcilerAt, Good, At, Busy, provider, RefreshRejected
    <2>9. SignInsAt(v)'
      BY <1>5, <2>0, <2>1, SignInsKept DEF TokensAt, SignInsAt, Carries, At, provider, RefreshRejected
    <2> QED
      BY <2>8, <2>9 DEF TokensAt
  <1>6. CASE RefreshAccepted
    <2> SUFFICES ASSUME NEW v \in Users, v \notin lost' PROVE TokensAt(v)'
      BY DEF TokensOK
    <2>0. TokensAt(v)
      BY <1>6 DEF TokensOK, RefreshAccepted
    <2>1. rec \in RecType /\ rec.user \in Users /\ rec.stage = "refresh"
      BY <1>6 DEF RefreshAccepted, Typed, TypeOK, Busy
    <2>2. owners' = owners /\ stored' = stored /\ session' = session /\ unsaved' = unsaved
      BY <1>6 DEF RefreshAccepted
    <2>3. PICK keep \in BOOLEAN :
              \/ /\ Rotates
                 /\ Issue(rec.user, {rec.snap[rec.user]})
                 /\ rec' = [rec EXCEPT !.stage = "rotate", !.keep = keep, !.token = issued'[rec.user]]
              \/ rec' = Verdict(keep) /\ IssueNone
      BY <1>6 DEF RefreshAccepted
    <2>4. CASE rec' = Verdict(keep) /\ IssueNone
      <3>1. /\ rec'.snap = rec.snap /\ rec'.todo = rec.todo
            /\ rec'.stage = "check" \/ (rec'.stage = "revoke" /\ rec'.user = rec.user)
        BY <2>1, <2>4, VerdictType, NextUserType
      <3>2. RecordsAt(v)' /\ ReconcilerAt(v)'
        BY <2>0, <2>1, <2>2, <2>4, <3>1 DEF TokensAt, RecordsAt, ReconcilerAt, Good, At, Busy, IssueNone
      <3>3. SignInsAt(v)'
        BY <2>0, <2>1, <2>2, <2>4, <3>1, SignInsKept DEF TokensAt, SignInsAt, Carries, At, IssueNone
      <3> QED
        BY <3>2, <3>3 DEF TokensAt
    <2>5. CASE /\ Rotates
               /\ Issue(rec.user, {rec.snap[rec.user]})
               /\ rec' = [rec EXCEPT !.stage = "rotate", !.keep = keep, !.token = issued'[rec.user]]
      <3>1. /\ rec'.stage = "rotate" /\ rec'.user = rec.user /\ rec'.todo = rec.todo
            /\ rec'.snap = rec.snap /\ rec'.token = issued'[rec.user]
        BY <2>1, <2>5 DEF RecType
      <3>2. CASE v = rec.user
        <4>1. /\ issued[v] \in Nat /\ issued'[v] = issued[v] + 1
              /\ valid'[v] = (valid[v] \ {rec.snap[v]}) \cup {issued[v] + 1}
          BY <2>5, <3>2, IssueType, BoundAssumption DEF Typed, TypeOK
        <4>2. /\ rec.snap[v] \in Int /\ rec.snap[v] <= issued[v] /\ valid[v] \subseteq 1 .. issued[v]
              /\ owners[v] \in Int /\ owners[v] <= issued[v]
          BY <2>0, RecordsAreInts DEF TokensAt, RecordsAt, ReconcilerAt, Typed
        <4>3. RecordsAt(v)'
          BY <2>2, <2>5, <3>1, <3>2, <4>1, <4>2 DEF RecordsAt, At
        <4>4. ReconcilerAt(v)'
          BY <2>0, <2>1, <2>5, <3>1, <3>2, <4>1, <4>2 DEF TokensAt, ReconcilerAt, At, Busy
        <4>5. SignInsAt(v)'
          <5>1. \A q \in Sids : Carries(q, v) =>
                    /\ session[q].token \in valid[v] \ {owners[v], rec.snap[v]}
                    /\ session[q].token # issued[v] + 1
            BY <2>0, <4>1, <4>2 DEF TokensAt, SignInsAt
          <5>2. \A q \in Sids : Carries(q, v)' <=> Carries(q, v)
            BY <2>2 DEF Carries
          <5> QED
            BY <2>0, <2>2, <3>1, <3>2, <4>1, <5>1, <5>2, SignInsKept DEF TokensAt
        <4> QED
          BY <4>3, <4>4, <4>5 DEF TokensAt
      <3>3. CASE v # rec.user
        <4>1. issued'[v] = issued[v] /\ valid'[v] = valid[v]
          BY <2>1, <2>5, <3>3, IssueType DEF Typed
        <4>2. RecordsAt(v)' /\ ReconcilerAt(v)'
          BY <2>0, <2>1, <2>2, <3>1, <3>3, <4>1 DEF TokensAt, RecordsAt, ReconcilerAt, Good, At, Busy
        <4>3. SignInsAt(v)'
          BY <2>0, <2>1, <2>2, <3>1, <3>3, <4>1, SignInsKept DEF TokensAt, SignInsAt, Carries, At
        <4> QED
          BY <4>2, <4>3 DEF TokensAt
      <3> QED
        BY <3>2, <3>3
    <2> QED
      BY <2>3, <2>4, <2>5
  <1>7. CASE RefreshUnanswered
    <2> SUFFICES ASSUME NEW v \in Users, v \notin lost' PROVE TokensAt(v)'
      BY DEF TokensOK
    <2>0. TokensAt(v)
      BY <1>7 DEF TokensOK, RefreshUnanswered
    <2>1. /\ rec'.snap = rec.snap /\ rec'.todo = rec.todo
          /\ rec'.stage = "check" /\ rec.stage = "refresh"
      BY <1>7, NextUserType DEF RefreshUnanswered, Typed, TypeOK
    <2>2. issued'[v] = issued[v] /\ valid'[v] = valid[v]
      <3>1. CASE IssueNone
        BY <3>1 DEF IssueNone
      <3>2. CASE Issue(rec.user, {rec.snap[rec.user]}) /\ lost' = lost \union {rec.user}
        <4>1. rec.user \in Users /\ v # rec.user
          BY <1>7, <3>2 DEF RefreshUnanswered, Typed, Busy
        <4> QED
          BY <3>2, <4>1, IssueType DEF Typed
      <3> QED
        BY <1>7, <3>1, <3>2 DEF RefreshUnanswered
    <2>8. RecordsAt(v)' /\ ReconcilerAt(v)'
      BY <1>7, <2>0, <2>1, <2>2 DEF TokensAt, RecordsAt, ReconcilerAt, Good, At, Busy, RefreshUnanswered
    <2>9. SignInsAt(v)'
      BY <1>7, <2>0, <2>1, <2>2, SignInsKept DEF TokensAt, SignInsAt, Carries, At, RefreshUnanswered
    <2> QED
      BY <2>8, <2>9 DEF TokensAt
  <1>8. CASE StoreRotated
    <2> SUFFICES ASSUME NEW v \in Users, v \notin lost' PROVE TokensAt(v)'
      BY DEF TokensOK
    <2>0. TokensAt(v)
      BY <1>8 DEF TokensOK, StoreRotated
    <2>1. /\ rec \in RecType /\ rec.user \in Users /\ rec.token \in Tokens /\ rec.keep \in BOOLEAN
          /\ rec.stage = "rotate"
      BY <1>8 DEF StoreRotated, Typed, TypeOK, RecType, Busy
    <2>2. session' = session /\ issued' = issued /\ valid' = valid
      BY <1>8 DEF StoreRotated, provider
    <2>3. /\ rec'.snap = rec.snap /\ rec'.todo = rec.todo
          /\ rec'.stage = "check" \/ (rec'.stage = "revoke" /\ rec'.user = rec.user)
      BY <1>8, <2>1, VerdictType, NextUserType DEF StoreRotated
    <2>4. v = rec.user => rec.token \in valid[v] /\ rec.token # NoToken
      <3>1. valid[v] \subseteq 1 .. MaxTokens
        BY DEF Typed, TypeOK
      <3> QED
        BY <2>0, <2>1, <3>1 DEF TokensAt, ReconcilerAt, At, NoToken
    <2>5. stored' = owners' \/ (stored' = stored /\ unsaved' = unsaved \cup {rec.user})
      BY <1>8 DEF StoreRotated, Saved, NotSaved
    <2>6. /\ v = rec.user => owners'[v] = rec.token
          /\ v # rec.user => owners'[v] = owners[v]
      <3>1. owners' = WithRecord(rec.user, rec.token)
        BY <1>8 DEF StoreRotated
      <3> HIDE DEF WithRecord
      <3> QED
        BY <2>1, <2>4, <3>1, RecordType DEF Typed
    <2>7. RecordsAt(v)' /\ ReconcilerAt(v)'
      <3>1. \A k \in valid[v] : k <= issued[v]
        BY <2>0, BoundAssumption DEF TokensAt, RecordsAt, Typed, TypeOK
      <3>2. owners'[v] <= issued[v] /\ Good(v, owners'[v])
        BY <2>0, <2>1, <2>4, <2>6, <3>1 DEF TokensAt, RecordsAt, Good, At
      <3>3. v \notin unsaved' => Good(v, stored'[v])
        BY <2>0, <2>1, <2>5, <3>2 DEF TokensAt, RecordsAt, At
      <3>4. RecordsAt(v)'
        BY <2>0, <2>2, <3>2, <3>3 DEF TokensAt, RecordsAt, Good
      <3>5. ReconcilerAt(v)'
        BY <2>0, <2>1, <2>2, <2>3 DEF TokensAt, ReconcilerAt, At, Busy
      <3> QED
        BY <3>4, <3>5
    <2>8. SignInsAt(v)'
      BY <2>0, <2>1, <2>2, <2>3, <2>6, SignInsKept DEF TokensAt, SignInsAt, Carries, At
    <2> QED
      BY <2>7, <2>8 DEF TokensAt
  <1>9. CASE RevokePeers
    <2> SUFFICES ASSUME NEW v \in Users, v \notin lost' PROVE TokensAt(v)'
      BY DEF TokensOK
    <2>0. TokensAt(v)
      BY <1>9 DEF TokensOK, RevokePeers
    <2>8. RecordsAt(v)' /\ ReconcilerAt(v)'
      BY <1>9, <2>0 DEF TokensAt, RecordsAt, ReconcilerAt, Good, At, provider, Busy, Typed, TypeOK, RecType, RevokePeers
    <2>9. SignInsAt(v)'
      BY <1>9, <2>0, SignInsKept DEF TokensAt, SignInsAt, Carries, At, provider, Typed, TypeOK, RecType, RevokePeers
    <2> QED
      BY <2>8, <2>9 DEF TokensAt
  <1>10. CASE RevokeFails
    <2> SUFFICES ASSUME NEW v \in Users, v \notin lost' PROVE TokensAt(v)'
      BY DEF TokensOK
    <2>0. TokensAt(v)
      BY <1>10 DEF TokensOK, RevokeFails
    <2>1. /\ rec'.snap = rec.snap /\ rec'.todo = rec.todo
          /\ rec'.stage = "check" \/ (rec'.stage = "revoke" /\ rec'.user = rec.user)
          /\ rec.stage = "revoke"
      BY <1>10, NextUserType DEF Typed, TypeOK, RecType, RevokeFails
    <2>8. RecordsAt(v)' /\ ReconcilerAt(v)'
      BY <1>10, <2>0, <2>1 DEF TokensAt, RecordsAt, ReconcilerAt, Good, At, Busy, provider, RevokeFails
    <2>9. SignInsAt(v)'
      BY <1>10, <2>0, <2>1, SignInsKept DEF TokensAt, SignInsAt, Carries, At, provider, RevokeFails
    <2> QED
      BY <2>8, <2>9 DEF TokensAt
  <1>11. CASE RevokeForget
    <2> SUFFICES ASSUME NEW v \in Users, v \notin lost' PROVE TokensAt(v)'
      BY DEF TokensOK
    <2>0. TokensAt(v)
      BY <1>11 DEF TokensOK, RevokeForget
    <2>1. /\ rec'.snap = rec.snap /\ rec'.todo = rec.todo /\ rec'.user = rec.user
          /\ rec'.stage = "signout" /\ rec.stage = "forget" /\ rec.user \in Users
      BY <1>11 DEF RevokeForget, Typed, TypeOK, RecType, Busy
    <2>2. owners'[v] = owners[v] \/ owners'[v] = NoRecord
      BY <1>11, <2>1 DEF RevokeForget, Typed, TypeOK
    <2>3. stored' = owners' \/ (stored' = stored /\ unsaved' = unsaved)
      BY <1>11 DEF RevokeForget, Saved, NotSaved
    <2>4. session' = session /\ issued' = issued /\ valid' = valid
      BY <1>11 DEF RevokeForget, provider
    <2>5. NoRecord <= issued[v] /\ NoRecord \notin valid[v]
      <3>1. issued[v] \in Nat /\ valid[v] \subseteq 1 .. MaxTokens
        BY BoundAssumption DEF Typed, TypeOK
      <3> QED
        BY <3>1 DEF NoRecord
    <2>6. owners'[v] <= issued[v] /\ Good(v, owners'[v])
      BY <2>0, <2>1, <2>2, <2>5 DEF TokensAt, RecordsAt, Good, At
    <2>7. RecordsAt(v)'
      BY <2>0, <2>1, <2>3, <2>4, <2>6 DEF TokensAt, RecordsAt, Good, At
    <2>8. ReconcilerAt(v)'
      BY <2>0, <2>1, <2>4 DEF TokensAt, ReconcilerAt, At, Busy
    <2>9. SignInsAt(v)'
      BY <2>0, <2>1, <2>2, <2>4, <2>5, SignInsKept DEF TokensAt, SignInsAt, Carries, At
    <2> QED
      BY <2>7, <2>8, <2>9 DEF TokensAt
  <1>12. CASE RevokeSignOut
    <2> SUFFICES ASSUME NEW v \in Users, v \notin lost' PROVE TokensAt(v)'
      BY DEF TokensOK
    <2>0. TokensAt(v)
      BY <1>12 DEF TokensOK, RevokeSignOut
    <2>1. /\ rec'.snap = rec.snap /\ rec'.todo = rec.todo
          /\ rec'.stage = "check" \/ (rec'.stage = "revoke" /\ rec'.user = rec.user)
          /\ rec.stage = "signout"
      BY <1>12, NextUserType DEF Typed, TypeOK, RecType, RevokeSignOut
    <2>2. \A q \in Sids : Carries(q, v)' => Carries(q, v) /\ session'[q] = session[q]
      BY <1>12, IdleType DEF RevokeSignOut, Carries
    <2>8. RecordsAt(v)' /\ ReconcilerAt(v)'
      BY <1>12, <2>0, <2>1 DEF TokensAt, RecordsAt, ReconcilerAt, Good, At, Busy, provider, RevokeSignOut
    <2>9. SignInsAt(v)'
      BY <1>12, <2>0, <2>1, <2>2, SignInsKept DEF TokensAt, SignInsAt, At, provider, RevokeSignOut
    <2> QED
      BY <2>8, <2>9 DEF TokensAt
  <1> QED
    BY <1>1, <1>2, <1>3, <1>4, <1>5, <1>6, <1>7, <1>8, <1>9, <1>10, <1>11, <1>12 DEF
       Reconciler

LEMMA TokensStep ==
    ASSUME Typed, TokensOK, [Next]_vars
    PROVE  TokensOK'
  <1>1. ASSUME NEW u \in Users, ChangeStatus(u) PROVE TokensOK'
    <2> SUFFICES ASSUME NEW v \in Users, v \notin lost' PROVE TokensAt(v)'
      BY DEF TokensOK
    <2>0. TokensAt(v)
      BY <1>1 DEF TokensOK, ChangeStatus
    <2> QED
      BY <1>1, <2>0 DEF ChangeStatus, TokensAt, RecordsAt, ReconcilerAt, SignInsAt, Carries, Good, At
  <1>2. CASE Restart
    <2> SUFFICES ASSUME NEW v \in Users, v \notin lost' PROVE TokensAt(v)'
      BY DEF TokensOK
    <2>1. TokensAt(v) /\ v \notin unsaved /\ ~At("rotate", v)
      BY <1>2 DEF Restart, TokensOK, At
    <2>2. /\ owners' = stored /\ stored' = stored /\ issued' = issued /\ valid' = valid
          /\ rec'.stage = "idle" /\ rec'.todo = {} /\ rec'.snap[v] = NoRecord
      BY <1>2 DEF Restart, Idle, provider
    <2>3. issued[v] \in Nat /\ valid[v] \subseteq 1 .. issued[v] /\ Good(v, stored[v])
      BY <2>1, BoundAssumption DEF TokensAt, RecordsAt, Typed, TypeOK
    <2>4. stored[v] <= issued[v] /\ NoRecord <= issued[v]
      BY <2>3 DEF Good, NoToken, NoRecord
    <2>5. RecordsAt(v)' /\ ReconcilerAt(v)'
      BY <2>2, <2>3, <2>4 DEF RecordsAt, ReconcilerAt, Good, At, Busy
    <2>6. \A s \in Sids : ~Carries(s, v)'
      BY <1>2, IdleType DEF Restart, Carries
    <2> QED
      BY <2>5, <2>6 DEF TokensAt, SignInsAt
  <1>3. CASE UNCHANGED vars
    BY <1>3 DEF vars, provider, TokensOK, TokensAt, RecordsAt, ReconcilerAt, SignInsAt,
                Carries, Good, At
  <1> QED
    BY <1>1, <1>2, <1>3, TokensHandlers, TokensReconciler DEF Next

-----------------------------------------------------------------------------
(* Members *)

\* Only the reconciler acts on members, and where the tokens are sound the provider
\* vouches for them.
LEMMA MembersReconciler ==
    ASSUME Typed, TokensOK, MembersOK, Reconciler
    PROVE  MembersOK'
  <1> SUFFICES ASSUME NEW v \in Users, v \notin left' PROVE MemberAt(v)'
    BY DEF MembersOK
  <1>1. left' = left /\ status' = status
    BY DEF Reconciler, ReconcileExpired, ReconcileSnapshot, ReconcileCheck, ReconcileDone,
           RefreshRejected, RefreshAccepted, RefreshUnanswered, StoreRotated, RevokePeers,
           RevokeFails, RevokeForget, RevokeSignOut, provider
  <1>2. MemberAt(v)
    BY <1>1 DEF MembersOK
  <1> SUFFICES ASSUME v \notin lost'
               PROVE  /\ ~(rec'.user = v /\ rec'.stage \in {"revoke", "forget", "signout"})
                      /\ rec'.stage = "rotate" /\ rec'.user = v => rec'.keep
    BY <1>1, <1>2 DEF MemberAt, At
  <1>3. v \notin lost
    BY DEF Reconciler, ReconcileExpired, ReconcileSnapshot, ReconcileCheck, ReconcileDone,
           RefreshRejected, RefreshAccepted, RefreshUnanswered, StoreRotated, RevokePeers,
           RevokeFails, RevokeForget, RevokeSignOut
  <1>4. /\ rec \in RecType /\ TokensAt(v) /\ status[v] = "member"
        /\ ~(rec.user = v /\ rec.stage \in {"revoke", "forget", "signout"})
        /\ At("rotate", v) => rec.keep
    BY <1>2, <1>3 DEF TokensOK, MemberAt, Typed, TypeOK
  <1>5. rec.stage = "refresh" /\ rec.user = v => TokenAccepted(v)
    <2>1. v \in Users /\ NoRecord \notin valid[v]
      BY DEF Typed, TypeOK, NoRecord
    <2> QED
      BY <1>4, <2>1 DEF TokensAt, ReconcilerAt, At, TokenAccepted
  <1>6. CASE ReconcileExpired \/ ReconcileSnapshot
    BY <1>4, <1>6 DEF ReconcileExpired, ReconcileSnapshot, RecType
  <1>7. CASE ReconcileDone
    BY <1>7, IdleType DEF ReconcileDone
  <1>8. ASSUME NEW u \in Users, ReconcileCheck(u)
        PROVE  rec'.stage \in {"check", "refresh"}
    BY <1>4, <1>8 DEF ReconcileCheck, RecType
  <1>9. CASE RefreshRejected
    <2>1. rec.user # v
      BY <1>5, <1>9 DEF RefreshRejected
    <2> QED
      BY <1>4, <1>9, <2>1, VerdictType DEF RefreshRejected
  <1>10. CASE RefreshAccepted
    <2>1. PICK keep \in BOOLEAN :
              /\ keep = (status[rec.user] = "member") \/ keep
              /\ \/ rec' = [rec EXCEPT !.stage = "rotate", !.keep = keep, !.token = issued'[rec.user]]
                 \/ rec' = Verdict(keep)
      BY <1>10 DEF RefreshAccepted
    <2>2. rec.user = v => keep
      BY <1>4, <2>1
    <2>3. CASE rec' = [rec EXCEPT !.stage = "rotate", !.keep = keep, !.token = issued'[rec.user]]
      BY <1>4, <2>2, <2>3 DEF RecType
    <2>4. CASE rec' = Verdict(keep)
      BY <1>4, <2>2, <2>4, VerdictType, NextUserType
    <2> QED
      BY <2>1, <2>3, <2>4
  <1>11. CASE RefreshUnanswered
    BY <1>4, <1>11, NextUserType DEF RefreshUnanswered
  <1>12. CASE StoreRotated
    <2>1. rec.keep \in BOOLEAN /\ rec.stage = "rotate" /\ rec' = Verdict(rec.keep)
      BY <1>4, <1>12 DEF StoreRotated, RecType
    <2>2. CASE rec.keep
      BY <1>4, <2>1, <2>2, VerdictType, NextUserType
    <2>3. CASE ~rec.keep
      BY <1>4, <2>1, <2>3, VerdictType DEF At
    <2> QED
      BY <2>2, <2>3
  <1>13. CASE RevokePeers \/ RevokeForget
    BY <1>4, <1>13 DEF RevokePeers, RevokeForget, RecType
  <1>14. CASE RevokeFails \/ RevokeSignOut
    BY <1>4, <1>14, NextUserType DEF RevokeFails, RevokeSignOut
  <1> QED
    BY <1>6, <1>7, <1>8, <1>9, <1>10, <1>11, <1>12, <1>13, <1>14 DEF Reconciler

LEMMA MembersStep ==
    ASSUME Typed, TokensOK, MembersOK, [Next]_vars
    PROVE  MembersOK'
  <1>1. ASSUME NEW u \in Users, ChangeStatus(u) PROVE MembersOK'
    <2> SUFFICES ASSUME NEW v \in Users, v \notin left' PROVE MemberAt(v)'
      BY DEF MembersOK
    <2>1. v \notin left /\ status'[v] = "member"
      BY <1>1 DEF ChangeStatus
    <2>2. lost' = lost
      BY <1>1 DEF ChangeStatus
    <2> QED
      BY <1>1, <2>1, <2>2 DEF ChangeStatus, MembersOK, MemberAt, At
  <1>2. CASE Handlers
    <2>1. rec' = rec /\ left' = left /\ status' = status /\ lost' = lost
      BY <1>2 DEF Handlers, CallbackExchange, CallbackRecord, CallbackOpen, SessionEnds, Require,
                  CreateMine, DeleteMine, RequestChangesNothing, AdminDelete, Saved, NotSaved,
                  provider
    <2> QED
      BY <2>1 DEF MembersOK, MemberAt, At
  <1>3. CASE Restart
    BY <1>3, IdleType DEF Restart, provider, MembersOK, MemberAt, At
  <1>4. CASE UNCHANGED vars
    BY <1>4 DEF vars, provider, MembersOK, MemberAt, At
  <1> QED
    BY <1>1, <1>2, <1>3, <1>4, MembersReconciler DEF Next

-----------------------------------------------------------------------------
(* Providers that keep tokens *)

LEMMA KeptStep ==
    ASSUME Typed, KeptOK, [Next]_vars
    PROVE  KeptOK'
  <1> SUFFICES ASSUME ~Rotates, ~RefusesClient, lost = {}, unsaved = {}, rec.stage # "rotate"
               PROVE  lost' = {} /\ unsaved' = {} /\ rec'.stage # "rotate"
    BY DEF KeptOK
  <1>0. rec \in RecType
    BY DEF Typed, TypeOK
  <1>1. ASSUME NEW u \in Users, ChangeStatus(u) \/ AdminDelete(u) \/ ReconcileCheck(u)
        PROVE  lost' = {} /\ unsaved' = {} /\ rec'.stage # "rotate"
    BY <1>0, <1>1 DEF ChangeStatus, AdminDelete, ReconcileCheck, RecType
  <1>2. ASSUME NEW s \in Sids, NEW u \in Users, CallbackExchange(s, u)
        PROVE  lost' = {} /\ unsaved' = {} /\ rec'.stage # "rotate"
    BY <1>2 DEF CallbackExchange
  <1>3. ASSUME NEW s \in Sids,
               CallbackRecord(s) \/ CallbackOpen(s) \/ SessionEnds(s) \/ Require(s) \/ CreateMine(s)
                 \/ DeleteMine(s) \/ RequestChangesNothing(s)
        PROVE  lost' = {} /\ unsaved' = {} /\ rec'.stage # "rotate"
    BY <1>3 DEF CallbackRecord, CallbackOpen, SessionEnds, Require, CreateMine, DeleteMine,
                RequestChangesNothing, Saved, NotSaved
  <1>4. CASE Restart \/ ReconcileDone
    BY <1>4, IdleType DEF Restart, ReconcileDone
  <1>5. CASE ReconcileExpired \/ ReconcileSnapshot \/ RevokePeers \/ RevokeForget
    BY <1>0, <1>5 DEF ReconcileExpired, ReconcileSnapshot, RevokePeers, RevokeForget, Saved, NotSaved,
                      RecType
  <1>6. CASE RevokeFails \/ RevokeSignOut \/ RefreshUnanswered
    BY <1>0, <1>6, NextUserType DEF RevokeFails, RevokeSignOut, RefreshUnanswered
  <1>7. CASE RefreshRejected \/ RefreshAccepted
    <2>1. \A keep \in BOOLEAN : Verdict(keep).stage # "rotate"
      BY <1>0, VerdictType, NextUserType
    <2>2. lost' = {} /\ unsaved' = {} /\ \E keep \in BOOLEAN : rec' = Verdict(keep)
      BY <1>7 DEF RefreshRejected, RefreshAccepted
    <2> QED
      BY <2>1, <2>2
  <1>8. CASE UNCHANGED vars
    BY <1>8 DEF vars
  <1> QED
    BY <1>1, <1>2, <1>3, <1>4, <1>5, <1>6, <1>7, <1>8 DEF Next, Handlers, Reconciler, StoreRotated

-----------------------------------------------------------------------------

LEMMA InitInv ==
    ASSUME Init
    PROVE  IInv
  <1>1. rec \in RecType /\ rec.stage = "idle" /\ rec.todo = {} /\ rec.snap = [u \in Users |-> NoRecord]
    BY IdleType DEF Init, Idle
  <1>2. \A s \in Sids : session[s] = NoSession /\ NoSession \in SessionType /\ session[s].stage = "none"
    BY IdleType DEF Init
  <1>3. Typed
    <2>1. 0 \in 0 .. MaxTokens /\ 0 \in 0 .. MaxPeers /\ 0 \in 0 .. MaxFaults /\ 0 \in 0 .. MaxRestarts
      BY BoundAssumption, ConfigAssumption
    <2>2. session \in [Sids -> SessionType]
      BY <1>2 DEF Init
    <2>3. status \in [Users -> Statuses]
      BY DEF Init, Statuses
    <2>4. left \in SUBSET Users /\ raced \in SUBSET Users /\ unsaved \in SUBSET Users
          /\ lost \in SUBSET Users /\ valid \in [Users -> SUBSET (1 .. MaxTokens)]
      BY DEF Init
    <2> QED
      BY <1>1, <1>2, <2>1, <2>2, <2>3, <2>4 DEF Init, Typed, TypeOK, Busy
  <1>4. OwnersOK
    BY <1>1, <1>2, NoneAssumption DEF Init, OwnersOK, OwnedAt, Tied, BeingRevoked
  <1>5. TokensOK
    <2> SUFFICES ASSUME NEW u \in Users PROVE TokensAt(u)
      BY DEF TokensOK
    <2>1. owners[u] = NoRecord /\ stored[u] = NoRecord /\ valid[u] = {} /\ issued[u] = 0
      BY DEF Init
    <2>2. NoRecord <= 0
      BY DEF NoRecord
    <2> QED
      BY <1>1, <1>2, <2>1, <2>2 DEF TokensAt, RecordsAt, ReconcilerAt, SignInsAt, Carries, Good, At, Busy
  <1>6. MembersOK
    BY <1>1 DEF Init, MembersOK, MemberAt, At
  <1>7. KeptOK
    BY <1>1 DEF Init, KeptOK
  <1> QED
    BY <1>3, <1>4, <1>5, <1>6, <1>7 DEF IInv

THEOREM Inductive == Spec => []IInv
  <1>1. Init => IInv
    BY InitInv
  <1>2. IInv /\ [Next]_vars => IInv'
    BY TypedStep, OwnedStep, TokensStep, MembersStep, KeptStep DEF IInv
  <1> QED
    BY <1>1, <1>2, PTL DEF Spec

-----------------------------------------------------------------------------
(* The properties *)

\* Sign-ins, requests, the reconciler and restarts keep every variable in its type.
THEOREM TypeCorrect == Spec => []TypeOK
  <1>1. IInv => TypeOK
    BY DEF IInv, Typed
  <1> QED
    BY <1>1, Inductive, PTL

\* Whoever owns a peer has an owner record in memory and on disk, and whoever has an open
\* session one in memory, unless the user is being revoked or has overtaken a revocation.
THEOREM EveryOwnerRecorded == Spec => []OwnersAreRecorded
  <1>1. IInv => OwnersAreRecorded
    BY DEF IInv, OwnersOK, OwnedAt, Tied, OwnersAreRecorded
  <1> QED
    BY <1>1, Inductive, PTL

\* Nobody who has been a member all along is revoked, whatever fails and whoever signs
\* in beside the reconciler, unless the user's replaced token was lost or the provider
\* refused a good one.
THEOREM MembersStay == Spec => []MembersKeepPeers
  <1>1. IInv => MembersKeepPeers
    BY DEF IInv, MembersOK, MemberAt, MembersKeepPeers
  <1> QED
    BY <1>1, Inductive, PTL

\* The finding on lost answers is confined to providers that replace refresh tokens:
\* where the tokens stay, and the provider refuses none but the tokens of users it no
\* longer vouches for, no outage, failed save or restart revokes a member.
THEOREM KeptTokensKeepMembers ==
    ASSUME ~Rotates, ~RefusesClient
    PROVE  Spec => []OutageKeepsPeers
  <1>1. IInv => OutageKeepsPeers
    <2>1. IInv => lost = {} /\ MembersKeepPeers
      BY DEF IInv, KeptOK, MembersOK, MemberAt, MembersKeepPeers
    <2>2. lost = {} /\ MembersKeepPeers => OutageKeepsPeers
      BY DEF MembersKeepPeers, OutageKeepsPeers
    <2> QED
      BY <2>1, <2>2
  <1> QED
    BY <1>1, Inductive, PTL

\* The finding on revocations is confined to those overtaken by a request or a sign-in
\* in flight: while there has been none, a user without an owner record has neither
\* peers nor an open session, whatever fails and however often the service restarts.
THEOREM OnlyRacesEscape == Spec => [](raced = {} => RevocationIsComplete)
  <1>1. IInv => (raced = {} => RevocationIsComplete)
    <2> SUFFICES ASSUME IInv, raced = {}, NEW u \in Users, owners[u] = NoRecord, ~BeingRevoked(u)
                 PROVE  /\ peers[u] = 0
                        /\ \A s \in Sids : ~(session[s].stage = "open" /\ session[s].user = u)
      BY DEF RevocationIsComplete
    <2>1. peers[u] \in 0 .. MaxPeers
      BY DEF IInv, Typed, TypeOK
    <2>2. /\ ~(peers[u] > 0)
          /\ \A s \in Sids : ~(session[s].stage = "open" /\ session[s].user = u)
      BY DEF IInv, OwnersOK, OwnedAt, Tied
    <2> QED
      BY <2>1, <2>2, ConfigAssumption
  <1> QED
    BY <1>1, Inductive, PTL
=============================================================================
