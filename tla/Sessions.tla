------------------------------ MODULE Sessions ------------------------------
(***************************************************************************)
(* Server sessions of one account (relay-server/internal/accounts): issue, *)
(* refresh rotation, replay detection and revocation.                      *)
(*                                                                         *)
(* A session is one refresh token: rotation revokes it and inserts its     *)
(* replacement in the same token family.  Every login makes a new device   *)
(* and a new family, so that a device's sessions are a family's.           *)
(*                                                                         *)
(* durable: PostgresRepository, whose transactions run at READ COMMITTED.  *)
(* RotateRefresh locks the presented row; an UPDATE of many rows works on  *)
(* the rows its snapshot saw and waits for those that are locked, but does *)
(* not see a row inserted meanwhile.  Otherwise MemoryRepository: each     *)
(* call is one step under its mutex.                                       *)
(***************************************************************************)
EXTENDS Naturals, FiniteSets

CONSTANTS Ids,        \* session IDs; a family is named after its first session
          Handlers,   \* request goroutines
          None,       \* no session
          MaxFaults   \* bound: requests that fail or die half-way

ASSUME SessionsAssumption == None \notin Ids /\ MaxFaults \in Nat

VARIABLES durable,   \* PostgresRepository rather than MemoryRepository
          sess,      \* the rows of sessions
          active,    \* the account's status is active
          expired,   \* families whose absolute lifetime is over
          req,       \* what each handler is about to do
          faults,    \* faults so far
          dead,      \* history: families revoked by a completed statement
          escaped,   \* history: families a revocation did not see a row of
          ended,     \* history: RevokeAccount has completed
          late       \* history: sessions issued to a revoked account

vars == <<durable, sess, active, expired, req, faults, dead, escaped, ended, late>>

Row == [family : Ids, parent : Ids \cup {None}, revoked : BOOLEAN,
        replaced : BOOLEAN, famRevoked : BOOLEAN]

Idle == [op |-> "idle"]
Request ==
    {Idle, [op |-> "issue"], [op |-> "account2"]}
    \cup [op : {"rotate"}, id : Ids]
    \cup [op : {"replay"}, id : Ids \cup {None}, family : Ids]
    \cup [op : {"commit"}, id : Ids, new : Ids]
    \cup [op : {"revoke"}, what : {"family", "device", "account", "account2"},
          family : Ids \cup {None}, rows : SUBSET Ids, id : Ids \cup {None}]

Init ==
    /\ durable \in BOOLEAN
    /\ sess = [i \in {} |-> None]
    /\ active = TRUE
    /\ expired = {}
    /\ req = [h \in Handlers |-> Idle]
    /\ faults = 0
    /\ dead = {} /\ escaped = {} /\ ended = FALSE /\ late = {}

-----------------------------------------------------------------------------
Rows == DOMAIN sess
Families == {sess[i].family : i \in Rows}
OfFamily(f) == {i \in Rows : sess[i].family = f}
Live(i) == ~ sess[i].revoked

\* GenerateToken, newID: values nobody has used.
Fresh == Ids \ (Rows \cup {req[h].new : h \in {g \in Handlers : req[g].op = "commit"}})

\* FOR UPDATE: held by a rotation until its transaction ends.
Locked(i) == \E h \in Handlers : /\ req[h].op \in {"commit", "replay", "revoke"}
                                 /\ req[h].id = i

Set(h, q) == req' = [req EXCEPT ![h] = q]
Insert(i, f, p) ==
    [j \in Rows \cup {i} |->
        IF j # i THEN sess[j]
        ELSE [family |-> f, parent |-> p, revoked |-> FALSE, replaced |-> FALSE,
              famRevoked |-> FALSE]]
Revoked(rows, whole) ==
    [j \in Rows |-> IF j \in rows
                    THEN [sess[j] EXCEPT !.revoked = TRUE, !.famRevoked = @ \/ whole]
                    ELSE sess[j]]

Rotated(rows, i) ==
    [rows EXCEPT ![i].revoked = TRUE, ![i].replaced = TRUE]

-----------------------------------------------------------------------------
(* IssueSession: the account is read, then the session is written. *)

CheckIssue(h) ==
    /\ req[h] = Idle /\ active /\ Fresh # {}
    /\ Set(h, [op |-> "issue"])
    /\ UNCHANGED <<durable, sess, active, expired, faults, dead, escaped, ended, late>>

CreateSession(h) ==
    /\ req[h].op = "issue" /\ Fresh # {}
    /\ LET i == CHOOSE j \in Fresh : TRUE IN
       /\ sess' = Insert(i, i, None)
       /\ late' = IF active THEN late ELSE late \cup {i}
    /\ Set(h, Idle)
    /\ UNCHANGED <<durable, active, expired, faults, dead, escaped, ended>>

-----------------------------------------------------------------------------
(* Refresh *)

\* The token has been rotated: presenting it again is a replay.
Spent(i) == sess[i].replaced

\* RefreshAt before RotateRefresh: any token ever given out may come.
PresentToken(h, i) ==
    /\ req[h] = Idle
    /\ IF Live(i)
       THEN /\ sess[i].family \notin expired /\ active
            /\ Set(h, [op |-> "rotate", id |-> i])
       ELSE /\ sess[i].famRevoked \/ Spent(i)
            /\ Set(h, [op |-> "replay", id |-> None, family |-> sess[i].family])
    /\ UNCHANGED <<durable, sess, active, expired, faults, dead, escaped, ended, late>>

\* Without FOR UPDATE, or without looking again (mutants).
UnlockedLive(i) == Live(i)
Unchecked(i) == ~ Locked(i)

Rotatable(i) == Live(i) /\ ~ Locked(i)

\* RotateRefresh up to the commit, for a token that is still live.
Rotate(h) ==
    /\ req[h].op = "rotate"
    /\ Rotatable(req[h].id) /\ Fresh # {}
    /\ LET i == req[h].id  n == CHOOSE j \in Fresh : TRUE IN
       IF sess[i].family \in expired
       THEN Set(h, Idle) /\ UNCHANGED sess
       ELSE IF durable
       THEN Set(h, [op |-> "commit", id |-> i, new |-> n]) /\ UNCHANGED sess
       ELSE Set(h, Idle) /\ sess' = Rotated(Insert(n, sess[i].family, i), i)
    /\ UNCHANGED <<durable, active, expired, faults, dead, escaped, ended, late>>

CommitRotation(h) ==
    /\ req[h].op = "commit"
    /\ LET i == req[h].id IN
       sess' = Rotated(Insert(req[h].new, sess[i].family, i), i)
    /\ Set(h, Idle)
    /\ UNCHANGED <<durable, active, expired, faults, dead, escaped, ended, late>>

\* RotateRefresh finds that the token was revoked in the meantime: a rotated
\* one is a replay and the transaction goes on to revoke the family, its row
\* locked.  Only MemoryRepository looks at family_revoked_at here.
FindSpent(h) ==
    /\ req[h].op = "rotate"
    /\ ~ Live(req[h].id) /\ ~ Locked(req[h].id)
    /\ LET i == req[h].id IN
       IF Spent(i) \/ (~ durable /\ sess[i].famRevoked)
       THEN Set(h, [op |-> "replay", id |-> i, family |-> sess[i].family])
       ELSE Set(h, Idle)
    /\ UNCHANGED <<durable, sess, active, expired, faults, dead, escaped, ended, late>>

-----------------------------------------------------------------------------
(* Revocation.  Snapshot starts the UPDATE statement, Apply ends it.       *)

Authenticated == active /\ \E i \in Rows : Live(i)

All(what) == what \in {"account", "account2"}
Targets(what, f) ==
    IF All(what) THEN Rows ELSE OfFamily(f)

Snapshot(h, what, f, lock) ==
    Set(h, [op |-> "revoke", what |-> what, family |-> f,
            rows |-> Targets(what, f), id |-> lock])

RevokeFamily(h) ==
    /\ req[h].op = "replay"
    /\ Snapshot(h, "family", req[h].family, req[h].id)
    /\ UNCHANGED <<durable, sess, active, expired, faults, dead, escaped, ended, late>>

\* RevokeDevice, of the caller's own device or of another one.
RevokeDevice(h, f) ==
    /\ req[h] = Idle /\ Authenticated
    /\ Snapshot(h, "device", f, None)
    /\ UNCHANGED <<durable, sess, active, expired, faults, dead, escaped, ended, late>>

\* RevokeAccount: one transaction for the account and its sessions ...
RevokeAccount(h) ==
    /\ req[h] = Idle /\ Authenticated
    /\ Snapshot(h, "account", None, None)
    /\ UNCHANGED <<durable, sess, active, expired, faults, dead, escaped, ended, late>>

\* ... then RevokeAccountSessions, a second statement over the sessions.
RevokeAccountSessions(h) ==
    /\ req[h].op = "account2"
    /\ Snapshot(h, "account2", None, None)
    /\ UNCHANGED <<durable, sess, active, expired, faults, dead, escaped, ended, late>>

AfterRevoke(what) == IF what = "account" THEN [op |-> "account2"] ELSE Idle

\* The rows of the snapshot in memory, too (a mutant).
SeenBefore(q) == q.rows

\* In memory the statement sees the rows of the moment.
Seen(q) == IF durable THEN q.rows ELSE Targets(q.what, q.family)

Apply(h) ==
    /\ req[h].op = "revoke"
    /\ LET q == req[h]  seen == Seen(q)  all == Targets(q.what, q.family) IN
       /\ \A i \in seen : Locked(i) => i = q.id
       /\ sess' = Revoked(seen, q.what = "family")
       /\ dead' = IF All(q.what) THEN dead ELSE dead \cup {q.family}
       /\ escaped' = IF q.what = "account" THEN escaped
                      ELSE escaped \cup {sess[i].family : i \in all \ seen}
       /\ active' = (active /\ q.what # "account")
       /\ ended' = (ended \/ (AfterRevoke(q.what) = Idle /\ All(q.what)))
       /\ Set(h, AfterRevoke(q.what))
    /\ UNCHANGED <<durable, expired, faults, late>>

\* RevokeSession: one row, as the compensation of a failed login.
RevokeSession(i) ==
    /\ ~ Locked(i)
    /\ sess' = Revoked({i}, FALSE)
    /\ UNCHANGED <<durable, active, expired, req, faults, dead, escaped, ended, late>>

-----------------------------------------------------------------------------
Expire(f) ==
    /\ expired' = expired \cup {f}
    /\ UNCHANGED <<durable, sess, active, req, faults, dead, escaped, ended, late>>

\* The connection breaks, PostgreSQL ends a deadlock, the process dies: an
\* open transaction rolls back.
Fail(h) ==
    /\ req[h] # Idle
    /\ faults < MaxFaults /\ faults' = faults + 1
    /\ Set(h, Idle)
    /\ UNCHANGED <<durable, sess, active, expired, dead, escaped, ended, late>>

Next ==
    \/ \E h \in Handlers :
         \/ CheckIssue(h) \/ CreateSession(h)
         \/ \E i \in Rows : PresentToken(h, i)
         \/ Rotate(h) \/ CommitRotation(h) \/ FindSpent(h)
         \/ RevokeFamily(h) \/ \E f \in Families : RevokeDevice(h, f)
         \/ RevokeAccount(h) \/ RevokeAccountSessions(h) \/ Apply(h) \/ Fail(h)
    \/ \E i \in Rows : RevokeSession(i)
    \/ \E f \in Families : Expire(f)

Spec == Init /\ [][Next]_vars

-----------------------------------------------------------------------------
(* Properties *)

TypeOK ==
    /\ durable \in BOOLEAN /\ active \in BOOLEAN /\ ended \in BOOLEAN
    /\ Rows \subseteq Ids /\ \A i \in Rows : sess[i] \in Row
    /\ \A i \in Rows : sess[i].replaced \/ sess[i].famRevoked => sess[i].revoked
    /\ req \in [Handlers -> Request]
    /\ expired \subseteq Ids /\ dead \subseteq Ids
    /\ escaped \subseteq Ids /\ late \subseteq Ids
    /\ faults \in 0 .. MaxFaults

\* However its clients race and retry, a refresh token is replaced at most
\* once, and at most one session of a family is live.
OneHeir ==
    \A i, j \in Rows : i # j =>
        /\ sess[i].parent = sess[j].parent => sess[i].parent = None
        /\ sess[i].family = sess[j].family => ~ (Live(i) /\ Live(j))

\* Type correctness; and however clients race and retry, a refresh token is
\* replaced at most once, and at most one session of a family is live.
SessionsInvariant == TypeOK /\ OneHeir

\* A family that was revoked, for a replay or with its device, has no live
\* session; unless a rotation committed while the statement was running, which
\* cannot be in memory.  After RevokeAccount the account has none, but for one
\* whose login read the account before, or that was rotated during the second
\* statement (its login having come in during the first).
RevocationIsComplete ==
    /\ \A i \in Rows : sess[i].family \in dead \ escaped => ~ Live(i)
    /\ ~ durable => escaped = {}
    /\ ended => \A i \in Rows : Live(i) => i \in late \/ sess[i].family \in escaped

\* What the comment on Refresh says: replay detection "revokes every session
\* in its token family".
FamilyRevokedWhole ==
    \A i, j \in Rows :
        sess[i].famRevoked /\ sess[j].family = sess[i].family => ~ Live(j)
=============================================================================
