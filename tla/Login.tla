------------------------------- MODULE Login -------------------------------
(***************************************************************************)
(* Signing in to the relay server: the EVE SSO transactions of             *)
(* internal/auth and internal/api/sso.go (the browser's, bound to a        *)
(* cookie, and the desktop's, whose code waits for the verifier), the      *)
(* device challenges of internal/api/device_auth.go, and what both lead    *)
(* to: an account for the identity, the grant, a session and its device.   *)
(* Transactions live in the process' memory; the rest is stored.           *)
(***************************************************************************)
EXTENDS Integers, FiniteSets

CONSTANTS Txns,         \* the states a transaction can have
          Challenges,   \* the device challenges that can be made
          Subjects,     \* the characters that sign in
          Accounts,     \* the account ids that can be drawn
          LoginHandlers,\* concurrent requests
          MaxSessions,  \* bound: sessions issued
          MaxLoginFaults\* bound: crashes, failures and revocations

\* A state and a challenge are never the same string, nor are a subject and an
\* account id.
ASSUME LoginConstants ==
    /\ Txns \cap Challenges = {} /\ "none" \notin Subjects /\ Subjects \cap Accounts = {}
    /\ MaxSessions \in Nat /\ MaxLoginFaults \in Nat

VARIABLES echoes,     \* whether the provider returns the nonce in its callback
          unverified, \* the operator's opt-in: challenges are made for anybody who asks
          records,    \* the pending transactions
          cookie,     \* the transaction the browser's cookie is of, if any
          challenges, \* the device challenges, and the account or subject they are for
          accounts,   \* the accounts: active or revoked
          identities, \* the account of each subject that has one
          grants,     \* the accounts with a saved grant
          scheduled,  \* the accounts whose synchronisation was scheduled
          logins,     \* the sessions issued
          deviceRows, \* the sessions (by number) whose device is stored
          flow,       \* the requests in progress
          loginFaults,
          interrupted \* sessions left without a device by a fault

loginVars == <<echoes, unverified, records, cookie, challenges, accounts, identities, grants,
               scheduled, logins, deviceRows, flow, loginFaults, interrupted>>

NoTxn == "no transaction"
Free == [pc |-> "free"]
Sources == Txns \cup Challenges

\* For whom a session is made: a subject, or an account.
Parties == Subjects \cup Accounts

LoginTypeOK ==
    /\ echoes \in BOOLEAN /\ unverified \in BOOLEAN
    /\ DOMAIN records \subseteq Txns
    /\ \A t \in DOMAIN records :
          /\ records[t].kind \in {"browser", "native"}
          /\ records[t].expired \in BOOLEAN
          /\ records[t].code \in Subjects \cup {"none"}
    /\ cookie \in Txns \cup {NoTxn}
    /\ DOMAIN challenges \subseteq Challenges
    /\ \A c \in DOMAIN challenges : challenges[c].for \in Parties
    /\ DOMAIN accounts \subseteq Accounts
    /\ DOMAIN identities \subseteq Subjects
    /\ grants \subseteq Accounts /\ scheduled \subseteq grants
    /\ \A l \in logins : l.number \in 1..MaxSessions /\ l.by \in Sources /\ l.for \in Parties
    /\ DOMAIN flow = LoginHandlers
    /\ loginFaults \in 0..MaxLoginFaults

LoginInit ==
    /\ echoes \in BOOLEAN /\ unverified \in BOOLEAN
    /\ records = << >> /\ cookie = NoTxn /\ challenges = << >>
    /\ accounts = << >> /\ identities = << >> /\ grants = {} /\ scheduled = {}
    /\ logins = {} /\ deviceRows = {} /\ loginFaults = 0 /\ interrupted = {}
    /\ flow = [h \in LoginHandlers |-> Free]

In(h, pc) == flow[h].pc = pc
To(h, pc) == flow' = [flow EXCEPT ![h].pc = pc]
Refuse(h) == flow' = [flow EXCEPT ![h] = Free]
Fault == loginFaults < MaxLoginFaults /\ loginFaults' = loginFaults + 1
Drop(f, k) == [j \in DOMAIN f \ {k} |-> f[j]]
Put(f, k, v) == [j \in DOMAIN f \cup {k} |-> IF j = k THEN v ELSE f[j]]

stored == <<accounts, identities, grants, scheduled, logins, deviceRows, interrupted>>

-----------------------------------------------------------------------------
(* Transactions. *)

\* A state is random: one that was used is not drawn again.
Unused(t) ==
    /\ t \notin DOMAIN records
    /\ \A l \in logins : l.by # t
    /\ \A h \in LoginHandlers : flow[h].pc # "free" => flow[h].by # t

\* ssoStart: GET keeps the verifier and sets the browser's cookie, POST leaves
\* the verifier with the native client.
SsoStart(kind) ==
    /\ \E t \in Txns :
          /\ Unused(t)
          /\ records' = Put(records, t, [kind |-> kind, expired |-> FALSE, code |-> "none"])
          /\ cookie' = IF kind = "browser" THEN t ELSE cookie
    /\ UNCHANGED <<echoes, unverified, challenges, flow, loginFaults, stored>>

\* The transaction, or the cookie of the browser, outlives its ten minutes.
TxnExpires(t) ==
    /\ t \in DOMAIN records /\ ~records[t].expired
    /\ records' = [records EXCEPT ![t].expired = TRUE]
    /\ cookie' \in {cookie, IF cookie = t THEN NoTxn ELSE cookie}
    /\ UNCHANGED <<echoes, unverified, challenges, flow, loginFaults, stored>>

PendingTxn(t, kind) == t \in DOMAIN records /\ ~records[t].expired /\ records[t].kind = kind

\* The redirect of the provider reaches the callback in a browser without the
\* cookie: the code of a native transaction is staged, once.
StageNativeCallback(t, s) ==
    /\ cookie = NoTxn
    /\ PendingTxn(t, "native") /\ records[t].code = "none"
    /\ records' = [records EXCEPT ![t].code = s]
    /\ UNCHANGED <<echoes, unverified, cookie, challenges, flow, loginFaults, stored>>

\* The redirect reaches the callback with the cookie: the cookie is cleared
\* first; without the nonce, or for another transaction, the callback is refused
\* and the transaction stays.
BrowserCallback(h, t, s) ==
    /\ In(h, "free") /\ cookie # NoTxn /\ t \in DOMAIN records
    /\ cookie' = NoTxn
    /\ IF echoes /\ PendingTxn(t, "browser") /\ cookie = t
       THEN /\ records' = Drop(records, t)
            /\ flow' = [flow EXCEPT ![h] = [pc |-> "exchange", by |-> t, subject |-> s]]
       ELSE UNCHANGED <<records, flow>>
    /\ UNCHANGED <<echoes, unverified, challenges, loginFaults, stored>>

\* The native client completes: the staged code is consumed with the state, or
\* the answer is that the authorization is pending.
CompleteNative(h, t) ==
    /\ In(h, "free") /\ PendingTxn(t, "native") /\ records[t].code # "none"
    /\ records' = Drop(records, t)
    /\ flow' = [flow EXCEPT ![h] = [pc |-> "exchange", by |-> t, subject |-> records[t].code]]
    /\ UNCHANGED <<echoes, unverified, cookie, challenges, loginFaults, stored>>

\* A native client that received the code itself sends it along.
ExchangeDirect(h, t, s) ==
    /\ In(h, "free") /\ PendingTxn(t, "native")
    /\ records' = Drop(records, t)
    /\ flow' = [flow EXCEPT ![h] = [pc |-> "exchange", by |-> t, subject |-> s]]
    /\ UNCHANGED <<echoes, unverified, cookie, challenges, loginFaults, stored>>

\* The provider exchanges the code and tells the identity, or one of the two
\* calls fails: the transaction is gone either way.
ExchangeIdentity(h) ==
    /\ In(h, "exchange")
    /\ \/ To(h, "find") /\ UNCHANGED loginFaults
       \/ Fault /\ Refuse(h)
    /\ UNCHANGED <<echoes, unverified, records, cookie, challenges, stored>>

-----------------------------------------------------------------------------
(* Device challenges. *)

Issue(b, p, a) == [pc |-> "issue", by |-> b, for |-> p, account |-> a]

\* With its account a transaction goes on to the grant; a challenge has none.
WithAccount(b, s, a) ==
    IF b \in Txns THEN [pc |-> "grant", by |-> b, subject |-> s, account |-> a] ELSE Issue(b, s, a)

\* AuthenticateAccess, for the account: one of its sessions is live.
SignedIn(a) == \E l \in logins : l.live /\ l.account = a /\ accounts[a] = "active"

\* deviceAuthStart: a signed-in client asks for a challenge of its account.  Where
\* the operator opted in, anybody may ask, for an account or a subject.
DeviceAuthStart(c) ==
    /\ c \notin DOMAIN challenges
    /\ \E p \in Parties :
          /\ unverified \/ SignedIn(p)
          /\ challenges' = Put(challenges, c, [for |-> p, state |-> "open"])
    /\ UNCHANGED <<echoes, unverified, records, cookie, flow, loginFaults, stored>>

ChallengeExpires(c) ==
    /\ c \in DOMAIN challenges /\ challenges[c].state = "open"
    /\ challenges' = [challenges EXCEPT ![c].state = "gone"]
    /\ UNCHANGED <<echoes, unverified, records, cookie, flow, loginFaults, stored>>

\* deviceAuthComplete: ConsumeChallenge finds and consumes in one statement.  A
\* subject goes to EnsureAccount; an account has to exist.
DeviceAuthComplete(h, c) ==
    /\ In(h, "free") /\ c \in DOMAIN challenges /\ challenges[c].state = "open"
    /\ challenges' = [challenges EXCEPT ![c].state = "gone"]
    /\ LET p == challenges[c].for
       IN  \/ /\ p \in Subjects
              /\ flow' = [flow EXCEPT ![h] = [pc |-> "find", by |-> c, subject |-> p]]
           \/ p \in DOMAIN accounts /\ flow' = [flow EXCEPT ![h] = Issue(c, p, p)]
           \/ p \in Accounts \ DOMAIN accounts /\ UNCHANGED flow
    /\ UNCHANGED <<echoes, unverified, records, cookie, loginFaults, stored>>

-----------------------------------------------------------------------------
(* The account, the grant, the session and the device. *)

\* EnsureAccount looks for the identity.
FindIdentity(h) ==
    /\ In(h, "find")
    /\ LET s == flow[h].subject
       IN  IF s \in DOMAIN identities
           THEN flow' = [flow EXCEPT ![h] = WithAccount(@.by, s, identities[s])]
           ELSE To(h, "account")
    /\ UNCHANGED <<echoes, unverified, records, cookie, challenges, loginFaults, stored>>

\* It makes an account, then the identity: one made meanwhile wins, and the
\* account stays behind without an identity.
CreateAccount(h) ==
    /\ In(h, "account")
    /\ \E a \in Accounts \ DOMAIN accounts :
          /\ accounts' = Put(accounts, a, "active")
          /\ flow' = [flow EXCEPT ![h] = [pc |-> "identity", by |-> @.by,
                                          subject |-> @.subject, account |-> a]]
    /\ UNCHANGED <<echoes, unverified, records, cookie, challenges, loginFaults, identities, grants,
                   scheduled, logins, deviceRows, interrupted>>

\* Mutant: the identity made meanwhile is overwritten.
OverwriteIdentity(h) ==
    /\ In(h, "identity")
    /\ identities' = Put(identities, flow[h].subject, flow[h].account)
    /\ flow' = [flow EXCEPT ![h] = WithAccount(@.by, @.subject, @.account)]
    /\ UNCHANGED <<echoes, unverified, records, cookie, challenges, loginFaults, accounts, grants,
                   scheduled, logins, deviceRows, interrupted>>

CreateIdentity(h) ==
    /\ In(h, "identity")
    /\ LET s == flow[h].subject
           mine == IF s \in DOMAIN identities THEN identities[s] ELSE flow[h].account
       IN  /\ identities' = Put(identities, s, mine)
           /\ flow' = [flow EXCEPT ![h] = WithAccount(@.by, s, mine)]
    /\ UNCHANGED <<echoes, unverified, records, cookie, challenges, loginFaults, accounts, grants,
                   scheduled, logins, deviceRows, interrupted>>

\* The grant is saved before any credential is made; a failure ends the login.
\* Scheduling the synchronisation may fail.
SaveGrant(h) ==
    /\ In(h, "grant")
    /\ \/ /\ grants' = grants \cup {flow[h].account}
          /\ scheduled' \in {scheduled, scheduled \cup {flow[h].account}}
          /\ flow' = [flow EXCEPT ![h] = Issue(@.by, @.subject, @.account)]
          /\ UNCHANGED loginFaults
       \/ Fault /\ Refuse(h) /\ UNCHANGED <<grants, scheduled>>
    /\ UNCHANGED <<echoes, unverified, records, cookie, challenges, accounts, identities, logins,
                   deviceRows, interrupted>>

\* IssueSession reads the account, then makes the session.
IssueSession(h) ==
    /\ In(h, "issue")
    /\ IF accounts[flow[h].account] = "active" THEN To(h, "session") ELSE Refuse(h)
    /\ UNCHANGED <<echoes, unverified, records, cookie, challenges, loginFaults, stored>>

MakeSession(h) ==
    /\ In(h, "session") /\ Cardinality(logins) < MaxSessions
    /\ LET n == Cardinality(logins) + 1
       IN  /\ logins' = logins \cup {[number |-> n, by |-> flow[h].by, for |-> flow[h].for,
                                      live |-> TRUE, account |-> flow[h].account]}
           /\ flow' = [flow EXCEPT ![h] = [pc |-> "device", by |-> @.by, number |-> n]]
    /\ UNCHANGED <<echoes, unverified, records, cookie, challenges, loginFaults, accounts, identities,
                   grants, scheduled, deviceRows, interrupted>>

Ended(n) == {IF l.number = n THEN [l EXCEPT !.live = FALSE] ELSE l : l \in logins}

\* The device is stored; otherwise the session is revoked, and the error of that
\* revocation is not looked at.
StoreDevice(h) ==
    /\ In(h, "device")
    /\ \/ /\ deviceRows' = deviceRows \cup {flow[h].number}
          /\ UNCHANGED <<logins, loginFaults, interrupted>>
       \/ Fault /\ logins' = Ended(flow[h].number) /\ UNCHANGED <<deviceRows, interrupted>>
       \/ Fault /\ interrupted' = interrupted \cup {flow[h].number}
          /\ UNCHANGED <<deviceRows, logins>>
    /\ Refuse(h)
    /\ UNCHANGED <<echoes, unverified, records, cookie, challenges, accounts, identities, grants, scheduled>>

\* RevokeAccount and the revocation of its sessions.
AccountRevoked ==
    /\ Fault
    /\ \E a \in DOMAIN accounts :
          /\ accounts[a] = "active"
          /\ accounts' = [accounts EXCEPT ![a] = "revoked"]
          /\ logins' = {IF l.account = a THEN [l EXCEPT !.live = FALSE] ELSE l : l \in logins}
    /\ UNCHANGED <<echoes, unverified, records, cookie, challenges, identities, grants, scheduled,
                   deviceRows, flow, interrupted>>

\* The process restarts: transactions and requests are gone.
LoginCrash ==
    /\ Fault
    /\ records' = << >>
    /\ flow' = [h \in LoginHandlers |-> Free]
    /\ interrupted' = interrupted \cup {flow[h].number : h \in {g \in LoginHandlers : In(g, "device")}}
    /\ UNCHANGED <<echoes, unverified, cookie, challenges, accounts, identities, grants, scheduled,
                   logins, deviceRows>>

LoginNext ==
    \/ AccountRevoked \/ LoginCrash
    \/ \E kind \in {"browser", "native"} : SsoStart(kind)
    \/ \E c \in Challenges : DeviceAuthStart(c) \/ ChallengeExpires(c)
    \/ \E t \in Txns : TxnExpires(t) \/ \E s \in Subjects : StageNativeCallback(t, s)
    \/ \E h \in LoginHandlers :
          \/ ExchangeIdentity(h) \/ FindIdentity(h) \/ CreateAccount(h) \/ CreateIdentity(h)
          \/ SaveGrant(h) \/ IssueSession(h) \/ MakeSession(h) \/ StoreDevice(h)
          \/ \E c \in Challenges : DeviceAuthComplete(h, c)
          \/ \E t \in Txns :
                \/ CompleteNative(h, t)
                \/ \E s \in Subjects : BrowserCallback(h, t, s) \/ ExchangeDirect(h, t, s)

LoginSpec == LoginInit /\ [][LoginNext]_loginVars

-----------------------------------------------------------------------------
\* The account is that of the subject's identity, or the account asked for.
Belongs(a, p) == IF p \in Subjects THEN p \in DOMAIN identities /\ identities[p] = a ELSE a = p

\* However callbacks, polls, races for one identity, restarts and failures
\* interleave: a transaction or a challenge yields at most one session, of the
\* account of the character that signed in, or of the account or subject the
\* challenge was made for; no two identities share an account; no session exists
\* whose account's grant was not saved first, but for those of challenges where
\* the operator opted in to unverified ones; and a live session lacks its device
\* only while its login is still running or was cut short by a fault.
LoginsAreSound ==
    /\ LoginTypeOK
    /\ \A k, l \in logins : k.by = l.by => k = l
    /\ \A s, u \in DOMAIN identities : identities[s] = identities[u] => s = u
    /\ \A l \in logins :
          /\ Belongs(l.account, l.for)
          /\ l.account \in grants \/ (unverified /\ l.by \in Challenges)
          /\ \/ l.number \in deviceRows \cup interrupted
             \/ \E h \in LoginHandlers : In(h, "device") /\ flow[h].number = l.number
             \/ ~l.live
=============================================================================
