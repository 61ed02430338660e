----------------------------- MODULE PushTokens -----------------------------
(***************************************************************************)
(* Push tokens and dispatch (relay-server/internal/notifications): devices *)
(* register the token of their push provider, list and revoke it; a        *)
(* dispatch looks a token up and sends through the FCM adapter, which      *)
(* retries.  Tokens are kept in memory or in the table push_tokens, where  *)
(* Dispatch does not look.                                                 *)
(***************************************************************************)
EXTENDS Integers, FiniteSets

CONSTANTS Mobiles,       \* devices
          RawTokens,     \* provider tokens, which devices may share
          MaxAttempts,   \* of the FCM adapter
          MaxIds         \* bound: rows of push_tokens

VARIABLES inTable,      \* tokens are kept in the table
          tokens,       \* by id: the device, the token, whether revoked
          configured,   \* the FCM adapter is set
          dispatch,     \* the dispatch in progress
          pushes        \* what FCM accepted: by whom asked, for which token

pushVars == <<inTable, tokens, configured, dispatch, pushes>>

NoDispatch == [at |-> "idle"]

\* In memory the id of a token is a digest of the token; in the table it is random.
TokenIds == RawTokens \cup (1..MaxIds)

PushTypeOK ==
    /\ inTable \in BOOLEAN /\ configured \in BOOLEAN
    /\ DOMAIN tokens \subseteq TokenIds
    /\ \A i \in DOMAIN tokens :
          tokens[i] \in [device : Mobiles, token : RawTokens, revoked : BOOLEAN]
    /\ dispatch.at \in {"idle", "send", "resend"}

PushInit ==
    /\ inTable \in BOOLEAN
    /\ tokens = << >> /\ configured = FALSE
    /\ dispatch = NoDispatch /\ pushes = {}

Write(i, t) == tokens' = [j \in DOMAIN tokens \cup {i} |-> IF j = i THEN t ELSE tokens[j]]

\* The device's own record of the token is brought back; otherwise memory puts
\* one under the token's digest, whoever's is there.
Register(d, t) ==
    LET mine == {i \in DOMAIN tokens : tokens[i].device = d /\ tokens[i].token = t}
        record == [device |-> d, token |-> t, revoked |-> FALSE]
    IN  /\ \/ \E i \in mine : Write(i, record)
           \/ /\ mine = {}
              /\ \E i \in IF inTable THEN (1..MaxIds) \ DOMAIN tokens ELSE {t} : Write(i, record)
        /\ UNCHANGED <<inTable, configured, dispatch, pushes>>

\* DELETE names an id; an id that is unknown, another device's or revoked is
\* not found.
Owned(d, i) == i \in DOMAIN tokens /\ tokens[i].device = d /\ ~tokens[i].revoked
\* A mutated form: the token's device is not compared.
Known(d, i) == i \in DOMAIN tokens /\ ~tokens[i].revoked

RevokeToken(d, i) ==
    /\ Owned(d, i)
    /\ tokens' = [tokens EXCEPT ![i].revoked = TRUE]
    /\ UNCHANGED <<inTable, configured, dispatch, pushes>>

\* SetDispatcher.
Configure ==
    /\ configured' = ~configured
    /\ UNCHANGED <<inTable, tokens, dispatch, pushes>>

\* Dispatch reads the map in memory, under the lock; the adapter is handed a
\* copy of the record.  No token is found there when they are in the table.
Sendable(d, i) == Owned(d, i)

StartDispatch(d, i) ==
    /\ dispatch.at = "idle" /\ ~inTable /\ configured
    /\ Sendable(d, i)
    /\ dispatch' = [at |-> "send", by |-> d, to |-> tokens[i], attempt |-> 1]
    /\ UNCHANGED <<inTable, tokens, configured, pushes>>

\* One attempt: FCM may have taken what it does not confirm; a temporary failure
\* is tried again while attempts are left.  Resolving the raw token or the
\* credentials may fail before the first.
SendOnce ==
    /\ dispatch.at = "send"
    /\ \E taken \in BOOLEAN, answer \in {"sent", "temporary", "rejected"} :
          /\ answer = "sent" => taken
          /\ pushes' = IF taken THEN pushes \cup {[by |-> dispatch.by, to |-> dispatch.to]}
                       ELSE pushes
          /\ dispatch' = IF answer = "temporary" /\ dispatch.attempt < MaxAttempts
                         THEN [dispatch EXCEPT !.at = "resend"] ELSE NoDispatch
    /\ UNCHANGED <<inTable, tokens, configured>>

\* The back-off ends, or the time allowed for all attempts does.
Backoff ==
    /\ dispatch.at = "resend"
    /\ dispatch' \in {NoDispatch, [dispatch EXCEPT !.at = "send", !.attempt = @ + 1]}
    /\ UNCHANGED <<inTable, tokens, configured, pushes>>

RestartPush ==
    /\ tokens' = IF inTable THEN tokens ELSE << >>
    /\ dispatch' = NoDispatch /\ configured' = FALSE
    /\ UNCHANGED <<inTable, pushes>>

PushNext ==
    \/ \E d \in Mobiles : \/ \E t \in RawTokens : Register(d, t)
                          \/ \E i \in TokenIds : RevokeToken(d, i) \/ StartDispatch(d, i)
    \/ Configure \/ SendOnce \/ Backoff \/ RestartPush

PushSpec == PushInit /\ [][PushNext]_pushVars

-----------------------------------------------------------------------------
\* However registrations take over one another's records while attempts are
\* under way, FCM is only ever handed a push by a device for a token that this
\* device itself had registered and not revoked when the dispatch was asked for;
\* and in the table a device has one row of a token, so that a revocation of it
\* leaves none that is live.
PushesReachTheirDevice ==
    /\ \A p \in pushes : p.to.device = p.by /\ ~p.to.revoked
    /\ inTable => \A i, j \in DOMAIN tokens :
                     tokens[i].device = tokens[j].device /\ tokens[i].token = tokens[j].token
                         => i = j

\* The tokens have their types, and pushes reach the devices they are for.
PushInvariant == PushTypeOK /\ PushesReachTheirDevice
=============================================================================
