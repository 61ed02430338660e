--------------------------- MODULE DesktopSession ---------------------------
(***************************************************************************)
(* The credentials of the desktop application (internal/app/relay.go,      *)
(* pairing.go): requests that refresh an access token that has ended and   *)
(* are sent again, the sign-in that polls for its completion, pairing by   *)
(* code, signing out, and the restart from the credential vault.  Each of  *)
(* them runs in a goroutine of its own, called from the user interface.    *)
(* The server is what the client sees of it: a refresh token is good once, *)
(* and one that was used already ends the sessions of its device.          *)
(***************************************************************************)
EXTENDS Naturals, Sequences

CONSTANTS ClientRequests, \* goroutines that call the server
          MaxDevices,     \* bound: devices made by signing in or pairing
          MaxExpiries,    \* bound: access tokens that end
          MaxOthers       \* bound: everything else that disturbs a request

ASSUME SessionConstants ==
    /\ MaxDevices \in Nat /\ MaxDevices >= 2
    /\ MaxExpiries \in Nat /\ MaxOthers \in Nat
    /\ "nobody" \notin ClientRequests

VARIABLES devs,      \* the server's devices
          memory,    \* the credentials in memory: device and generation
          vault,     \* the credentials in the vault
          token,     \* the device whose own token is held, in memory and vault
          pairing,   \* the paired device, in memory and in the database
          clientReq, \* what each request is about to do
          refreshMu, \* the request that holds refreshMu
          login,     \* the sign-in
          confirm,   \* the pairing
          signOut,   \* the signing out
          cleared,   \* devices of which a sign-out that succeeded knew
          refused,   \* some request was answered 401 in the end
          expiries, others

sessionVars == <<devs, memory, vault, token, pairing, clientReq, refreshMu, login, confirm,
                 signOut, cleared, refused, expiries, others>>

Nobody == "nobody"
NoCredentials == [device |-> 0, generation |-> 0]
AtRest == [pc |-> "rest"]
Device(kind) == [kind |-> kind, live |-> TRUE, latest |-> 1, ended |-> FALSE,
                 replayed |-> FALSE, lost |-> FALSE]
First(d) == [device |-> d, generation |-> 1]
DeviceIds == DOMAIN devs

SessionTypeOK ==
    /\ Len(devs) <= MaxDevices
    /\ \A d \in DeviceIds : devs[d].kind \in {"login", "paired"} /\ devs[d].latest \in Nat
    /\ \A c \in {memory, vault} :
          c = NoCredentials \/ (c.device \in DeviceIds /\ c.generation <= devs[c.device].latest)
    /\ {token.memory, token.vault, pairing.memory, pairing.stored} \subseteq {0} \cup DeviceIds
    /\ DOMAIN clientReq = ClientRequests
    /\ refreshMu \in ClientRequests \cup {Nobody}
    /\ cleared \subseteq DeviceIds /\ refused \in BOOLEAN
    /\ expiries \in 0..MaxExpiries /\ others \in 0..MaxOthers

\* The application was signed in, paired, both, or neither.
SessionInit ==
    /\ devs \in {<< >>, <<Device("login")>>, <<Device("paired")>>,
                 <<Device("login"), Device("paired")>>}
    /\ LET of(kind) == {d \in DeviceIds : devs[d].kind = kind}
           one(S) == IF S = {} THEN 0 ELSE CHOOSE d \in S : TRUE
       IN  /\ memory = IF of("login") = {} THEN NoCredentials ELSE First(one(of("login")))
           /\ pairing = [memory |-> one(of("paired")), stored |-> one(of("paired"))]
           /\ token = [memory |-> Len(devs), vault |-> Len(devs)]
    /\ vault = memory
    /\ clientReq = [r \in ClientRequests |-> AtRest]
    /\ refreshMu = Nobody
    /\ login = AtRest /\ confirm = AtRest /\ signOut = AtRest
    /\ cleared = {} /\ refused = FALSE /\ expiries = 0 /\ others = 0

Disturb == others < MaxOthers /\ others' = others + 1

-----------------------------------------------------------------------------
(* The server. *)

Valid(c) ==
    /\ c # NoCredentials /\ devs[c.device].live
    /\ c.generation = devs[c.device].latest /\ ~devs[c.device].ended

\* A refresh token that is the latest of its device is rotated; one that was
\* used before revokes the device's sessions.
Rotation(c) ==
    IF ~devs[c.device].live THEN devs
    ELSE IF c.generation = devs[c.device].latest
    THEN [devs EXCEPT ![c.device].latest = @ + 1, ![c.device].ended = FALSE]
    ELSE [devs EXCEPT ![c.device].live = FALSE, ![c.device].replayed = TRUE]

Rotates(c) == devs[c.device].live /\ c.generation = devs[c.device].latest

AccessEnds(d) ==
    /\ expiries < MaxExpiries /\ expiries' = expiries + 1
    /\ devs[d].kind = "login" /\ devs[d].live /\ ~devs[d].ended
    /\ devs' = [devs EXCEPT ![d].ended = TRUE]
    /\ UNCHANGED <<memory, vault, token, pairing, clientReq, refreshMu, login, confirm, signOut,
                   cleared, refused, others>>

-----------------------------------------------------------------------------
(* Requests. *)

ReqAt(r, pc) == clientReq[r].pc = pc
ReqDo(r, q) == clientReq' = [clientReq EXCEPT ![r] = q]

\* The request ends with an error.
Reject(r) == ReqDo(r, AtRest) /\ refused' = TRUE

\* doRequest: the access token of the moment goes with the request.
Send(r) ==
    /\ ReqAt(r, "rest") /\ memory # NoCredentials
    /\ ReqDo(r, [pc |-> "sent", with |-> memory, again |-> FALSE])
    /\ UNCHANGED <<devs, memory, vault, token, pairing, refreshMu, login, confirm, signOut,
                   cleared, refused, expiries, others>>

\* The answer: 401 is followed by a refresh, unless this was the second try.
Answered(r) ==
    /\ ReqAt(r, "sent")
    /\ IF Valid(clientReq[r].with) THEN ReqDo(r, AtRest) /\ UNCHANGED refused
       ELSE IF clientReq[r].again THEN Reject(r)
       ELSE ReqDo(r, [pc |-> "wait", with |-> clientReq[r].with]) /\ UNCHANGED refused
    /\ UNCHANGED <<devs, memory, vault, token, pairing, refreshMu, login, confirm, signOut,
                   cleared, expiries, others>>

\* RefreshToken, called by the user interface: no access token failed.
RefreshToken(r) ==
    /\ ReqAt(r, "rest") /\ Disturb
    /\ ReqDo(r, [pc |-> "wait", with |-> NoCredentials])
    /\ UNCHANGED <<devs, memory, vault, token, pairing, refreshMu, login, confirm, signOut,
                   cleared, refused, expiries>>

\* A request waiting for the mutex does not look at the token again (a mutant).
NeverRotated(r) == FALSE

\* The access token that failed is no longer the one in memory.
AlreadyRotated(r) ==
    clientReq[r].with # NoCredentials /\ memory # NoCredentials /\ memory # clientReq[r].with

\* refreshTokenOnce: refreshMu, then the tokens of the moment.
RefreshTokenOnce(r) ==
    /\ ReqAt(r, "wait") /\ refreshMu = Nobody
    /\ IF AlreadyRotated(r)
       THEN ReqDo(r, [pc |-> "resend"]) /\ UNCHANGED <<refreshMu, refused>>
       ELSE IF memory = NoCredentials
       THEN Reject(r) /\ UNCHANGED refreshMu
       ELSE /\ ReqDo(r, [pc |-> "refresh", token |-> memory,
                         then |-> IF clientReq[r].with = NoCredentials THEN "rest" ELSE "resend"])
            /\ refreshMu' = r /\ UNCHANGED refused
    /\ UNCHANGED <<devs, memory, vault, token, pairing, login, confirm, signOut, cleared,
                   expiries, others>>

\* The refresh at the server; its answer, or the request, may be lost.
Refresh(r) ==
    /\ ReqAt(r, "refresh")
    /\ LET c == clientReq[r].token
           n == [c EXCEPT !.generation = @ + 1]
       IN  \/ /\ devs' = Rotation(c)
              /\ IF Rotates(c)
                 THEN /\ ReqDo(r, [pc |-> "save", token |-> n, then |-> clientReq[r].then])
                      /\ UNCHANGED <<refreshMu, refused>>
                 ELSE Reject(r) /\ refreshMu' = Nobody
              /\ UNCHANGED others
           \/ /\ Disturb /\ Reject(r) /\ refreshMu' = Nobody
              /\ devs' \in {devs, IF Rotates(c) THEN [Rotation(c) EXCEPT ![c.device].lost = TRUE]
                                  ELSE Rotation(c)}
    /\ UNCHANGED <<memory, vault, token, pairing, login, confirm, signOut, cleared, expiries>>

\* SaveOAuthCredentials: first the vault, which may refuse, ...
SaveToVault(r) ==
    /\ ReqAt(r, "save")
    /\ \/ /\ vault' = clientReq[r].token
          /\ ReqDo(r, [clientReq[r] EXCEPT !.pc = "keep"])
          /\ UNCHANGED <<devs, refreshMu, refused, others>>
       \/ /\ Disturb /\ Reject(r) /\ refreshMu' = Nobody
          /\ devs' = [devs EXCEPT ![clientReq[r].token.device].lost = TRUE]
          /\ UNCHANGED vault
    /\ UNCHANGED <<memory, token, pairing, login, confirm, signOut, cleared, expiries>>

\* ... then memory; refreshMu is released.
KeepInMemory(r) ==
    /\ ReqAt(r, "keep")
    /\ memory' = clientReq[r].token
    /\ refreshMu' = Nobody
    /\ ReqDo(r, [pc |-> clientReq[r].then])
    /\ UNCHANGED <<devs, vault, token, pairing, login, confirm, signOut, cleared, refused,
                   expiries, others>>

\* doRequest again, with what is in memory by then.
Resend(r) ==
    /\ ReqAt(r, "resend")
    /\ ReqDo(r, [pc |-> "sent", with |-> memory, again |-> TRUE])
    /\ UNCHANGED <<devs, memory, vault, token, pairing, refreshMu, login, confirm, signOut,
                   cleared, refused, expiries, others>>

-----------------------------------------------------------------------------
(* Signing in and pairing. *)

\* BeginOAuthPKCE replaces the sign-in that was pending.
BeginLogin ==
    /\ login.pc \in {"rest", "pending"} /\ Disturb
    /\ login' = [pc |-> "pending", spent |-> FALSE]
    /\ UNCHANGED <<devs, memory, vault, token, pairing, clientReq, refreshMu, confirm, signOut,
                   cleared, refused, expiries>>

\* CompletePendingOAuthPKCE: a poll of the authorized sign-in makes a device;
\* when its answer is lost the sign-in stays pending for good.
CompleteLogin ==
    /\ login.pc = "pending" /\ ~login.spent /\ Len(devs) < MaxDevices
    /\ devs' = Append(devs, Device("login"))
    /\ \/ login' = [pc |-> "save", device |-> Len(devs) + 1] /\ UNCHANGED others
       \/ Disturb /\ login' = [login EXCEPT !.spent = TRUE]
    /\ UNCHANGED <<memory, vault, token, pairing, clientReq, refreshMu, confirm, signOut, cleared,
                   refused, expiries>>

SaveLogin ==
    /\ login.pc = "save"
    /\ \/ vault' = First(login.device) /\ login' = [login EXCEPT !.pc = "keep"] /\ UNCHANGED others
       \/ Disturb /\ login' = AtRest /\ UNCHANGED vault
    /\ UNCHANGED <<devs, memory, token, pairing, clientReq, refreshMu, confirm, signOut, cleared,
                   refused, expiries>>

\* Memory, and the device token, whose vault may refuse.
KeepLogin ==
    /\ login.pc = "keep"
    /\ memory' = First(login.device)
    /\ \/ token' = [memory |-> login.device, vault |-> login.device] /\ UNCHANGED others
       \/ Disturb /\ UNCHANGED token
    /\ login' = AtRest
    /\ UNCHANGED <<devs, vault, pairing, clientReq, refreshMu, confirm, signOut, cleared, refused,
                   expiries>>

\* PairingManager.Confirm: the server makes a device, ...
ConfirmPairing ==
    /\ confirm = AtRest /\ Len(devs) < MaxDevices /\ Disturb
    /\ devs' = Append(devs, Device("paired"))
    /\ confirm' = [pc |-> "token", device |-> Len(devs) + 1]
    /\ UNCHANGED <<memory, vault, token, pairing, clientReq, refreshMu, login, signOut, cleared,
                   refused, expiries>>

\* ... its token is saved, or not, ...
SaveToken ==
    /\ confirm.pc = "token"
    /\ \/ /\ token' = [memory |-> confirm.device, vault |-> confirm.device]
          /\ confirm' = [confirm EXCEPT !.pc = "pairing"]
          /\ UNCHANGED others
       \/ Disturb /\ confirm' = AtRest /\ UNCHANGED token
    /\ UNCHANGED <<devs, memory, vault, pairing, clientReq, refreshMu, login, signOut, cleared,
                   refused, expiries>>

\* ... and then its identity.
SavePairing ==
    /\ confirm.pc = "pairing"
    /\ \/ /\ pairing' = [memory |-> confirm.device, stored |-> confirm.device]
          /\ UNCHANGED others
       \/ Disturb /\ UNCHANGED pairing
    /\ confirm' = AtRest
    /\ UNCHANGED <<devs, memory, vault, token, clientReq, refreshMu, login, signOut, cleared,
                   refused, expiries>>

-----------------------------------------------------------------------------
(* Signing out. *)

\* PairingManager.Clear, RevokeAndClear: the identity and the credentials are
\* read; without an identity nothing is revoked.
Clear ==
    /\ signOut = AtRest /\ Disturb
    /\ signOut' = IF pairing.memory # 0 /\ (token.memory # 0 \/ memory # NoCredentials)
                  THEN [pc |-> "revoke", device |-> pairing.memory, token |-> token.memory,
                        with |-> memory]
                  ELSE [pc |-> "wipe", known |-> {}]
    /\ UNCHANGED <<devs, memory, vault, token, pairing, clientReq, refreshMu, login, confirm,
                   cleared, refused, expiries>>

\* The device the server is asked to revoke: with an access token it is the
\* token's own, whatever device the client names.
Revocable ==
    IF signOut.with # NoCredentials
    THEN {d \in {signOut.with.device} : Valid(signOut.with)}
    ELSE {d \in {signOut.device} : devs[d].live /\ signOut.token = d}

\* The revocation is refused, or confirmed, or its answer is lost; unless it
\* is confirmed everything stays as it was.
RevokeRemote ==
    /\ signOut.pc = "revoke"
    /\ devs' = [d \in DeviceIds |-> IF d \in Revocable THEN [devs[d] EXCEPT !.live = FALSE]
                                    ELSE devs[d]]
    /\ \/ /\ signOut' = IF Revocable # {} THEN [pc |-> "wipe", known |-> Revocable] ELSE AtRest
          /\ UNCHANGED others
       \/ Disturb /\ signOut' = AtRest
    /\ UNCHANGED <<memory, vault, token, pairing, clientReq, refreshMu, login, confirm, cleared,
                   refused, expiries>>

\* ClearAllCredentials: memory first, ...
WipeMemory ==
    /\ signOut.pc = "wipe"
    /\ token' = [token EXCEPT !.memory = 0]
    /\ memory' = NoCredentials
    /\ signOut' = [signOut EXCEPT !.pc = "delete"]
    /\ UNCHANGED <<devs, vault, pairing, clientReq, refreshMu, login, confirm, cleared, refused,
                   expiries, others>>

\* ... then the two secrets, each of which may stay; an error ends the sign-out.
DeleteSecrets ==
    /\ signOut.pc = "delete"
    /\ \/ /\ vault' = NoCredentials /\ token' = [token EXCEPT !.vault = 0]
          /\ signOut' = [signOut EXCEPT !.pc = "forget"]
          /\ UNCHANGED others
       \/ /\ Disturb /\ signOut' = AtRest
          /\ vault' \in {vault, NoCredentials} /\ UNCHANGED token
    /\ UNCHANGED <<devs, memory, pairing, clientReq, refreshMu, login, confirm, cleared, refused,
                   expiries>>

\* The identity goes last.
ForgetPairing ==
    /\ signOut.pc = "forget"
    /\ pairing' = [memory |-> 0, stored |-> 0]
    /\ cleared' = cleared \cup signOut.known
    /\ signOut' = AtRest
    /\ UNCHANGED <<devs, memory, vault, token, clientReq, refreshMu, login, confirm, refused,
                   expiries, others>>

-----------------------------------------------------------------------------
\* The application ends and starts: Restore reads what was saved.  A rotation
\* that had not reached the vault is lost.
RestartApp ==
    /\ Disturb
    /\ memory' = vault
    /\ token' = [token EXCEPT !.memory = token.vault]
    /\ pairing' = [pairing EXCEPT !.memory = pairing.stored]
    /\ clientReq' = [r \in ClientRequests |-> AtRest]
    /\ refreshMu' = Nobody
    /\ login' = AtRest /\ confirm' = AtRest /\ signOut' = AtRest
    /\ devs' = [d \in DeviceIds |->
                   [devs[d] EXCEPT !.lost = @ \/ \E r \in ClientRequests :
                        ReqAt(r, "save") /\ clientReq[r].token.device = d]]
    /\ UNCHANGED <<vault, cleared, refused, expiries>>

SessionNext ==
    \/ \E d \in DeviceIds : AccessEnds(d)
    \/ \E r \in ClientRequests :
          \/ Send(r) \/ Answered(r) \/ RefreshToken(r) \/ RefreshTokenOnce(r) \/ Refresh(r)
          \/ SaveToVault(r) \/ KeepInMemory(r) \/ Resend(r)
    \/ BeginLogin \/ CompleteLogin \/ SaveLogin \/ KeepLogin
    \/ ConfirmPairing \/ SaveToken \/ SavePairing
    \/ Clear \/ RevokeRemote \/ WipeMemory \/ DeleteSecrets \/ ForgetPairing
    \/ RestartApp

SessionSpec == SessionInit /\ [][SessionNext]_sessionVars

-----------------------------------------------------------------------------
\* However requests, refreshes, sign-ins, sign-outs and restarts overlap: the
\* client never presents a refresh token it has used, so that the server ends
\* its sessions for a replay only when the answer to a rotation never reached
\* the vault; one access token that ends fails no request; and the device that
\* a successful sign-out revoked stays revoked, though a refresh it overtook
\* may put its credentials back.
CredentialsAreSound ==
    /\ SessionTypeOK
    /\ \A d \in DeviceIds : devs[d].replayed => devs[d].lost
    /\ refused => expiries >= 2 \/ others >= 1
    /\ \A d \in cleared : ~devs[d].live
=============================================================================
