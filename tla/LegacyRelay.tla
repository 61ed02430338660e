---------------------------- MODULE LegacyRelay ----------------------------
(***************************************************************************)
(* The compatibility endpoints of the relay server (internal/api/server.go *)
(* over internal/store): pairing of devices by code, envelopes from a      *)
(* desktop to a device, their acknowledgement, paging through them, and    *)
(* the revocation of a device.  The store is the process' memory or the    *)
(* database; in the database a message takes its cursor when its INSERT    *)
(* begins and is seen when it commits.                                     *)
(***************************************************************************)
EXTENDS Naturals, FiniteSets, FiniteSetsExt

CONSTANTS RelayCodes,     \* the pairing codes that can be drawn
          Desktop, Phone, \* the devices that pairing can create
          Envelopes,      \* the ids of envelopes
          RelayHandlers,  \* concurrent requests
          SyncPage,       \* envelopes in an answer, at most 100 in the code
          MaxPosts        \* bound: requests made

ASSUME RelayAssumption == Desktop # Phone /\ SyncPage \in Nat \ {0} /\ MaxPosts \in Nat

VARIABLES durable,   \* the database holds the store
          codes,     \* pairing codes handed out, and whether they expired
          devices,   \* rows of devices: type and whether revoked
          rows,      \* messages by id and account: cursor, seen by others, acknowledged
          lastCursor,\* the last cursor taken
          published, \* keys of messages the hub was handed
          relayReq,  \* the requests in progress
          posts,     \* requests made so far
          reader,    \* the phone: its cursor and what it has received
          relayed,   \* keys of messages whose publication was answered as accepted
          paired,    \* for each code, the devices it created
          ackedIds   \* ids whose acknowledgement was confirmed

relayVars == <<durable, codes, devices, rows, lastCursor, published, relayReq, posts,
               reader, relayed, paired, ackedIds>>

RelayDevices == {Desktop, Phone}
TypeOfDevice(d) == IF d = Desktop THEN "desktop" ELSE "mobile"

NoRequest == [op |-> "free"]

RelayInit ==
    /\ durable \in BOOLEAN
    /\ \E S \in {{}, RelayDevices} : devices = [d \in S |-> "live"]
    /\ codes = << >> /\ rows = << >> /\ lastCursor = 0
    /\ published = {} /\ posts = 0
    /\ relayReq = [h \in RelayHandlers |-> NoRequest]
    /\ reader = [cursor |-> 0, got |-> {}]
    /\ relayed = {} /\ ackedIds = {}
    /\ paired = [k \in RelayCodes |-> {}]

InRequest(h, op) == relayReq[h].op = op
Continue(h, r) == relayReq' = [relayReq EXCEPT ![h] = r]
Reply(h) == Continue(h, NoRequest)
LiveDevice(d) == d \in DOMAIN devices /\ devices[d] = "live"

\* VerifyTokenType, then DeviceIDForToken: the token's device is of the type
\* asked for and has not been revoked.
AuthDevice(d, type) == TypeOfDevice(d) = type /\ LiveDevice(d)

Post(h) == InRequest(h, "free") /\ posts < MaxPosts /\ posts' = posts + 1

-----------------------------------------------------------------------------
(* Pairing. *)

\* A code is drawn; the database refuses one it holds already, the memory store
\* overwrites it.  A code that made a device is not drawn again: there are a
\* million.
Pair(h) ==
    /\ Post(h)
    /\ \E k \in {c \in RelayCodes : paired[c] = {} /\ \A g \in RelayHandlers :
                                        InRequest(g, "pair") => relayReq[g].code # c} :
          /\ codes' = IF durable /\ k \in DOMAIN codes THEN codes
                      ELSE [j \in DOMAIN codes \cup {k} |-> IF j = k THEN "open" ELSE codes[j]]
          /\ Continue(h, NoRequest)
    /\ UNCHANGED <<durable, devices, rows, lastCursor, published, reader, relayed,
                   paired, ackedIds>>

CodeExpires(k) ==
    /\ k \in DOMAIN codes /\ codes[k] = "open"
    /\ codes' = [codes EXCEPT ![k] = "expired"]
    /\ UNCHANGED <<durable, devices, rows, lastCursor, published, relayReq, posts, reader,
                   relayed, paired, ackedIds>>

Without(f, k) == [j \in DOMAIN f \ {k} |-> f[j]]

\* ConsumePair deletes the code in the step that finds it; an expired one is
\* refused, and dropped by the memory store.
ConsumePair(h) ==
    /\ Post(h)
    /\ \E k \in DOMAIN codes, d \in RelayDevices \ DOMAIN devices :
          IF codes[k] = "open"
          THEN codes' = Without(codes, k) /\ Continue(h, [op |-> "pair", code |-> k, dev |-> d])
          ELSE codes' = (IF durable THEN codes ELSE Without(codes, k)) /\ Continue(h, NoRequest)
    /\ UNCHANGED <<durable, devices, rows, lastCursor, published, reader, relayed,
                   paired, ackedIds>>

\* AddDevice: the consumed code becomes a device, or the insert fails.
AddDevice(h) ==
    /\ InRequest(h, "pair")
    /\ \/ /\ relayReq[h].dev \notin DOMAIN devices
          /\ devices' = [d \in DOMAIN devices \cup {relayReq[h].dev} |->
                           IF d = relayReq[h].dev THEN "live" ELSE devices[d]]
          /\ paired' = [paired EXCEPT ![relayReq[h].code] = @ \cup {relayReq[h].dev}]
       \/ UNCHANGED <<devices, paired>>
    /\ Reply(h)
    /\ UNCHANGED <<durable, codes, rows, lastCursor, published, posts, reader, relayed, ackedIds>>

-----------------------------------------------------------------------------
(* Publication: authentication, the account with the recipient, the check for
   a duplicate, the row and the hub are one step each. *)

PublishEnvelope(h, id) ==
    /\ Post(h) /\ AuthDevice(Desktop, "desktop")
    /\ Continue(h, [op |-> "account", id |-> id])
    /\ UNCHANGED <<durable, codes, devices, rows, lastCursor, published, reader, relayed,
                   paired, ackedIds>>

\* DeviceAccountID finds nothing for a device revoked meanwhile; the account of
\* the envelope is then empty and no account is asked of the recipient.
PublishAccount(h) ==
    /\ InRequest(h, "account")
    /\ Continue(h, IF LiveDevice(Phone)
                   THEN [op |-> "has", id |-> relayReq[h].id, bound |-> LiveDevice(Desktop)]
                   ELSE NoRequest)
    /\ UNCHANGED <<durable, codes, devices, rows, lastCursor, published, posts, reader,
                   relayed, paired, ackedIds>>

\* The key of a message: its id, and whether it is in the account of the devices
\* or in the empty one.
MessageKey(h) == <<relayReq[h].id, relayReq[h].bound>>

\* Mutant: the account is left out of the look-up.
SeenAnywhere(k) == \E b \in BOOLEAN : <<k[1], b>> \in DOMAIN rows /\ rows[<<k[1], b>>].seen

\* HasMessage looks for the id in the account.
Seen(k) == k \in DOMAIN rows /\ rows[k].seen

HasMessage(h) ==
    /\ InRequest(h, "has")
    /\ IF Seen(MessageKey(h))
       THEN relayed' = relayed \cup {MessageKey(h)} /\ Reply(h)
       ELSE Continue(h, [relayReq[h] EXCEPT !.op = "put"]) /\ UNCHANGED relayed
    /\ UNCHANGED <<durable, codes, devices, rows, lastCursor, published, posts, reader,
                   paired, ackedIds>>

\* PutMessage: the row takes the next cursor; one that is there stays as it is.
\* In the database the row is seen when the statement commits, a second insert
\* of the id waits for that, and the id of another account's row is an error:
\* the primary key is the id alone.
PutMessage(h) ==
    /\ InRequest(h, "put")
    /\ LET key == MessageKey(h)
           same == {k \in DOMAIN rows : k = key \/ (durable /\ k[1] = key[1])}
       IN  \/ /\ same = {}
              /\ lastCursor' = lastCursor + 1
              /\ rows' = [k \in DOMAIN rows \cup {key} |->
                            IF k # key THEN rows[k]
                            ELSE [cursor |-> lastCursor + 1, seen |-> ~durable, acked |-> FALSE]]
              /\ Continue(h, [relayReq[h] EXCEPT !.op = IF durable THEN "commit" ELSE "hub"])
           \/ /\ same # {} /\ \A k \in same : rows[k].seen
              /\ IF key \in same THEN Continue(h, [relayReq[h] EXCEPT !.op = "hub"]) ELSE Reply(h)
              /\ UNCHANGED <<rows, lastCursor>>
    /\ UNCHANGED <<durable, codes, devices, published, posts, reader, relayed, paired, ackedIds>>

\* The insert commits, or fails and takes its cursor with it.
CommitMessage(h) ==
    /\ InRequest(h, "commit")
    /\ \/ rows' = [rows EXCEPT ![MessageKey(h)].seen = TRUE]
          /\ Continue(h, [relayReq[h] EXCEPT !.op = "hub"])
       \/ rows' = Without(rows, MessageKey(h)) /\ Reply(h)
    /\ UNCHANGED <<durable, codes, devices, lastCursor, published, posts, reader, relayed,
                   paired, ackedIds>>

\* The hub gets the event; its failure is ignored.
PublishHub(h) ==
    /\ InRequest(h, "hub")
    /\ published' \in {published, published \cup {MessageKey(h)}}
    /\ relayed' = relayed \cup {MessageKey(h)}
    /\ Reply(h)
    /\ UNCHANGED <<durable, codes, devices, rows, lastCursor, posts, reader, paired, ackedIds>>

-----------------------------------------------------------------------------
(* Acknowledgement, synchronisation and revocation. *)

\* The rows the phone still has to acknowledge.
Mine == {k \in DOMAIN rows : k[2] /\ rows[k].seen /\ ~rows[k].acked}

\* The phone acknowledges an envelope of its own: the memory store deletes the
\* row, the database marks it once.
Ack(h) ==
    /\ Post(h) /\ AuthDevice(Phone, "mobile")
    /\ \E k \in Mine :
          /\ rows' = IF durable THEN [rows EXCEPT ![k].acked = TRUE] ELSE Without(rows, k)
          /\ ackedIds' = ackedIds \cup {k[1]}
    /\ Reply(h)
    /\ UNCHANGED <<durable, codes, devices, lastCursor, published, reader, relayed, paired>>

\* Of some rows the n with the smallest cursors.
Smallest(S, n) == {k \in S : Cardinality({j \in S : rows[j].cursor < rows[k].cursor}) < n}

\* The rows of the phone above a cursor, in cursor order, at most n of them.
ListMessages(after, n) == Smallest({k \in Mine : rows[k].cursor > after}, n)

\* One row more than the page is read, to know whether there are more; the
\* cursor of the answer is that of the last row of the page.
PageOf(after) ==
    LET page == Smallest(ListMessages(after, SyncPage + 1), SyncPage)
    IN  [rows |-> page, cursor |-> Max({after} \cup {rows[k].cursor : k \in page})]

WriteSync(h) ==
    /\ Post(h) /\ AuthDevice(Phone, "mobile")
    /\ LET p == PageOf(reader.cursor)
       IN  reader' = [cursor |-> p.cursor, got |-> reader.got \cup {k[1] : k \in p.rows}]
    /\ Reply(h)
    /\ UNCHANGED <<durable, codes, devices, rows, lastCursor, published, relayed, paired, ackedIds>>

\* A device revokes itself with its own token.
Revoke(h) ==
    /\ Post(h)
    /\ \E d \in RelayDevices : LiveDevice(d) /\ devices' = [devices EXCEPT ![d] = "revoked"]
    /\ Reply(h)
    /\ UNCHANGED <<durable, codes, rows, lastCursor, published, reader, relayed, paired, ackedIds>>

\* The process stops: its requests are gone, an open insert is rolled back, and
\* the memory store with everything it held.
RelayCrash ==
    /\ \E h \in RelayHandlers : relayReq[h] # NoRequest
    /\ relayReq' = [h \in RelayHandlers |-> NoRequest]
    /\ IF durable
       THEN /\ rows' = [i \in {j \in DOMAIN rows : rows[j].seen} |-> rows[i]]
            /\ UNCHANGED <<codes, devices, relayed, ackedIds, lastCursor, reader, paired>>
       ELSE /\ rows' = << >> /\ codes' = << >> /\ devices' = << >>
            /\ relayed' = {} /\ ackedIds' = {} /\ lastCursor' = 0
            /\ reader' = [cursor |-> 0, got |-> {}]
            /\ paired' = [k \in RelayCodes |-> {}]
    /\ published' = {}
    /\ UNCHANGED <<durable, posts>>

RelayNext ==
    \/ RelayCrash
    \/ \E k \in RelayCodes : CodeExpires(k)
    \/ \E h \in RelayHandlers :
          \/ Pair(h) \/ ConsumePair(h) \/ AddDevice(h)
          \/ PublishAccount(h) \/ HasMessage(h) \/ PutMessage(h) \/ CommitMessage(h)
          \/ PublishHub(h) \/ Ack(h) \/ WriteSync(h) \/ Revoke(h)
          \/ \E id \in Envelopes : PublishEnvelope(h, id)

RelaySpec == RelayInit /\ [][RelayNext]_relayVars

-----------------------------------------------------------------------------
(* What the endpoints promise. *)

\* A row: its cursor, whether others than its insert see it, and whether the
\* phone acknowledged it.
RelayRow == [cursor : 1 .. lastCursor, seen : BOOLEAN, acked : BOOLEAN]

\* What a request is doing, and with what.
RelayRequest == [op : {"free"}] \cup [op : {"pair"}, code : RelayCodes, dev : RelayDevices]
                \cup [op : {"account"}, id : Envelopes]
                \cup [op : {"has", "put", "commit", "hub"}, id : Envelopes, bound : BOOLEAN]

RelayTypeOK ==
    /\ durable \in BOOLEAN /\ lastCursor \in Nat
    /\ codes \in [DOMAIN codes -> {"open", "expired"}] /\ DOMAIN codes \subseteq RelayCodes
    /\ devices \in [DOMAIN devices -> {"live", "revoked"}] /\ DOMAIN devices \subseteq RelayDevices
    /\ rows \in [DOMAIN rows -> RelayRow] /\ DOMAIN rows \subseteq Envelopes \X BOOLEAN
    /\ published \cup relayed \subseteq Envelopes \X BOOLEAN /\ ackedIds \subseteq Envelopes
    /\ relayReq \in [RelayHandlers -> RelayRequest] /\ posts \in 0 .. MaxPosts
    /\ reader \in [cursor : 0 .. lastCursor, got : SUBSET Envelopes]
    /\ paired \in [RelayCodes -> SUBSET RelayDevices]

\* The pages read on from a cursor reach row k.
StillAhead(after, k) == k \in Mine /\ rows[k].cursor > after

\* Every variable has its type, and however publications of one id,
\* acknowledgements, restarts and failures of the hub interleave: an envelope
\* answered as accepted, or handed to the hub, in the account of the devices is
\* among those the phone's synchronisation lists, until the phone acknowledges
\* it; the reader of a process that keeps its messages in memory has received a
\* message or will find it ahead; and a code pairs one device.  Excepted is what
\* was accepted into the empty account, because the desktop was revoked between
\* its authentication and the look-up of its account: such a row is stored, and
\* no synchronisation lists it.
AcceptedIsRecoverable ==
    /\ RelayTypeOK
    /\ \A k \in relayed \cup published :
          IF k[2] THEN k \in Mine \/ k[1] \in ackedIds ELSE Seen(k)
    /\ ~durable => \A k \in Mine : k[1] \in reader.got \/ StillAhead(reader.cursor, k)
    /\ \A c \in RelayCodes : Cardinality(paired[c]) <= 1
=============================================================================
