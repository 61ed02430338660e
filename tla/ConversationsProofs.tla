------------------------ MODULE ConversationsProofs ------------------------
(***************************************************************************)
(* Proofs about Conversations, for any conversations, keys, runs, handlers *)
(* and bounds, and for both repositories.  The inductive invariant relates *)
(* what handlers hold between their check and their write to the rows: a   *)
(* message about to be committed has a cursor and a key of its own, a run  *)
(* about to be created is not there, and what a reconcile request did not  *)
(* read is of a conversation it has still to read, or late.                *)
(*                                                                         *)
(* Then about Delivery, on which clients hear of them: the hub's queue of  *)
(* a device, where the inductive invariant says what is in the queue and   *)
(* in each channel by cursor, and the acknowledgements.                    *)
(***************************************************************************)
EXTENDS Conversations, Delivery, OrderLemmas

Committing(h) == req[h].op = "commit"

\* Cursors in use have been drawn; PostgreSQL has one sequence for all.
CursorsDrawn ==
    /\ \A m \in messages : m.cursor <= issued[m.conv]
    /\ \A h \in Handlers : Committing(h) => req[h].cursor <= issued[req[h].conv]
    /\ durable => \A c, d \in Convs : issued[c] = issued[d]

\* An open transaction is of PostgreSQL; nobody else has its key or cursor.
CommitsApart ==
    /\ \A h \in Handlers : Committing(h) =>
         /\ durable
         /\ ~ Stored(req[h].conv, req[h].key)
         /\ req[h].cursor \notin Cursors(messages)
    /\ \A g, h \in Handlers : Committing(g) /\ Committing(h) /\ g # h =>
         /\ req[g].cursor # req[h].cursor
         /\ req[g].conv = req[h].conv => req[g].key # req[h].key

\* A run about to be created is not there, and one handler creates it; a run
\* about to be ended is there.
StartsApart ==
    /\ \A h \in Handlers : req[h].op = "end" => run[req[h].run] # "none"
    /\ \A h \in Handlers : req[h].op = "start" => run[req[h].run] = "none"
    /\ \A g, h \in Handlers : req[g].op = "start" /\ req[h].op = "start" /\ g # h =>
         req[g].run # req[h].run

\* Messages, sent or about to be, are of conversations that were created.
ConvsKnown ==
    /\ \A m \in messages : conv[m.conv] # "none"
    /\ \A h \in Handlers : req[h].op \in {"send", "commit"} => conv[req[h].conv] # "none"

\* A message the reconcile request need not hold.
Excused(m) ==
    \/ <<m.conv, m.cursor>> \in snap.held
    \/ m.conv \in snap.cut
    \/ IF durable THEN m.cursor \in snap.late ELSE m.cursor > snap.drawn[m.conv]

\* What is drawn after the boundary is beyond it, or late.
SnapshotSound ==
    /\ DOMAIN snap = {"at", "boundary", "todo", "held", "cut", "late", "drawn"}
    /\ snap.at # "idle" =>
         /\ durable => snap.boundary \in Nat
         /\ \A c \in Convs : /\ snap.drawn[c] \in Nat /\ snap.drawn[c] <= issued[c]
                             /\ durable => snap.boundary <= issued[c]
         /\ \A h \in Handlers : Committing(h) /\ req[h].cursor <= snap.boundary =>
              req[h].cursor \in snap.late
         /\ snap.at # "list" => \A m \in messages :
              m.cursor <= snap.boundary /\ m.conv \notin snap.todo => Excused(m)
         /\ snap.at = "done" => snap.todo = {}

ConvInv == /\ ConversationsInvariant /\ RunStatesAnnounced
           /\ IsFiniteSet(messages)
           /\ CursorsDrawn /\ CommitsApart /\ StartsApart /\ ConvsKnown /\ SnapshotSound

-----------------------------------------------------------------------------
LEMMA InitConversations == Init => ConvInv
<1> SUFFICES ASSUME Init PROVE ConvInv
  OBVIOUS
<1>1. /\ \A h \in Handlers : req[h].op = "idle"
      /\ messages = {} /\ intents = {} /\ announced = {} /\ snap.at = "idle"
      /\ snap.todo = {} /\ snap.cut = {}
      /\ issued = [c \in Convs |-> 0] /\ run = [r \in Runs |-> "none"]
  BY DEF Init, Idle, NoSnapshot
<1>2. TypeOK
  <2>1. req \in [Handlers -> Request]
    BY DEF Init, Request
  <2>2. 0 \in 0 .. MaxRequests /\ 0 \in 0 .. MaxEvents
    BY ConversationsAssumption
  <2> QED BY <1>1, <2>1, <2>2 DEF Init, TypeOK
<1>3. OneMessagePerKey /\ RunStatesAnnounced
  BY <1>1 DEF OneMessagePerKey, RunStatesAnnounced, Cursors, EndStates
<1>4. IsFiniteSet(messages)
  BY <1>1, FS_EmptySet
<1>5. CursorsDrawn /\ CommitsApart /\ StartsApart /\ ConvsKnown /\ SnapshotSound
  <2>1. DOMAIN snap = {"at", "boundary", "todo", "held", "cut", "late", "drawn"}
    BY DEF Init, NoSnapshot
  <2> QED BY <1>1, <2>1 DEF CursorsDrawn, CommitsApart, StartsApart, ConvsKnown, SnapshotSound, Committing
<1> QED BY <1>2, <1>3, <1>4, <1>5 DEF ConvInv, ConversationsInvariant

\* What a checked request holds.
LEMMA RequestKinds ==
    ASSUME NEW q \in Request
    PROVE  /\ q.op = "send" => q.conv \in Convs /\ q.key \in Keys
           /\ q.op = "commit" => q.conv \in Convs /\ q.key \in Keys /\ q.cursor \in Cursor
           /\ q.op = "advance" => q.conv \in Convs /\ q.cursor \in Cursor /\ q.status \in Statuses
           /\ q.op = "start" => q.run \in Runs
           /\ q.op = "end" => q.run \in Runs /\ q.status \in {"cancelled", "timed_out"}
           /\ q.op = "publish" => q.run \in Runs /\ q.type \in EventTypes
BY DEF Request, Idle

LEMMA IdleRequest == Idle \in Request /\ Idle.op = "idle"
BY DEF Request, Idle

\* A handler goes on to a request that is no open transaction, while runs may
\* change that no other handler is about to create or end.
Goes(h, q) ==
    /\ q \in Request /\ q.op # "commit" /\ req' = [req EXCEPT ![h] = q]
    /\ q.op = "send" => conv[q.conv] # "none"
    /\ q.op = "start" => /\ run'[q.run] = "none"
                         /\ \A g \in Handlers : req[g].op = "start" => req[g].run # q.run
    /\ q.op = "end" => run'[q.run] # "none"
    /\ \A g \in Handlers \ {h} :
         /\ req[g].op = "start" => run'[req[g].run] = "none"
         /\ req[g].op = "end" => run'[req[g].run] # "none"

LEMMA GoesOn ==
    ASSUME ConvInv, NEW h \in Handlers, NEW q, Goes(h, q),
           UNCHANGED <<durable, conv, messages, issued, intents, snap>>,
           run' \in [Runs -> {"none"} \cup RunStates], events' \in [Runs -> 0 .. MaxEvents],
           announced' \subseteq Runs \X EventTypes, requests' \in 0 .. MaxRequests,
           RunStatesAnnounced'
    PROVE  ConvInv'
<1> USE DEF ConvInv, ConversationsInvariant
<1>1. /\ req' \in [Handlers -> Request] /\ req'[h] = q /\ q.op # "commit"
      /\ \A g \in Handlers : g # h => req'[g] = req[g]
  BY DEF TypeOK, Goes
<1>2. TypeOK'
  BY <1>1 DEF TypeOK, Message, Cursor
<1>3. OneMessagePerKey'
  BY DEF OneMessagePerKey, Cursors
<1>4. CursorsDrawn' /\ CommitsApart'
  BY <1>1 DEF CursorsDrawn, CommitsApart, Committing, Stored, Cursors
<1>5. StartsApart'
  BY <1>1 DEF StartsApart, Goes
<1>6. ConvsKnown'
  BY <1>1 DEF ConvsKnown, Goes
<1>7. SnapshotSound'
  BY <1>1 DEF SnapshotSound, Committing, Excused
<1> QED BY <1>2, <1>3, <1>4, <1>5, <1>6, <1>7

\* A message with a key and a cursor of its own becomes visible.
Appears(h, c, k, n) ==
    /\ c \in Convs /\ k \in Keys /\ n \in Cursor /\ conv[c] # "none" /\ ~ Stored(c, k)
    /\ messages' = messages \cup {NewMessage(c, k, n)}
    /\ req' = [req EXCEPT ![h] = Idle]
    /\ \A m \in messages : durable \/ m.conv = c => m.cursor # n
    /\ \A g \in Handlers \ {h} : Committing(g) =>
         /\ req[g].cursor # n
         /\ req[g].conv = c => req[g].key # k
    /\ issued' \in [Convs -> Nat] /\ n <= issued'[c]
    /\ \A d \in Convs : issued[d] <= issued'[d]
    /\ durable => issued' = issued
    /\ intents' = IF durable THEN intents \cup {n} ELSE intents
    /\ snap.at # "idle" /\ n <= snap.boundary =>
         IF durable THEN n \in snap.late ELSE n > snap.drawn[c]
    /\ UNCHANGED <<durable, conv, run, events, announced, snap, requests>>

LEMMA MessageAppears ==
    ASSUME ConvInv, NEW h \in Handlers, NEW c, NEW k, NEW n, Appears(h, c, k, n)
    PROVE  ConvInv'
<1> USE DEF ConvInv, ConversationsInvariant, Appears
<1>1. /\ req' \in [Handlers -> Request] /\ req'[h] = Idle /\ Idle.op = "idle"
      /\ \A g \in Handlers : g # h => req'[g] = req[g]
  BY IdleRequest DEF TypeOK
<1>2. PICK w : w = NewMessage(c, k, n)
  OBVIOUS
<1>3. /\ w \in Message /\ w.conv = c /\ w.key = k /\ w.cursor = n
      /\ messages' = messages \cup {w}
  BY <1>2 DEF NewMessage, Message, Statuses, Rank
<1>4. /\ messages \subseteq Message
      /\ \A m \in messages : m.conv \in Convs /\ m.key \in Keys /\ m.cursor \in Cursor
  BY DEF TypeOK, Message
<1>5. TypeOK'
  BY <1>1, <1>3 DEF TypeOK
<1>6. OneMessagePerKey'
  BY <1>3 DEF OneMessagePerKey, Cursors, Stored
<1>7. RunStatesAnnounced'
  BY DEF RunStatesAnnounced
<1>8. IsFiniteSet(messages')
  BY <1>3, FS_AddElement
<1>9. CursorsDrawn'
  <2>1. \A d \in Convs : issued[d] \in Nat /\ issued'[d] \in Nat
    BY DEF TypeOK
  <2>2. \A g \in Handlers : Committing(g)' =>
           req[g].conv \in Convs /\ req[g].cursor \in Nat /\ req'[g] = req[g] /\ Committing(g)
    BY <1>1, RequestKinds DEF Committing, TypeOK, Cursor
  <2>3. \A g \in Handlers : Committing(g)' => req'[g].cursor <= issued'[req'[g].conv]
    BY <2>1, <2>2 DEF CursorsDrawn
  <2>4. \A m \in messages' : m.cursor <= issued'[m.conv]
    BY <1>3, <1>4, <2>1 DEF CursorsDrawn, Cursor
  <2> QED BY <2>3, <2>4 DEF CursorsDrawn
<1>10. CommitsApart'
  BY <1>1, <1>3 DEF CommitsApart, Committing, Stored, Cursors
<1>11. StartsApart' /\ ConvsKnown'
  BY <1>1, <1>3 DEF StartsApart, ConvsKnown
<1>12. SnapshotSound'
  <2> SUFFICES ASSUME snap.at # "idle" PROVE SnapshotSound'
    BY DEF SnapshotSound
  <2>1. /\ durable => snap.boundary \in Nat
        /\ \A d \in Convs : /\ snap.drawn[d] \in Nat /\ snap.drawn[d] <= issued'[d]
                            /\ durable => snap.boundary <= issued'[d]
    BY DEF SnapshotSound, TypeOK
  <2>2. \A g \in Handlers : Committing(g)' /\ req'[g].cursor <= snap.boundary =>
           req'[g].cursor \in snap.late
    BY <1>1 DEF SnapshotSound, Committing
  <2>3. n <= snap.boundary => Excused(w)'
    BY <1>3 DEF Excused
  <2>4. \A m \in messages : Excused(m) => Excused(m)'
    BY DEF Excused
  <2>5. snap.at # "list" => \A m \in messages' :
           m.cursor <= snap.boundary /\ m.conv \notin snap.todo => Excused(m)'
    BY <1>3, <2>3, <2>4 DEF SnapshotSound
  <2> QED BY <2>1, <2>2, <2>5 DEF SnapshotSound
<1> QED BY <1>5, <1>6, <1>7, <1>8, <1>9, <1>10, <1>11, <1>12

\* A cursor beyond all others is drawn, and a transaction begins with it.
LEMMA TransactionBegins ==
    ASSUME ConvInv, NEW h \in Handlers, NEW c \in Convs, NEW k \in Keys, durable,
           conv[c] # "none", ~ Stored(c, k), ~ Locked(c, k), Draw(c),
           req' = [req EXCEPT ![h] = [op |-> "commit", conv |-> c, key |-> k,
                                      cursor |-> NextCursor(c)]],
           UNCHANGED <<durable, conv, messages, intents, run, events, announced, snap, requests>>
    PROVE  ConvInv'
<1> USE DEF ConvInv, ConversationsInvariant
<1> DEFINE n == NextCursor(c)
           q == [op |-> "commit", conv |-> c, key |-> k, cursor |-> n]
<1>1. /\ issued' \in [Convs -> Nat] /\ n \in Cursor
      /\ \A d \in Convs : issued[d] \in Nat /\ issued'[d] = issued[d] + 1 /\ issued'[d] = n
  BY DEF TypeOK, Draw, NextCursor, Cursor, CursorsDrawn
<1>2. \A d \in Convs : issued[d] < n /\ issued[d] <= issued'[d] /\ n <= issued'[d]
  BY <1>1 DEF Cursor
<1>3. /\ q \in Request /\ q.op = "commit" /\ q.conv = c /\ q.key = k /\ q.cursor = n
      /\ req' = [req EXCEPT ![h] = q]
  BY <1>1 DEF Request
<1> HIDE DEF q, n
<1>4. /\ req' \in [Handlers -> Request] /\ req'[h] = q
      /\ \A g \in Handlers : g # h => req'[g] = req[g]
  BY <1>3 DEF TypeOK
<1>5. \A m \in messages : m.conv \in Convs /\ m.cursor \in Nat
  BY DEF TypeOK, Message, Cursor
<1>6. \A g \in Handlers : Committing(g) => req[g].conv \in Convs /\ req[g].cursor \in Nat
  BY RequestKinds DEF Committing, TypeOK, Cursor
<1>7. TypeOK'
  BY <1>1, <1>4 DEF TypeOK, Message, Cursor
<1>8. OneMessagePerKey' /\ RunStatesAnnounced' /\ IsFiniteSet(messages')
  BY DEF OneMessagePerKey, RunStatesAnnounced, Cursors
<1>9. CursorsDrawn'
  <2>1. \A m \in messages : m.cursor <= issued'[m.conv]
    BY <1>1, <1>5 DEF CursorsDrawn
  <2>2. \A g \in Handlers : Committing(g)' => req'[g].cursor <= issued'[req'[g].conv]
    <3> SUFFICES ASSUME NEW g \in Handlers, Committing(g)'
                 PROVE  req'[g].cursor <= issued'[req'[g].conv]
      OBVIOUS
    <3>1. CASE g = h
      BY <1>2, <1>3, <1>4, <3>1
    <3>2. CASE g # h
      BY <1>1, <1>4, <1>6, <3>2 DEF Committing, CursorsDrawn
    <3> QED BY <3>1, <3>2
  <2> QED BY <1>1, <2>1, <2>2 DEF CursorsDrawn
<1>10. CommitsApart'
  <2>1. n \notin Cursors(messages)
    BY <1>2, <1>5, <1>1 DEF CursorsDrawn, Cursors, Cursor
  <2>2. \A g \in Handlers : Committing(g) =>
          req[g].cursor # n /\ (req[g].conv = c => req[g].key # k)
    BY <1>1, <1>2, <1>6 DEF CursorsDrawn, Cursor, Committing, Locked
  <2> QED BY <1>3, <1>4, <2>1, <2>2 DEF CommitsApart, Committing, Stored, Cursors
<1>11. StartsApart' /\ ConvsKnown'
  BY <1>3, <1>4 DEF StartsApart, ConvsKnown
<1>12. SnapshotSound'
  <2> SUFFICES ASSUME snap.at # "idle" PROVE SnapshotSound'
    BY DEF SnapshotSound
  <2>1. /\ snap.boundary \in Nat /\ snap.boundary <= issued[c]
        /\ \A d \in Convs : /\ snap.drawn[d] \in Nat /\ snap.drawn[d] <= issued'[d]
                            /\ snap.boundary <= issued'[d]
    BY <1>1 DEF SnapshotSound
  <2>2. ~ (n <= snap.boundary)
    BY <1>1, <1>2, <2>1 DEF Cursor
  <2>3. \A g \in Handlers : Committing(g)' /\ req'[g].cursor <= snap.boundary =>
           req'[g].cursor \in snap.late
    BY <1>3, <1>4, <2>2 DEF SnapshotSound, Committing
  <2> QED BY <2>1, <2>3 DEF SnapshotSound, Excused
<1> QED BY <1>7, <1>8, <1>9, <1>10, <1>11, <1>12

-----------------------------------------------------------------------------
LEMMA InsertStep ==
    ASSUME ConvInv, NEW h \in Handlers, InsertMessage(h)
    PROVE  ConvInv'
<1> DEFINE c == req[h].conv
           k == req[h].key
           n == NextCursor(c)
<1>1. /\ req[h].op = "send" /\ ~ Locked(c, k)
      /\ IF Stored(c, k)
         THEN req' = [req EXCEPT ![h] = Idle] /\ UNCHANGED <<issued, messages>>
         ELSE /\ Draw(c)
              /\ IF durable
                 THEN /\ req' = [req EXCEPT ![h] = [op |-> "commit", conv |-> c,
                                                    key |-> k, cursor |-> n]]
                      /\ UNCHANGED messages
                 ELSE /\ messages' = messages \cup {NewMessage(c, k, n)}
                      /\ req' = [req EXCEPT ![h] = Idle]
      /\ UNCHANGED <<durable, conv, intents, run, events, announced, snap, requests>>
  BY DEF InsertMessage, Done
<1>2. c \in Convs /\ k \in Keys /\ conv[c] # "none"
  <2>1. req[h] \in Request
    BY DEF ConvInv, ConversationsInvariant, TypeOK
  <2> QED BY <1>1, <2>1, RequestKinds DEF ConvInv, ConvsKnown
<1> HIDE DEF c, k
<1>3. CASE Stored(c, k)
  <2>1. Goes(h, Idle)
    BY <1>1, <1>3, IdleRequest DEF Goes, ConvInv, StartsApart
  <2>2. RunStatesAnnounced'
    BY <1>1 DEF ConvInv, RunStatesAnnounced
  <2> QED BY <1>1, <1>3, <2>1, <2>2, GoesOn DEF ConvInv, ConversationsInvariant, TypeOK
<1>4. CASE ~ Stored(c, k) /\ durable
  BY <1>1, <1>2, <1>4, TransactionBegins
<1>5. CASE ~ Stored(c, k) /\ ~ durable
  <2>1. /\ issued' = [issued EXCEPT ![c] = n] /\ issued[c] \in Nat
        /\ issued' \in [Convs -> Nat] /\ n \in Cursor /\ issued'[c] = n
        /\ \A d \in Convs : issued[d] <= issued'[d]
    BY <1>1, <1>2, <1>5 DEF ConvInv, ConversationsInvariant, TypeOK, Draw, NextCursor, Cursor
  <2>2. \A m \in messages : m.conv = c => m.cursor # n
    BY <1>2, <2>1 DEF ConvInv, ConversationsInvariant, TypeOK, Message, Cursor, CursorsDrawn,
                      NextCursor
  <2>3. \A g \in Handlers : ~ Committing(g)
    BY <1>5 DEF ConvInv, CommitsApart
  <2>4. snap.at # "idle" => n > snap.drawn[c]
    BY <1>2, <2>1 DEF ConvInv, SnapshotSound, NextCursor
  <2>5. Appears(h, c, k, n)
    <3>1. n <= issued'[c]
      BY <2>1 DEF Cursor
    <3> HIDE DEF n
    <3> QED BY <1>1, <1>2, <1>5, <2>1, <2>2, <2>3, <2>4, <3>1 DEF Appears
  <2> HIDE DEF n
  <2> QED BY <2>5, MessageAppears
<1> QED BY <1>3, <1>4, <1>5

LEMMA CommitStep ==
    ASSUME ConvInv, NEW h \in Handlers, CommitMessage(h)
    PROVE  ConvInv'
<1> DEFINE c == req[h].conv
           k == req[h].key
           n == req[h].cursor
<1>1. /\ Committing(h) /\ messages' = messages \cup {NewMessage(c, k, n)}
      /\ intents' = intents \cup {n} /\ req' = [req EXCEPT ![h] = Idle]
      /\ UNCHANGED <<durable, conv, issued, run, events, announced, snap, requests>>
  BY DEF CommitMessage, Done, Committing
<1>2. /\ c \in Convs /\ k \in Keys /\ n \in Cursor /\ conv[c] # "none"
      /\ durable /\ ~ Stored(c, k) /\ n \notin Cursors(messages)
      /\ n <= issued[c]
      /\ snap.at # "idle" /\ n <= snap.boundary => n \in snap.late
  <2>1. req[h] \in Request
    BY DEF ConvInv, ConversationsInvariant, TypeOK
  <2> QED BY <1>1, <2>1, RequestKinds
          DEF ConvInv, ConvsKnown, CommitsApart, CursorsDrawn, Committing, SnapshotSound
<1>3. \A g \in Handlers \ {h} : Committing(g) =>
        req[g].cursor # n /\ (req[g].conv = c => req[g].key # k)
  BY <1>1 DEF ConvInv, CommitsApart
<1>4. issued \in [Convs -> Nat] /\ \A d \in Convs : issued[d] <= issued[d]
  BY DEF ConvInv, ConversationsInvariant, TypeOK
<1>5. Appears(h, c, k, n)
  <2> HIDE DEF c, k, n
  <2>1. \A m \in messages : m.cursor # n
    BY <1>2 DEF Cursors
  <2> QED BY <1>1, <1>2, <1>3, <1>4, <2>1 DEF Appears
<1> HIDE DEF c, k, n
<1> QED BY <1>5, MessageAppears

\* A message gets another status.
LEMMA WriteStatusStep ==
    ASSUME ConvInv, NEW h \in Handlers, WriteStatus(h)
    PROVE  ConvInv'
<1> USE DEF ConvInv, ConversationsInvariant
<1>1. PICK m \in messages :
        messages' = IF IF durable THEN sqlAdvance(m.status, req[h].status)
                                  ELSE canAdvance(m.status, req[h].status)
                    THEN (messages \ {m}) \cup {[m EXCEPT !.status = req[h].status]}
                    ELSE messages
  BY DEF WriteStatus
<1>2. /\ req[h].op = "advance" /\ req' = [req EXCEPT ![h] = Idle]
      /\ UNCHANGED <<durable, conv, issued, intents, run, events, announced, snap, requests>>
  BY DEF WriteStatus, Done
<1> DEFINE w == [m EXCEPT !.status = req[h].status]
<1>3. /\ m \in Message /\ req[h] \in Request /\ messages \subseteq Message
  BY DEF TypeOK
<1>4. /\ w \in Message /\ w.conv = m.conv /\ w.key = m.key /\ w.cursor = m.cursor
  BY <1>2, <1>3, RequestKinds DEF Message
<1>5. messages' = messages \/ messages' = (messages \ {m}) \cup {w}
  BY <1>1
<1> HIDE DEF w
<1>6. /\ \A x \in messages' : \E y \in messages :
           x.conv = y.conv /\ x.key = y.key /\ x.cursor = y.cursor
      /\ \A y \in messages : \E x \in messages' :
           x.conv = y.conv /\ x.key = y.key /\ x.cursor = y.cursor
  BY <1>4, <1>5
<1>7. Cursors(messages') = Cursors(messages) /\ \A c, k : Stored(c, k)' = Stored(c, k)
  <2>1. Cursors(messages') = Cursors(messages)
    BY <1>6 DEF Cursors
  <2>2. \A c, k : Stored(c, k)' <=> Stored(c, k)
    BY <1>6 DEF Stored
  <2> QED BY <2>1, <2>2 DEF Stored
<1>8. /\ req' \in [Handlers -> Request] /\ req'[h] = Idle /\ Idle.op = "idle"
      /\ \A g \in Handlers : g # h => req'[g] = req[g]
  BY <1>2, IdleRequest DEF TypeOK
<1>9. TypeOK'
  BY <1>2, <1>3, <1>4, <1>5, <1>8 DEF TypeOK
<1>10. OneMessagePerKey'
  <2>1. \A x, y \in messages' : (x.conv = y.conv /\ (x.key = y.key \/ x.cursor = y.cursor)) => x = y
    BY <1>4, <1>5 DEF OneMessagePerKey
  <2> QED BY <1>2, <1>7, <2>1 DEF OneMessagePerKey, Cursors
<1>11. RunStatesAnnounced'
  BY <1>2 DEF RunStatesAnnounced
<1>12. IsFiniteSet(messages')
  <2>1. IsFiniteSet(messages \ {m})
    BY FS_RemoveElement
  <2> QED BY <1>5, <2>1, FS_AddElement
<1>13. CursorsDrawn'
  <2>1. \A x \in messages' : x.cursor <= issued[x.conv]
    BY <1>6 DEF CursorsDrawn
  <2> QED BY <1>2, <1>8, <2>1 DEF CursorsDrawn, Committing
<1>14. CommitsApart'
  <2>1. \A g \in Handlers : Committing(g)' => Committing(g) /\ req'[g] = req[g]
    BY <1>8 DEF Committing
  <2>2. \A g \in Handlers : Committing(g)' =>
          durable /\ ~ Stored(req[g].conv, req[g].key) /\ req[g].cursor \notin Cursors(messages)
    BY <2>1 DEF CommitsApart
  <2>3. \A f, g \in Handlers : Committing(f)' /\ Committing(g)' /\ f # g =>
          /\ req'[f].cursor # req'[g].cursor
          /\ req'[f].conv = req'[g].conv => req'[f].key # req'[g].key
    BY <2>1 DEF CommitsApart
  <2>4. \A g \in Handlers : Committing(g)' =>
          /\ durable' /\ ~ \E x \in messages' : x.conv = req'[g].conv /\ x.key = req'[g].key
          /\ req'[g].cursor \notin Cursors(messages')
    BY <1>2, <1>6, <1>7, <2>1, <2>2 DEF Stored
  <2> QED BY <2>3, <2>4 DEF CommitsApart, Stored, Cursors
<1>15. StartsApart'
  BY <1>2, <1>8 DEF StartsApart
<1>16. ConvsKnown'
  BY <1>2, <1>6, <1>8 DEF ConvsKnown
<1>17. SnapshotSound'
  <2>1. \A x \in messages', y \in messages :
           x.conv = y.conv /\ x.cursor = y.cursor /\ Excused(y) => Excused(x)'
    BY <1>2 DEF Excused
  <2>2. snap.at # "idle" /\ snap.at # "list" => \A x \in messages' :
           x.cursor <= snap.boundary /\ x.conv \notin snap.todo => Excused(x)'
    BY <1>6, <2>1 DEF SnapshotSound
  <2> QED BY <1>2, <1>8, <2>2 DEF SnapshotSound, Committing
<1> QED BY <1>9, <1>10, <1>11, <1>12, <1>13, <1>14, <1>15, <1>16, <1>17

\* Requests that are checked, and given up.
LEMMA CheckSteps ==
    ASSUME ConvInv, NEW h \in Handlers,
           \/ \E c \in Convs, k \in Keys : CheckSend(h, c, k)
           \/ \E m \in messages, s \in Statuses : CheckStatus(h, m, s)
           \/ \E m \in messages, r \in Runs : CheckStart(h, m, r)
           \/ \E r \in Runs, s \in {"cancelled", "timed_out"} : CheckEnd(h, r, s)
           \/ Abandon(h)
    PROVE  ConvInv'
<1> USE DEF ConvInv, ConversationsInvariant
<1>1. ASSUME NEW q, Goes(h, q), requests' \in 0 .. MaxRequests,
             UNCHANGED <<durable, conv, messages, issued, intents, run, events, announced, snap>>
      PROVE  ConvInv'
  <2>1. RunStatesAnnounced'
    BY <1>1 DEF RunStatesAnnounced
  <2> QED BY <1>1, <2>1, GoesOn DEF TypeOK
<1>2. Accept => requests' \in 0 .. MaxRequests
  BY ConversationsAssumption DEF Accept, TypeOK
<1>3. ASSUME NEW c \in Convs, NEW k \in Keys, CheckSend(h, c, k) PROVE ConvInv'
  <2> DEFINE q == [op |-> "send", conv |-> c, key |-> k]
  <2>1. q \in Request /\ q.op = "send" /\ q.conv = c
    BY DEF Request
  <2>2. Goes(h, q)
    <3> HIDE DEF q
    <3> QED BY <1>3, <2>1 DEF CheckSend, Begin, Accepts, Goes, StartsApart, q
  <2> HIDE DEF q
  <2> QED BY <1>1, <1>2, <1>3, <2>2 DEF CheckSend, Begin
<1>4. ASSUME NEW m \in messages, NEW st \in Statuses, CheckStatus(h, m, st) PROVE ConvInv'
  <2> DEFINE q == [op |-> "advance", conv |-> m.conv, cursor |-> m.cursor, status |-> st]
  <2>1. q \in Request /\ q.op = "advance"
    BY DEF Request, TypeOK, Message
  <2>2. req' = [req EXCEPT ![h] = q]
    BY <1>4 DEF CheckStatus, Begin
  <2> HIDE DEF q
  <2>3. Goes(h, q)
    BY <1>4, <2>1, <2>2 DEF CheckStatus, Goes, StartsApart
  <2> QED BY <1>1, <1>2, <1>4, <2>3 DEF CheckStatus, Begin
<1>5. ASSUME NEW m \in messages, NEW r \in Runs, CheckStart(h, m, r) PROVE ConvInv'
  <2> DEFINE q == [op |-> "start", conv |-> m.conv, run |-> r]
  <2>1. q \in Request /\ q.op = "start" /\ q.run = r
    BY DEF Request, TypeOK, Message
  <2>2. req' = [req EXCEPT ![h] = q]
    BY <1>5 DEF CheckStart, Begin
  <2> HIDE DEF q
  <2>3. Goes(h, q)
    BY <1>5, <2>1, <2>2 DEF CheckStart, Goes, StartsApart
  <2> QED BY <1>1, <1>2, <1>5, <2>3 DEF CheckStart, Begin
<1>6. ASSUME NEW r \in Runs, NEW st \in {"cancelled", "timed_out"}, CheckEnd(h, r, st)
      PROVE  ConvInv'
  <2> DEFINE q == [op |-> "end", run |-> r, status |-> st]
  <2>1. q \in Request /\ q.op = "end" /\ q.run = r
    BY DEF Request
  <2>2. req' = [req EXCEPT ![h] = q]
    BY <1>6 DEF CheckEnd, Begin
  <2> HIDE DEF q
  <2>3. Goes(h, q)
    BY <1>6, <2>1, <2>2 DEF CheckEnd, Goes, StartsApart
  <2> QED BY <1>1, <1>2, <1>6, <2>3 DEF CheckEnd, Begin
<1>7. CASE Abandon(h)
  <2>1. Goes(h, Idle)
    BY <1>7, IdleRequest DEF Abandon, Done, Goes, StartsApart
  <2> QED BY <1>1, <1>7, <2>1 DEF Abandon, TypeOK
<1> QED BY <1>3, <1>4, <1>5, <1>6, <1>7

\* A run gets a status and its event, or neither.
LEMMA RunWritten ==
    ASSUME ConvInv, NEW h \in Handlers, NEW r \in Runs, NEW state \in RunStates,
           NEW type \in EventTypes,
           \/ /\ run[r] # "none" /\ type = EventType(state)
              /\ \A g \in Handlers : req[g].op = "start" => req[g].run # r
           \/ /\ run[r] = "none" /\ state = "queued" /\ type = "created"
              /\ \A g \in Handlers \ {h} : req[g].op = "start" => req[g].run # r,
           \/ run' = [run EXCEPT ![r] = state] /\ Announce(h, r, type)
           \/ ~ durable /\ run' = run /\ Done(h) /\ UNCHANGED announced,
           requests' \in 0 .. MaxRequests,
           UNCHANGED <<durable, conv, messages, issued, intents, events, snap>>
    PROVE  ConvInv'
<1> USE DEF ConvInv, ConversationsInvariant
<1>1. /\ run \in [Runs -> {"none"} \cup RunStates] /\ announced \subseteq Runs \X EventTypes
      /\ events \in [Runs -> 0 .. MaxEvents] /\ "none" \notin RunStates
  BY DEF TypeOK, RunStates, EndStates
<1>2. CASE ~ durable /\ run' = run /\ Done(h) /\ UNCHANGED announced
  <2>1. Goes(h, Idle) /\ RunStatesAnnounced'
    BY <1>2, IdleRequest DEF Done, Goes, StartsApart, RunStatesAnnounced
  <2> QED BY <1>1, <1>2, <2>1, GoesOn
<1>3. CASE run' = [run EXCEPT ![r] = state] /\ Announce(h, r, type)
  <2>1. /\ run' \in [Runs -> {"none"} \cup RunStates] /\ run'[r] = state
        /\ \A x \in Runs : x # r => run'[x] = run[x]
    BY <1>1, <1>3
  <2>2. \A g \in Handlers : req[g].op \in {"start", "end"} => req[g].run \in Runs
    BY RequestKinds DEF TypeOK
  <2>3. \A g \in Handlers \ {h} :
           /\ req[g].op = "start" => run'[req[g].run] = "none"
           /\ req[g].op = "end" => run'[req[g].run] # "none"
    BY <1>1, <2>1, <2>2 DEF StartsApart
  <2>4. CASE durable
    <3>1. announced' = announced \cup {<<r, type>>} /\ req' = [req EXCEPT ![h] = Idle]
      BY <1>3, <2>4 DEF Announce, Done
    <3>2. Goes(h, Idle)
      BY <2>3, <3>1, IdleRequest DEF Goes
    <3>3. RunStatesAnnounced'
      <4> SUFFICES ASSUME NEW x \in Runs
                   PROVE  /\ run'[x] # "none" => <<x, "created">> \in announced'
                          /\ run'[x] = "running" => <<x, "updated">> \in announced'
                          /\ run'[x] \in EndStates => <<x, run'[x]>> \in announced'
        BY DEF RunStatesAnnounced
      <4>1. CASE x # r
        BY <2>1, <2>4, <3>1, <4>1 DEF RunStatesAnnounced
      <4>2. CASE x = r /\ run[r] # "none" /\ type = EventType(state)
        BY <2>1, <2>4, <3>1, <4>2 DEF RunStatesAnnounced, EventType, EndStates
      <4>3. CASE x = r /\ state = "queued" /\ type = "created"
        BY <2>1, <3>1, <4>3 DEF EndStates
      <4> QED BY <4>1, <4>2, <4>3
    <3>4. announced' \subseteq Runs \X EventTypes
      BY <1>1, <3>1
    <3> QED BY <1>1, <2>1, <3>2, <3>3, <3>4, GoesOn
  <2>5. CASE ~ durable
    <3> DEFINE q == [op |-> "publish", run |-> r, type |-> type]
    <3>1. announced' = announced /\ req' = [req EXCEPT ![h] = q]
      BY <1>3, <2>5 DEF Announce
    <3>2. q \in Request /\ q.op = "publish"
      BY DEF Request
    <3> HIDE DEF q
    <3>3. Goes(h, q)
      BY <2>3, <3>1, <3>2 DEF Goes
    <3>4. RunStatesAnnounced'
      BY <2>5 DEF RunStatesAnnounced
    <3> QED BY <1>1, <2>1, <3>1, <3>3, <3>4, GoesOn
  <2> QED BY <2>4, <2>5 DEF TypeOK
<1> QED BY <1>2, <1>3

LEMMA RunSteps ==
    ASSUME ConvInv, NEW h \in Handlers,
           \/ CreateRun(h) \/ PublishRunEvent(h) \/ EndRun(h)
           \/ \E r \in Runs, s \in RunStates : UpdateRun(h, r, s)
    PROVE  ConvInv'
<1> USE DEF ConvInv, ConversationsInvariant
<1>1. /\ \A st \in RunStates : EventType(st) \in EventTypes
      /\ "created" \in EventTypes /\ "queued" \in RunStates
      /\ {"cancelled", "timed_out"} \subseteq RunStates
  BY DEF EventType, EventTypes, RunStates, EndStates
<1>2. req[h] \in Request /\ requests \in 0 .. MaxRequests
  BY DEF TypeOK
<1>3. ASSUME NEW r \in Runs, NEW st \in RunStates, run[r] # "none", WriteRun(h, r, st),
             requests' \in 0 .. MaxRequests,
             UNCHANGED <<durable, conv, messages, issued, intents, events, snap>>
      PROVE  ConvInv'
  <2>1. \/ run' = [run EXCEPT ![r] = st] /\ Announce(h, r, EventType(st))
        \/ ~ durable /\ run' = run /\ Done(h) /\ UNCHANGED announced
    BY <1>3 DEF WriteRun, SetRun
  <2>2. \A g \in Handlers : req[g].op = "start" => req[g].run # r
    BY <1>3 DEF StartsApart
  <2>3. EventType(st) \in EventTypes
    BY <1>1
  <2> QED BY <1>3, <2>1, <2>2, <2>3, RunWritten
<1>4. CASE CreateRun(h)
  <2>1. req[h].op = "start" /\ req[h].run \in Runs /\ run[req[h].run] = "none"
    BY <1>2, <1>4, RequestKinds DEF CreateRun, StartsApart
  <2>2. \A g \in Handlers \ {h} : req[g].op = "start" => req[g].run # req[h].run
    BY <2>1 DEF StartsApart
  <2>3. /\ run' = [run EXCEPT ![req[h].run] = "queued"] /\ Announce(h, req[h].run, "created")
        /\ requests' \in 0 .. MaxRequests
        /\ UNCHANGED <<durable, conv, messages, issued, intents, events, snap>>
    BY <1>2, <1>4 DEF CreateRun
  <2> QED BY <1>1, <2>1, <2>2, <2>3, RunWritten
<1>5. CASE PublishRunEvent(h)
  <2>1. req[h].run \in Runs /\ req[h].type \in EventTypes
    BY <1>2, <1>5, RequestKinds DEF PublishRunEvent
  <2>2. Goes(h, Idle)
    BY <1>5, IdleRequest DEF PublishRunEvent, Done, Goes, StartsApart
  <2>3. RunStatesAnnounced'
    BY <1>5 DEF PublishRunEvent, RunStatesAnnounced
  <2> QED BY <1>2, <1>5, <2>1, <2>2, <2>3, GoesOn DEF PublishRunEvent, TypeOK
<1>6. CASE EndRun(h)
  <2>1. /\ req[h].run \in Runs /\ req[h].status \in RunStates /\ run[req[h].run] # "none"
    BY <1>1, <1>2, <1>6, RequestKinds DEF EndRun, StartsApart
  <2> QED BY <1>2, <1>3, <1>6, <2>1 DEF EndRun
<1>7. ASSUME NEW r \in Runs, NEW st \in RunStates, UpdateRun(h, r, st) PROVE ConvInv'
  <2>1. requests' \in 0 .. MaxRequests
    BY <1>2, <1>7, ConversationsAssumption DEF UpdateRun, Accept
  <2> QED BY <1>3, <1>7, <2>1 DEF UpdateRun
<1> QED BY <1>4, <1>5, <1>6, <1>7

LEMMA ConversationSteps ==
    ASSUME ConvInv,
           \/ \E c \in Convs : \/ CreateConversation(c)
                               \/ \E s \in Closed : CloseConversation(c, s)
           \/ \E r \in Runs : AddRunEvent(r)
           \/ UNCHANGED vars
    PROVE  ConvInv'
<1> USE DEF ConvInv, ConversationsInvariant
<1>1. ASSUME NEW c \in Convs, NEW st \in {"active"} \cup Closed, conv' = [conv EXCEPT ![c] = st],
             UNCHANGED <<durable, messages, issued, intents, run, events, announced,
                         req, snap, requests>>
      PROVE  ConvInv'
  <2>1. /\ conv' \in [Convs -> {"none", "active"} \cup Closed]
        /\ \A d \in Convs : conv[d] # "none" => conv'[d] # "none"
    BY <1>1 DEF TypeOK, Closed
  <2>2. ConvsKnown'
    <3>1. \A m \in messages : m.conv \in Convs
      BY DEF TypeOK, Message
    <3>2. \A g \in Handlers : req[g].op \in {"send", "commit"} => req[g].conv \in Convs
      BY RequestKinds DEF TypeOK
    <3> QED BY <1>1, <2>1, <3>1, <3>2 DEF ConvsKnown
  <2> QED BY <1>1, <2>1, <2>2
          DEF TypeOK, Message, Cursor, OneMessagePerKey, RunStatesAnnounced, CursorsDrawn,
              CommitsApart, StartsApart, SnapshotSound, Excused, Committing, Stored, Cursors
<1>2. ASSUME NEW r \in Runs, AddRunEvent(r) PROVE ConvInv'
  <2>1. /\ events' \in [Runs -> 0 .. MaxEvents]
        /\ UNCHANGED <<durable, conv, messages, issued, intents, run, announced, req,
                       snap, requests>>
    BY <1>2, ConversationsAssumption DEF AddRunEvent, TypeOK
  <2> QED BY <2>1
          DEF TypeOK, Message, Cursor, OneMessagePerKey, RunStatesAnnounced, CursorsDrawn,
              CommitsApart, StartsApart, ConvsKnown, SnapshotSound, Excused, Committing,
              Stored, Cursors
<1>3. CASE UNCHANGED vars
  BY <1>3 DEF vars, TypeOK, Message, Cursor, OneMessagePerKey, RunStatesAnnounced, CursorsDrawn,
              CommitsApart, StartsApart, ConvsKnown, SnapshotSound, Excused, Committing,
              Stored, Cursors
<1> QED BY <1>1, <1>2, <1>3 DEF CreateConversation, CloseConversation

\* The reconcile request reads; nothing else changes.
LEMMA OnlySnapshot ==
    ASSUME ConvInv, SnapshotSound', requests' \in 0 .. MaxRequests,
           snap'.at \in {"idle", "list", "read", "done"},
           snap'.todo \subseteq Convs, snap'.cut \subseteq Convs,
           UNCHANGED <<durable, conv, messages, issued, intents, run, events, announced, req>>
    PROVE  ConvInv'
BY DEF ConvInv, ConversationsInvariant, TypeOK, Message, Cursor, OneMessagePerKey,
       RunStatesAnnounced, CursorsDrawn, CommitsApart, StartsApart, ConvsKnown, Committing,
       Stored, Cursors

\* The boundary cursor has been drawn.
LEMMA BoundaryDrawn ==
    ASSUME ConvInv, durable, NEW c \in Convs
    PROVE  Boundary \in Nat /\ Boundary <= issued[c]
<1> USE DEF ConvInv, ConversationsInvariant
<1> DEFINE S == Cursors(messages) \cup {0}
<1>1. S \in SUBSET Nat /\ S # {} /\ issued[c] \in Nat
  BY DEF TypeOK, Message, Cursor, Cursors
<1>2. \A x \in S : x <= issued[c]
  <2>1. \A m \in messages : m.conv \in Convs
    BY DEF TypeOK, Message
  <2>2. \A m \in messages : m.cursor <= issued[c]
    BY <2>1 DEF CursorsDrawn
  <2> QED BY <1>1, <2>2 DEF Cursors
<1> HIDE DEF S
<1>3. \E x \in S : \A y \in S : y <= x
  BY <1>1, <1>2, HasMaximum
<1>4. \E x \in S : \A y \in S : x >= y
  BY <1>1, <1>3
<1>5. Max(S) \in S
  BY <1>4 DEF Max
<1>6. Boundary = Max(S)
  BY DEF Boundary, S
<1> QED BY <1>1, <1>2, <1>5, <1>6

LEMMA SnapshotSteps ==
    ASSUME ConvInv, \/ CaptureBoundary \/ ListConversations \/ Respond
                    \/ \E c \in Convs : ReadMessages(c)
    PROVE  ConvInv'
<1> USE DEF ConvInv, ConversationsInvariant
<1>1. requests \in 0 .. MaxRequests /\ snap.todo \subseteq Convs /\ snap.cut \subseteq Convs
  BY DEF TypeOK
<1>2. \A m \in messages : m.conv \in Convs
  BY DEF TypeOK, Message
<1>3. CASE CaptureBoundary
  <2>1. /\ snap'.at = "list" /\ snap'.boundary = Boundary /\ snap'.late = InFlight
        /\ snap'.drawn = issued /\ snap'.todo = {} /\ snap'.cut = {}
        /\ DOMAIN snap' = {"at", "boundary", "todo", "held", "cut", "late", "drawn"}
        /\ requests' \in 0 .. MaxRequests
        /\ UNCHANGED <<durable, conv, messages, issued, intents, run, events, announced, req>>
    BY <1>1, <1>3, ConversationsAssumption DEF CaptureBoundary, Accept, NoSnapshot
  <2>2. durable => Boundary \in Nat
    <3>1. CASE Convs = {}
      <4>1. Cursors(messages) \cup {0} = {0}
        BY <1>2, <3>1 DEF Cursors
      <4> QED BY <4>1 DEF Boundary, Max
    <3>2. CASE Convs # {}
      BY <3>2, BoundaryDrawn
    <3> QED BY <3>1, <3>2
  <2>3. \A c \in Convs : issued[c] \in Nat /\ issued[c] <= issued[c]
    BY DEF TypeOK
  <2>4. \A h \in Handlers : Committing(h) => req[h].cursor \in InFlight
    BY DEF Committing, InFlight
  <2>5. SnapshotSound'
    BY <2>1, <2>2, <2>3, <2>4, BoundaryDrawn DEF SnapshotSound, Committing
  <2> QED BY <2>1, <2>5, OnlySnapshot
<1>4. CASE ListConversations
  <2> DEFINE rows == {c \in Convs : conv[c] # "none"}
  <2>0. PICK listed \in SUBSET rows :
           snap' = [snap EXCEPT !.at = "read", !.todo = listed, !.cut = rows \ listed]
    BY <1>4 DEF ListConversations
  <2>1. /\ snap.at = "list" /\ snap'.at = "read" /\ snap'.todo \cup snap'.cut = rows
        /\ snap'.boundary = snap.boundary /\ snap'.late = snap.late
        /\ snap'.drawn = snap.drawn
        /\ DOMAIN snap' = DOMAIN snap
        /\ UNCHANGED <<durable, conv, messages, issued, intents, run, events, announced,
                       req, requests>>
    BY <1>4, <2>0 DEF ListConversations, SnapshotSound
  <2>2. \A m \in messages : m.conv \in snap'.todo \/ m.conv \in snap'.cut
    BY <1>2, <2>1 DEF ConvsKnown
  <2>3. SnapshotSound'
    BY <2>1, <2>2 DEF SnapshotSound, Committing, Excused
  <2>4. snap'.todo \subseteq Convs /\ snap'.cut \subseteq Convs
    BY <2>1
  <2> QED BY <1>1, <2>1, <2>3, <2>4, OnlySnapshot
<1>5. CASE Respond
  <2>1. /\ snap.at = "read" /\ snap.todo = {} /\ snap'.at = "done" /\ snap'.todo = snap.todo
        /\ snap'.boundary = snap.boundary /\ snap'.late = snap.late /\ snap'.held = snap.held
        /\ snap'.drawn = snap.drawn /\ snap'.cut = snap.cut
        /\ DOMAIN snap' = DOMAIN snap
        /\ UNCHANGED <<durable, conv, messages, issued, intents, run, events, announced,
                       req, requests>>
    BY <1>5 DEF Respond, SnapshotSound
  <2>2. SnapshotSound'
    BY <2>1 DEF SnapshotSound, Committing, Excused
  <2> QED BY <1>1, <2>1, <2>2, OnlySnapshot
<1>6. ASSUME NEW c \in Convs, ReadMessages(c) PROVE ConvInv'
  <2> DEFINE page == FirstPage(c)
             rows == {m \in messages : m.conv = c}
  <2>1. /\ snap.at = "read" /\ c \in snap.todo /\ snap'.at = "read" /\ snap'.todo = snap.todo \ {c}
        /\ snap'.held = snap.held \cup {<<c, m.cursor>> : m \in {o \in page : o.cursor <= snap.boundary}}
        /\ snap'.cut = IF Cardinality(page) = PageLimit THEN snap.cut \cup {c} ELSE snap.cut
        /\ snap'.boundary = snap.boundary /\ snap'.late = snap.late /\ snap'.drawn = snap.drawn
        /\ DOMAIN snap' = DOMAIN snap
        /\ UNCHANGED <<durable, conv, messages, issued, intents, run, events, announced,
                       req, requests>>
    BY <1>6 DEF ReadMessages, SnapshotSound
  <2>2. Rowset(rows)
    <3>1. rows \in SUBSET messages
      OBVIOUS
    <3>2. IsFiniteSet(rows)
      BY <3>1, FS_Subset
    <3>3. \A m \in rows : m.cursor \in Nat
      BY DEF TypeOK, Message, Cursor
    <3> QED BY <3>2, <3>3 DEF Rowset, OneMessagePerKey
  <2>3. page = {m \in rows : Cardinality(Below(rows, m)) < PageLimit}
    BY DEF FirstPage, Below
  <2> HIDE DEF rows, page
  <2>4. ASSUME NEW m \in rows, m \notin page PROVE c \in snap'.cut
    <3>1. Cardinality(page) = PageLimit
      BY <2>2, <2>3, <2>4, PageIsFull, ConversationsAssumption
    <3> QED BY <2>1, <3>1
  <2>5. \A m \in messages : Excused(m) => Excused(m)'
    BY <2>1 DEF Excused
  <2>6. ASSUME NEW m \in messages, m.cursor <= snap.boundary, m.conv = c PROVE Excused(m)'
    <3>1. m \in rows
      BY <2>6 DEF rows
    <3>2. CASE m \in page
      BY <2>1, <2>6, <3>2 DEF Excused
    <3>3. CASE m \notin page
      BY <2>4, <2>6, <3>1, <3>3 DEF Excused
    <3> QED BY <3>2, <3>3
  <2>7. SnapshotSound'
    BY <2>1, <2>5, <2>6 DEF SnapshotSound, Committing
  <2>8. snap'.todo \subseteq Convs /\ snap'.cut \subseteq Convs
    BY <1>1, <2>1
  <2> QED BY <1>1, <2>1, <2>7, <2>8, OnlySnapshot
<1> QED BY <1>3, <1>4, <1>5, <1>6

LEMMA ConversationsStep == ConvInv /\ [Next]_vars => ConvInv'
<1> SUFFICES ASSUME ConvInv, [Next]_vars PROVE ConvInv'
  OBVIOUS
<1>1. ASSUME NEW h \in Handlers,
             \/ \E c \in Convs, k \in Keys : CheckSend(h, c, k)
             \/ InsertMessage(h) \/ CommitMessage(h) \/ Abandon(h)
             \/ \E m \in messages, s \in Statuses : CheckStatus(h, m, s)
             \/ WriteStatus(h)
             \/ \E m \in messages, r \in Runs : CheckStart(h, m, r)
             \/ CreateRun(h) \/ PublishRunEvent(h) \/ EndRun(h)
             \/ \E r \in Runs, s \in RunStates : UpdateRun(h, r, s)
             \/ \E r \in Runs, s \in {"cancelled", "timed_out"} : CheckEnd(h, r, s)
      PROVE  ConvInv'
  BY <1>1, CheckSteps, InsertStep, CommitStep, WriteStatusStep, RunSteps
<1> QED BY <1>1, ConversationSteps, SnapshotSteps DEF Next

LEMMA ConversationsInductive == Spec => []ConvInv
BY InitConversations, ConversationsStep, PTL DEF Spec

-----------------------------------------------------------------------------
\* However a client retries, a client message ID has one message, and every
\* message its own cursor and (PostgreSQL) its own intent: PutMessage's
\* ON CONFLICT and its transaction.
THEOREM OneMessageOfAKey == Spec => []ConversationsInvariant
<1>1. ConvInv => ConversationsInvariant
  BY DEF ConvInv
<1> QED BY ConversationsInductive, <1>1, PTL

\* A durable run's status is announced, whichever of two racing updates came
\* last: UpdateRun writes the run and its event in one transaction.
THEOREM RunsAreAnnounced == Spec => []RunStatesAnnounced
<1>1. ConvInv => RunStatesAnnounced
  BY DEF ConvInv
<1> QED BY ConversationsInductive, <1>1, PTL

\* What a reconcile answer lacks below its boundary was late, beyond a full page,
\* or of a conversation left out: conversationReconcile takes the boundary before
\* it reads.
THEOREM SnapshotsMissOnlyLate == Spec => []SnapshotMissesOnlyLate
<1>1. ConvInv => SnapshotMissesOnlyLate
  BY DEF ConvInv, SnapshotSound, SnapshotMissesOnlyLate, Excused
<1> QED BY ConversationsInductive, <1>1, PTL

-----------------------------------------------------------------------------
\* What steps do to the messages and to the runs: an old message stays, but
\* for its status, which an end state keeps; so does a run's in memory.
LEMMA MessagesStay ==
    ASSUME ConvInv, [Next]_vars, NEW m \in messages, m.status \in {"processed", "failed"}
    PROVE  m \in messages'
<1>1. ASSUME NEW h \in Handlers, WriteStatus(h) PROVE m \in messages'
  <2>1. PICK o \in messages :
          messages' = IF IF durable THEN sqlAdvance(o.status, req[h].status)
                                    ELSE canAdvance(o.status, req[h].status)
                      THEN (messages \ {o}) \cup {[o EXCEPT !.status = req[h].status]}
                      ELSE messages
    BY <1>1 DEF WriteStatus
  <2>2. CASE m = o /\ canAdvance(m.status, req[h].status)
    <3>1. req[h].status = m.status
      BY <2>2 DEF canAdvance
    <3>2. m \in Message
      BY DEF ConvInv, ConversationsInvariant, TypeOK
    <3>3. [m EXCEPT !.status = req[h].status] = m
      BY <3>1, <3>2 DEF Message
    <3> QED BY <2>1, <2>2, <3>3
  <2> QED BY <2>1, <2>2 DEF sqlAdvance
<1>2. ASSUME NEW h \in Handlers, InsertMessage(h) \/ CommitMessage(h) PROVE m \in messages'
  BY <1>2 DEF InsertMessage, CommitMessage
<1>3. ASSUME UNCHANGED messages PROVE m \in messages'
  BY <1>3
<1> QED
  BY <1>1, <1>2, <1>3
  DEF Next, vars, CreateConversation, CloseConversation, ReadMessages, CaptureBoundary,
      ListConversations, Respond, CheckSend, Abandon, CheckStatus, CheckStart, CreateRun,
      PublishRunEvent, EndRun, UpdateRun, CheckEnd, AddRunEvent

LEMMA EndedRunsStay ==
    ASSUME ConvInv, [Next]_vars, ~ durable, NEW r \in Runs, run[r] \in EndStates
    PROVE  run'[r] = run[r]
<1>1. run \in [Runs -> {"none"} \cup RunStates]
  BY DEF ConvInv, ConversationsInvariant, TypeOK
<1>2. ASSUME NEW x, NEW state, SetRun(x, state) PROVE run'[r] = run[r]
  <2>1. CASE x = r
    BY <1>1, <1>2, <2>1 DEF SetRun, runTransition, EndStates
  <2>2. CASE x # r
    BY <1>1, <1>2, <2>2 DEF SetRun
  <2> QED BY <2>1, <2>2
<1>3. ASSUME NEW h \in Handlers, CreateRun(h) PROVE run'[r] = run[r]
  <2>1. run' = [run EXCEPT ![req[h].run] = "queued"] /\ run[req[h].run] = "none"
    BY <1>3 DEF CreateRun, ConvInv, StartsApart
  <2> QED BY <1>1, <2>1 DEF EndStates
<1>4. ASSUME NEW h \in Handlers,
             EndRun(h) \/ \E x \in Runs, s \in RunStates : UpdateRun(h, x, s)
      PROVE  run'[r] = run[r]
  BY <1>2, <1>4 DEF EndRun, UpdateRun, WriteRun
<1>5. ASSUME UNCHANGED run PROVE run'[r] = run[r]
  BY <1>5
<1> QED
  BY <1>3, <1>4, <1>5
  DEF Next, vars, CreateConversation, CloseConversation, ReadMessages, CaptureBoundary,
      ListConversations, Respond, CheckSend, InsertMessage, CommitMessage, Abandon, CheckStatus,
      WriteStatus, CheckStart, PublishRunEvent, CheckEnd, AddRunEvent

\* A message that was processed or has failed, and in memory an ended run, stay
\* as they are, although the update that comes read them before they ended.
THEOREM EndStatesStay == Spec => EndedStays
<1>1. ConvInv /\ [Next]_vars =>
        /\ \A m \in messages : m.status \in {"processed", "failed"} => m \in messages'
        /\ \A r \in Runs : ~ durable /\ run[r] \in EndStates => run'[r] = run[r]
  BY MessagesStay, EndedRunsStay
<1> QED BY ConversationsInductive, <1>1, PTL DEF Spec, EndedStays

-----------------------------------------------------------------------------
Of(S, c) == {m \in S : m.conv = c}

\* A step that leaves a conversation's messages and begins no send to it.
LEMMA NothingNew ==
    ASSUME ConvInv, NEW c \in Convs, Of(messages', c) = Of(messages, c),
           Sending(c)' \subseteq Sending(c)
    PROVE  Cardinality(Of(messages', c)) + Cardinality(Sending(c)')
             <= Cardinality(Of(messages, c)) + Cardinality(Sending(c))
<1>1. IsFiniteSet(Of(messages, c)) /\ IsFiniteSet(Sending(c))
  <2>1. Of(messages, c) \in SUBSET messages /\ Sending(c) \in SUBSET Handlers
    BY DEF Of, Sending
  <2> QED BY <2>1, ConversationsAssumption, FS_Subset DEF ConvInv
<1>2. IsFiniteSet(Sending(c)') /\ Cardinality(Sending(c)') <= Cardinality(Sending(c))
  BY <1>1, FS_Subset
<1> QED BY <1>1, <1>2, FS_CardinalityType

\* A send that is over, with its message.
LEMMA SendBecomesMessage ==
    ASSUME ConvInv, NEW c \in Convs, NEW h \in Sending(c), NEW w,
           Of(messages', c) = Of(messages, c) \cup {w}, Sending(c)' \subseteq Sending(c) \ {h}
    PROVE  Cardinality(Of(messages', c)) + Cardinality(Sending(c)')
             <= Cardinality(Of(messages, c)) + Cardinality(Sending(c))
<1>1. IsFiniteSet(Of(messages, c)) /\ IsFiniteSet(Sending(c))
  <2>1. Of(messages, c) \in SUBSET messages /\ Sending(c) \in SUBSET Handlers
    BY DEF Of, Sending
  <2> QED BY <2>1, ConversationsAssumption, FS_Subset DEF ConvInv
<1>2. /\ IsFiniteSet(Sending(c) \ {h})
      /\ Cardinality(Sending(c) \ {h}) = Cardinality(Sending(c)) - 1
  BY <1>1, FS_RemoveElement
<1>3. IsFiniteSet(Sending(c)') /\ Cardinality(Sending(c)') <= Cardinality(Sending(c) \ {h})
  BY <1>2, FS_Subset
<1>4. /\ IsFiniteSet(Of(messages, c) \cup {w})
      /\ Cardinality(Of(messages, c) \cup {w}) <= Cardinality(Of(messages, c)) + 1
  <2>1. Cardinality(Of(messages, c)) \in Nat
    BY <1>1, FS_CardinalityType
  <2>2. /\ IsFiniteSet(Of(messages, c) \cup {w})
        /\ Cardinality(Of(messages, c) \cup {w}) =
             IF w \in Of(messages, c) THEN Cardinality(Of(messages, c))
             ELSE Cardinality(Of(messages, c)) + 1
    BY <1>1, FS_AddElement
  <2> QED BY <2>1, <2>2
<1>5. /\ Cardinality(Of(messages, c)) \in Nat /\ Cardinality(Of(messages', c)) \in Nat
      /\ Cardinality(Sending(c)) \in Nat /\ Cardinality(Sending(c)') \in Nat
  BY <1>1, <1>3, <1>4, FS_CardinalityType
<1> QED BY <1>2, <1>3, <1>4, <1>5

\* A message that takes another's place.
LEMMA MessageReplaced ==
    ASSUME ConvInv, NEW c \in Convs, NEW m \in Of(messages, c), NEW w,
           Of(messages', c) = (Of(messages, c) \ {m}) \cup {w}, Sending(c)' \subseteq Sending(c)
    PROVE  Cardinality(Of(messages', c)) + Cardinality(Sending(c)')
             <= Cardinality(Of(messages, c)) + Cardinality(Sending(c))
<1>1. IsFiniteSet(Of(messages, c)) /\ IsFiniteSet(Sending(c))
  <2>1. Of(messages, c) \in SUBSET messages /\ Sending(c) \in SUBSET Handlers
    BY DEF Of, Sending
  <2> QED BY <2>1, ConversationsAssumption, FS_Subset DEF ConvInv
<1>2. IsFiniteSet(Sending(c)') /\ Cardinality(Sending(c)') <= Cardinality(Sending(c))
  BY <1>1, FS_Subset
<1>3. /\ IsFiniteSet(Of(messages, c) \ {m})
      /\ Cardinality(Of(messages, c) \ {m}) = Cardinality(Of(messages, c)) - 1
  BY <1>1, FS_RemoveElement
<1>4. /\ Cardinality(Of(messages, c)) \in Nat /\ Cardinality(Of(messages, c) \ {m}) \in Nat
      /\ Cardinality(Sending(c)) \in Nat /\ Cardinality(Sending(c)') \in Nat
  BY <1>1, <1>2, <1>3, FS_CardinalityType
<1>5. /\ IsFiniteSet((Of(messages, c) \ {m}) \cup {w})
      /\ Cardinality((Of(messages, c) \ {m}) \cup {w}) <= Cardinality(Of(messages, c) \ {m}) + 1
  BY <1>3, <1>4, FS_AddElement
<1>6. Cardinality(Of(messages', c)) \in Nat
  BY <1>5, FS_CardinalityType
<1> QED BY <1>2, <1>3, <1>4, <1>5, <1>6

LEMMA ClosedStaysClosed ==
    ASSUME ConvInv, [Next]_vars, NEW c \in Convs, conv[c] \in Closed
    PROVE  conv'[c] \in Closed
<1>1. conv \in [Convs -> {"none", "active"} \cup Closed]
  BY DEF ConvInv, ConversationsInvariant, TypeOK
<1>2. ASSUME NEW d \in Convs,
             CreateConversation(d) \/ \E s \in Closed : CloseConversation(d, s)
      PROVE  conv'[c] \in Closed
  BY <1>1, <1>2 DEF CreateConversation, CloseConversation, Closed
<1>3. ASSUME UNCHANGED conv PROVE conv'[c] \in Closed
  BY <1>3
<1> QED
  BY <1>2, <1>3
  DEF Next, vars, ReadMessages, CaptureBoundary,
      ListConversations, Respond, CheckSend, InsertMessage, CommitMessage, Abandon, CheckStatus,
      WriteStatus, CheckStart, CreateRun, PublishRunEvent, EndRun, UpdateRun, CheckEnd, AddRunEvent

LEMMA ClosedTakesNothing ==
    ASSUME ConvInv, [Next]_vars, NEW c \in Convs, conv[c] \in Closed
    PROVE  Cardinality(Of(messages', c)) + Cardinality(Sending(c)')
             <= Cardinality(Of(messages, c)) + Cardinality(Sending(c))
<1> DEFINE Goal == Cardinality(Of(messages', c)) + Cardinality(Sending(c)')
                     <= Cardinality(Of(messages, c)) + Cardinality(Sending(c))
<1> USE DEF ConvInv, ConversationsInvariant
<1>1. req \in [Handlers -> Request]
  BY DEF TypeOK
<1>2. ASSUME NEW h \in Handlers, NEW q, req' = [req EXCEPT ![h] = q],
             q.op \in {"send", "commit"} => h \in Sending(c) \/ q.conv # c
      PROVE  Sending(c)' \subseteq Sending(c)
  BY <1>1, <1>2 DEF Sending
<1>3. ASSUME NEW h \in Handlers, req' = [req EXCEPT ![h] = Idle]
      PROVE  Sending(c)' \subseteq Sending(c) \ {h}
  BY <1>1, <1>3, IdleRequest DEF Sending
<1>4. ASSUME UNCHANGED messages, Sending(c)' \subseteq Sending(c) PROVE Goal
  BY <1>4, NothingNew DEF Of
<1> HIDE DEF Goal
<1>5. ASSUME NEW h \in Handlers, NEW d \in Convs, NEW k \in Keys, CheckSend(h, d, k) PROVE Goal
  <2> DEFINE q == [op |-> "send", conv |-> d, key |-> k]
  <2>1. q.conv = d /\ d # c /\ req' = [req EXCEPT ![h] = q] /\ UNCHANGED messages
    BY <1>5 DEF CheckSend, Accepts, Begin, Closed
  <2> HIDE DEF q
  <2> QED BY <1>2, <1>4, <2>1
<1>6. ASSUME NEW h \in Handlers, NEW q, q.op \notin {"send", "commit"},
             req' = [req EXCEPT ![h] = q], UNCHANGED messages
      PROVE  Goal
  BY <1>2, <1>4, <1>6
<1>7. ASSUME NEW h \in Handlers,
             \/ \E m \in messages, s \in Statuses : CheckStatus(h, m, s)
             \/ \E m \in messages, r \in Runs : CheckStart(h, m, r)
             \/ \E r \in Runs, s \in {"cancelled", "timed_out"} : CheckEnd(h, r, s)
             \/ Abandon(h) \/ PublishRunEvent(h)
      PROVE  Goal
  <2>1. \E q : q.op \notin {"send", "commit"} /\ req' = [req EXCEPT ![h] = q] /\ UNCHANGED messages
    BY <1>7, IdleRequest DEF CheckStatus, CheckStart, CheckEnd, Abandon, PublishRunEvent, Begin, Done
  <2> QED BY <1>6, <2>1
<1>8. ASSUME NEW h \in Handlers,
             \/ CreateRun(h) \/ EndRun(h)
             \/ \E r \in Runs, s \in RunStates : UpdateRun(h, r, s)
      PROVE  Goal
  <2>1. \E q : q.op \notin {"send", "commit"} /\ req' = [req EXCEPT ![h] = q] /\ UNCHANGED messages
    BY <1>8, IdleRequest DEF CreateRun, EndRun, UpdateRun, WriteRun, Announce, Done
  <2> QED BY <1>6, <2>1
<1>9. ASSUME NEW h \in Handlers, NEW w, req' = [req EXCEPT ![h] = Idle],
             req[h].op \in {"send", "commit"}, w.conv = req[h].conv,
             messages' = messages \cup {w}
      PROVE  Goal
  <2>1. CASE w.conv = c
    <3>1. h \in Sending(c) /\ Of(messages', c) = Of(messages, c) \cup {w}
      BY <1>9, <2>1 DEF Sending, Of
    <3> QED BY <1>3, <1>9, <3>1, SendBecomesMessage DEF Goal
  <2>2. CASE w.conv # c
    <3>1. Of(messages', c) = Of(messages, c)
      BY <1>9, <2>2 DEF Of
    <3> QED BY <1>3, <1>9, <3>1, NothingNew DEF Goal
  <2> QED BY <2>1, <2>2
<1>10. ASSUME NEW h \in Handlers, InsertMessage(h) PROVE Goal
  <2> DEFINE d == req[h].conv
             k == req[h].key
             q == [op |-> "commit", conv |-> d, key |-> k, cursor |-> NextCursor(d)]
  <2>1. /\ req[h].op = "send" /\ q.conv = d
        /\ \/ req' = [req EXCEPT ![h] = Idle] /\ UNCHANGED messages
           \/ req' = [req EXCEPT ![h] = q] /\ UNCHANGED messages
           \/ /\ messages' = messages \cup {NewMessage(d, k, NextCursor(d))}
              /\ req' = [req EXCEPT ![h] = Idle]
    BY <1>10 DEF InsertMessage, Done
  <2>2. NewMessage(d, k, NextCursor(d)).conv = d
    BY DEF NewMessage
  <2>3. CASE req' = [req EXCEPT ![h] = q] /\ UNCHANGED messages
    <3>1. h \in Sending(c) \/ q.conv # c
      BY <2>1 DEF Sending
    <3> HIDE DEF q
    <3> QED BY <1>2, <1>4, <2>3, <3>1
  <2>4. CASE req' = [req EXCEPT ![h] = Idle] /\ UNCHANGED messages
    BY <1>3, <1>4, <2>4
  <2> HIDE DEF d, q
  <2>5. CASE /\ messages' = messages \cup {NewMessage(d, k, NextCursor(d))}
             /\ req' = [req EXCEPT ![h] = Idle]
    BY <1>9, <2>1, <2>2, <2>5 DEF d
  <2> QED BY <2>1, <2>3, <2>4, <2>5
<1>11. ASSUME NEW h \in Handlers, CommitMessage(h) PROVE Goal
  <2>1. /\ req[h].op = "commit" /\ req' = [req EXCEPT ![h] = Idle]
        /\ messages' = messages \cup {NewMessage(req[h].conv, req[h].key, req[h].cursor)}
        /\ NewMessage(req[h].conv, req[h].key, req[h].cursor).conv = req[h].conv
    BY <1>11 DEF CommitMessage, Done, NewMessage
  <2> QED BY <1>9, <2>1
<1>12. ASSUME NEW h \in Handlers, WriteStatus(h) PROVE Goal
  <2>1. PICK m \in messages :
          messages' = IF IF durable THEN sqlAdvance(m.status, req[h].status)
                                    ELSE canAdvance(m.status, req[h].status)
                      THEN (messages \ {m}) \cup {[m EXCEPT !.status = req[h].status]}
                      ELSE messages
    BY <1>12 DEF WriteStatus
  <2> DEFINE w == [m EXCEPT !.status = req[h].status]
  <2>2. w.conv = m.conv
    BY DEF TypeOK, Message
  <2>3. Sending(c)' \subseteq Sending(c)
    BY <1>3, <1>12 DEF WriteStatus, Done
  <2>4. messages' = messages \/ messages' = (messages \ {m}) \cup {w}
    BY <2>1
  <2> HIDE DEF w
  <2>5. CASE messages' = (messages \ {m}) \cup {w} /\ m.conv = c
    <3>1. m \in Of(messages, c) /\ Of(messages', c) = (Of(messages, c) \ {m}) \cup {w}
      BY <2>2, <2>5 DEF Of
    <3> QED BY <2>3, <3>1, MessageReplaced DEF Goal
  <2>6. CASE messages' = (messages \ {m}) \cup {w} /\ m.conv # c
    <3>1. Of(messages', c) = Of(messages, c)
      BY <2>2, <2>6 DEF Of
    <3> QED BY <2>3, <3>1, NothingNew DEF Goal
  <2> QED BY <1>4, <2>3, <2>4, <2>5, <2>6
<1>13. ASSUME UNCHANGED <<messages, req>> PROVE Goal
  <2>1. Sending(c)' \subseteq Sending(c)
    BY <1>13 DEF Sending
  <2> QED BY <1>4, <1>13, <2>1
<1>14. Goal
  BY <1>5, <1>7, <1>8, <1>10, <1>11, <1>12, <1>13
  DEF Next, vars, CreateConversation, CloseConversation, ReadMessages, CaptureBoundary,
      ListConversations, Respond, AddRunEvent
<1> QED BY <1>14 DEF Goal

\* A closed conversation is not reopened and takes no message but of requests
\* accepted before it was closed: SendMessage's check of the status.
THEOREM ClosedTakesNoMore == Spec => ClosedTakesNothingNew
<1>1. ConvInv /\ [Next]_vars => \A c \in Convs : conv[c] \in Closed =>
        /\ conv'[c] \in Closed
        /\ Cardinality({m \in messages' : m.conv = c}) + Cardinality(Sending(c)')
           <= Cardinality({m \in messages : m.conv = c}) + Cardinality(Sending(c))
  BY ClosedStaysClosed, ClosedTakesNothing DEF Of
<1> QED BY ConversationsInductive, <1>1, PTL DEF Spec, ClosedTakesNothingNew

-----------------------------------------------------------------------------
(* The hub. *)

\* The queue before a fan-out.
Before == [nextCursor |-> nextCursor, kept |-> kept, open |-> open, sent |-> sent, drop |-> {}]

\* The fan-out is what its recursion says.
LEMMA FannedIs ==
    ASSUME NEW es, Len(es) \in Nat
    PROVE  /\ Fanned(es)[0] = Before
           /\ \A n \in 1 .. Len(es) : Fanned(es)[n] = Offer(Fanned(es)[n - 1], es[n])
<1> DEFINE m == Len(es)
           Is(g, k) == g = [n \in 0 .. k |-> IF n = 0 THEN Before ELSE Offer(g[n - 1], es[n])]
           S == {k \in 0 .. m : \E g : Is(g, k)}
<1>1. 0 \in S
  <2> DEFINE g == [n \in 0 .. 0 |-> Before]
  <2>1. Is(g, 0)
    OBVIOUS
  <2> HIDE DEF g
  <2> QED BY <2>1
<1>2. ASSUME NEW k \in 0 .. m, k \in S, k < m PROVE k + 1 \in S
  <2>1. PICK g : Is(g, k)
    BY <1>2
  <2> DEFINE h == [n \in 0 .. k + 1 |-> IF n = k + 1 THEN Offer(g[k], es[k + 1]) ELSE g[n]]
  <2>2. ASSUME NEW n \in 0 .. k + 1
        PROVE  h[n] = IF n = 0 THEN Before ELSE Offer(h[n - 1], es[n])
    <3>1. CASE n = 0
      BY <2>1, <3>1
    <3>2. CASE n = k + 1
      <4>1. h[n - 1] = g[k]
        BY <3>2
      <4> QED BY <3>2, <4>1
    <3>3. CASE n \in 1 .. k
      <4>1. h[n - 1] = g[n - 1] /\ h[n] = g[n]
        BY <3>3
      <4>2. g[n] = Offer(g[n - 1], es[n])
        BY <2>1, <3>3
      <4> QED BY <3>3, <4>1, <4>2
    <3> QED BY <3>1, <3>2, <3>3
  <2>3. h = [n \in 0 .. k + 1 |-> IF n = 0 THEN Before ELSE Offer(h[n - 1], es[n])]
    <3>1. h = [n \in 0 .. k + 1 |-> h[n]]
      OBVIOUS
    <3> HIDE DEF h
    <3> QED BY <2>2, <3>1
  <2> HIDE DEF h
  <2>4. Is(h, k + 1)
    BY <2>3
  <2> QED BY <2>4, <1>2
<1>3. \E g : Is(g, m)
  <2> HIDE DEF Is
  <2>1. \A k \in 0 .. m : k \in S
    <3> HIDE DEF S
    <3> QED BY <1>1, <1>2, CountUp
  <2> QED BY <2>1
<1>4. Is(Fanned(es), m)
  <2>1. Fanned(es) = CHOOSE g : Is(g, m)
    BY DEF Fanned, Before
  <2> HIDE DEF Is
  <2> QED BY <1>3, <2>1
<1> QED BY <1>4

\* The events that have a cursor.
Numbered == [id : Ids, cursor : 1 .. MaxCursor]

LEMMA NumberedAreEvents ==
    /\ \A e \in Numbered : e \in Event
    /\ \A es \in Seq(Numbered) : es \in Seq(Event)
<1>1. \A e \in Numbered : e \in Event
  BY HubAssumption DEF Numbered, Event
<1> QED BY <1>1

\* A queue on its way through a fan-out: no channel beyond its capacity, and who
\* is to be closed is no longer open.
Queues == [nextCursor : 0 .. MaxCursor, kept : Seq(Numbered), open : SUBSET Subs,
           sent : [Subs -> Seq(Event)], drop : SUBSET Subs]

Sound(x) ==
    /\ x \in Queues
    /\ Len(x.kept) <= RetentionPerDevice
    /\ \A s \in Subs : taken[s] <= Len(x.sent[s]) /\ Len(x.sent[s]) - taken[s] <= QueueSize
    /\ x.open \cap x.drop = {} /\ x.open \cup x.drop \subseteq open
    /\ \A s \in Subs \ open : x.sent[s] = sent[s]

LEMMA TrimmedIs ==
    ASSUME NEW T, NEW es \in Seq(T)
    PROVE  /\ Trimmed(es) \in Seq(T) /\ Len(Trimmed(es)) <= RetentionPerDevice
           /\ Len(es) <= RetentionPerDevice => Len(Trimmed(es)) = Len(es)
           /\ Len(es) > RetentionPerDevice => Len(Trimmed(es)) = RetentionPerDevice
           /\ \A n \in 1 .. Len(Trimmed(es)) :
                 Trimmed(es)[n] = es[Len(es) - Len(Trimmed(es)) + n]
<1> DEFINE d == Larger(Len(es) - RetentionPerDevice, 0)
<1>1. /\ Len(es) \in Nat /\ RetentionPerDevice \in Nat \ {0}
      /\ d \in Nat /\ d <= Len(es)
      /\ Len(es) <= RetentionPerDevice => d = 0
      /\ Len(es) > RetentionPerDevice => d = Len(es) - RetentionPerDevice
  BY HubAssumption DEF Larger
<1>2. Trimmed(es) = SubSeq(es, d + 1, Len(es))
  BY DEF Trimmed
<1> HIDE DEF d
<1>3. /\ SubSeq(es, d + 1, Len(es)) \in Seq(T)
      /\ Len(SubSeq(es, d + 1, Len(es))) = Len(es) - d
      /\ \A n \in 1 .. Len(es) - d : SubSeq(es, d + 1, Len(es))[n] = es[d + n]
  BY <1>1
<1>4. PICK t \in Seq(T) :
         /\ t = Trimmed(es) /\ Len(t) = Len(es) - d
         /\ \A n \in 1 .. Len(es) - d : t[n] = es[d + n]
  BY <1>2, <1>3
<1>5. Len(t) \in Nat /\ d = Len(es) - Len(t)
  BY <1>1, <1>4
<1>6. \A n \in 1 .. Len(t) : t[n] = es[Len(es) - Len(t) + n]
  BY <1>4, <1>5
<1>7. /\ Len(t) <= RetentionPerDevice
      /\ Len(es) <= RetentionPerDevice => Len(t) = Len(es)
      /\ Len(es) > RetentionPerDevice => Len(t) = RetentionPerDevice
  BY <1>1, <1>4
<1> QED BY <1>4, <1>6, <1>7

LEMMA OfferSound ==
    ASSUME HubTypeOK, NEW x, Sound(x), NEW e \in Numbered
    PROVE  Sound(Offer(x, e))
<1>1. CASE Known(e, x)
  BY <1>1 DEF Offer
<1>2. CASE ~ Known(e, x)
  <2> DEFINE full == {s \in x.open : Len(x.sent[s]) - taken[s] >= QueueSize}
             next == [s \in Subs |-> IF s \in x.open \ full THEN Append(x.sent[s], e)
                                     ELSE x.sent[s]]
             y == [nextCursor |-> Larger(x.nextCursor, e.cursor),
                   kept |-> Trimmed(Append(x.kept, e)), open |-> x.open \ full,
                   sent |-> next, drop |-> x.drop \cup full]
  <2>1. Offer(x, e) = y
    BY <1>2 DEF Offer, StillOpen
  <2>2. /\ x.nextCursor \in 0 .. MaxCursor /\ x.kept \in Seq(Numbered)
        /\ x.open \subseteq Subs /\ x.drop \subseteq Subs /\ x.sent \in [Subs -> Seq(Event)]
        /\ taken \in [Subs -> Nat] /\ e.cursor \in 1 .. MaxCursor
    BY DEF Sound, Queues, Numbered, HubTypeOK
  <2>3. Larger(x.nextCursor, e.cursor) \in 0 .. MaxCursor
    BY <2>2, HubAssumption DEF Larger
  <2>4. Append(x.kept, e) \in Seq(Numbered)
    BY <2>2
  <2>5. Trimmed(Append(x.kept, e)) \in Seq(Numbered) /\ Len(Trimmed(Append(x.kept, e))) <= RetentionPerDevice
    BY <2>4, TrimmedIs
  <2>6. next \in [Subs -> Seq(Event)]
    BY <2>2, NumberedAreEvents
  <2>7. ASSUME NEW s \in Subs
        PROVE  taken[s] <= Len(next[s]) /\ Len(next[s]) - taken[s] <= QueueSize
    <3>1. /\ taken[s] <= Len(x.sent[s]) /\ Len(x.sent[s]) - taken[s] <= QueueSize
          /\ x.sent[s] \in Seq(Event) /\ taken[s] \in Nat /\ QueueSize \in Nat
      BY <2>2, HubAssumption DEF Sound
    <3>2. CASE s \in x.open \ full
      <4>1. next[s] = Append(x.sent[s], e) /\ Len(next[s]) = Len(x.sent[s]) + 1
        BY <3>1, <3>2
      <4>2. ~ (Len(x.sent[s]) - taken[s] >= QueueSize)
        BY <3>2
      <4> HIDE DEF next, full
      <4> QED BY <3>1, <4>1, <4>2
    <3>3. CASE s \notin x.open \ full
      BY <3>1, <3>3
    <3> QED BY <3>2, <3>3
  <2>8. full \subseteq x.open /\ x.open \cap x.drop = {} /\ x.open \cup x.drop \subseteq open
    BY DEF Sound
  <2>9. \A s \in Subs \ open : next[s] = sent[s]
    BY <2>8 DEF Sound
  <2> HIDE DEF full, next
  <2>10. y \in Queues
    BY <2>2, <2>3, <2>5, <2>6, <2>8 DEF Queues
  <2>11. Sound(y)
    BY <2>5, <2>7, <2>8, <2>9, <2>10 DEF Sound
  <2> QED BY <2>1, <2>11
<1> QED BY <1>1, <1>2

LEMMA FannedSound ==
    ASSUME HubTypeOK, kept \in Seq(Numbered), NEW es \in Seq(Numbered)
    PROVE  Sound(Fanned(es)[Len(es)])
<1> DEFINE S == {n \in 0 .. Len(es) : Sound(Fanned(es)[n])}
<1>1. Len(es) \in Nat
  OBVIOUS
<1>2. /\ Fanned(es)[0] = Before
      /\ \A n \in 1 .. Len(es) : Fanned(es)[n] = Offer(Fanned(es)[n - 1], es[n])
  BY <1>1, FannedIs
<1>3. 0 \in S
  <2>1. Sound(Before)
    BY DEF HubTypeOK, Sound, Before, Queues
  <2> QED BY <1>1, <1>2, <2>1
<1>4. ASSUME NEW n \in 0 .. Len(es), n \in S, n < Len(es) PROVE n + 1 \in S
  <2>1. n + 1 \in 1 .. Len(es) /\ (n + 1) - 1 = n /\ n + 1 \in 0 .. Len(es)
    BY <1>1, <1>4
  <2>2. Fanned(es)[n + 1] = Offer(Fanned(es)[n], es[n + 1]) /\ es[n + 1] \in Numbered
    BY <1>2, <2>1
  <2>3. Sound(Fanned(es)[n])
    BY <1>4
  <2> QED BY <2>1, <2>2, <2>3, OfferSound
<1>5. \A n \in 0 .. Len(es) : n \in S
  <2> HIDE DEF S
  <2> QED BY <1>1, <1>3, <1>4, CountUp
<1> QED BY <1>1, <1>5

\* What one event does to a queue.
LEMMA OneFanned ==
    ASSUME NEW e
    PROVE  Len(<<e>>) = 1 /\ Fanned(<<e>>)[1] = Offer(Before, e)
<1>1. Len(<<e>>) = 1 /\ <<e>>[1] = e
  OBVIOUS
<1> QED BY <1>1, FannedIs

-----------------------------------------------------------------------------
\* A connection that was not opened, or no longer waits to be, has nothing and is
\* nowhere.
ConnsSound ==
    \A s \in Subs :
        /\ conn[s].at # "open" => /\ once[s] = "free" /\ s \notin open /\ sent[s] = <<>>
                                 /\ \A a \in Actors : s \notin actor[a].drop
        /\ conn[s].at = "read" => conn[s].page \in Seq(Numbered)

\* What is kept has a cursor.  A publisher holds the one event it publishes, with
\* its cursor once the repository has given it one; the waker holds a page of rows.
ActorsSound ==
    /\ kept \in Seq(Numbered)
    /\ \A p \in Publishers :
        /\ actor[p].at \in {"persist", "fanout"} => Len(actor[p].page) = 1
        /\ actor[p].at = "persist" => delivery
        /\ actor[p].at = "fanout" /\ delivery => actor[p].page \in Seq(Numbered)
    /\ actor[Waker].at = "accept" => actor[Waker].page \in Seq(Numbered)

\* In memory nothing wakes the hub, the kept events are the last ones broadcast,
\* and a connection was sent those after its cursor, without a gap: all of them
\* while it is open.
MemorySound ==
    ~ delivery =>
        /\ hints = 0 /\ actor[Waker] = IdleActor
        /\ Len(kept) <= nextCursor /\ (kept = <<>> => nextCursor = 0)
        /\ \A n \in 1 .. Len(kept) : kept[n].cursor = nextCursor - Len(kept) + n
        /\ \A s \in Subs :
              /\ conn[s].at # "read"
              /\ \A n \in 1 .. Len(sent[s]) : sent[s][n].cursor = conn[s].after + n
              /\ s \in open => conn[s].after + Len(sent[s]) = nextCursor

HubSound == HubTypeOK /\ ClosedIsUnregistered /\ ConnsSound /\ ActorsSound

HubInv == HubSound /\ MemorySound

ActorStates == [at : Stages, page : Seq(Event), after : 0 .. MaxCursor, drop : SUBSET Subs]

LEMMA IdleActorType == IdleActor \in ActorStates /\ IdleActor.at = "idle" /\ IdleActor.drop = {}
<1>1. <<>> \in Seq(Event) /\ 0 \in 0 .. MaxCursor
  BY HubAssumption
<1> QED BY <1>1 DEF IdleActor, ActorStates, Stages

LEMMA HubStarts == HubInit => HubInv
<1> SUFFICES ASSUME HubInit PROVE HubInv
  OBVIOUS
<1>1. /\ actor \in [Actors -> ActorStates]
      /\ \A a \in Actors : actor[a] = IdleActor /\ actor[a].at = "idle" /\ actor[a].drop = {}
      /\ mu \notin Actors /\ Waker \in Actors
  BY IdleActorType, HubAssumption DEF HubInit, Actors
<1>2. <<>> \in Seq(Event) /\ <<>> \in Seq(Ids) /\ Len(<<>>) = 0
  OBVIOUS
<1>3. conn \in [Subs -> [at : {"new", "read", "open", "refused"}, after : 0 .. MaxCursor,
                          page : Seq(Event)]]
  BY <1>2, HubAssumption DEF HubInit
<1>4. HubTypeOK
  BY <1>1, <1>2, <1>3, HubAssumption DEF HubInit, HubTypeOK, ActorStates
<1>5. ClosedIsUnregistered /\ ConnsSound
  BY <1>1 DEF HubInit, ClosedIsUnregistered, ConnsSound
<1>6. ActorsSound /\ MemorySound
  BY <1>1, <1>2 DEF HubInit, ActorsSound, MemorySound, Actors
<1> QED BY <1>4, <1>5, <1>6 DEF HubInv, HubSound

\* While the mutex is free nobody has a subscriber to close.
LEMMA MutexFree ==
    ASSUME HubTypeOK, mu = Nobody
    PROVE  \A a \in Actors : actor[a].drop = {} /\ actor[a].at # "dropping"
BY HubAssumption DEF HubTypeOK

\* One actor goes on, outside the mutex.
LEMMA ActorGoesOn ==
    ASSUME HubSound, NEW a \in Actors, NEW r \in ActorStates,
           actor[a].at # "dropping", r.drop = {}, r.at # "dropping",
           actor' = [actor EXCEPT ![a] = r],
           UNCHANGED <<delivery, nextCursor, kept, open, sent, mu, conn, taken, once>>,
           stored' \in Seq(Ids), Len(stored') <= MaxCursor, hints' \in 0 .. MaxHints,
           a \in Publishers => /\ r.at \in {"persist", "fanout"} => Len(r.page) = 1
                               /\ r.at = "persist" => delivery
                               /\ r.at = "fanout" /\ delivery => r.page \in Seq(Numbered),
           a = Waker => (r.at = "accept" => r.page \in Seq(Numbered))
    PROVE  HubSound'
<1>1. actor \in [Actors -> ActorStates]
  BY DEF HubSound, HubTypeOK, ActorStates
<1>2. /\ actor' \in [Actors -> ActorStates] /\ actor'[a] = r
      /\ \A b \in Actors : b # a => actor'[b] = actor[b]
  BY <1>1
<1>3. actor[a].drop = {} /\ mu # a
  BY DEF HubSound, HubTypeOK
<1>4. \A b \in Actors : actor'[b].drop = actor[b].drop
  BY <1>2, <1>3
<1>5. \A b \in Actors : (mu' = b <=> actor'[b].at = "dropping") /\ (mu' = b <=> actor'[b].drop # {})
  BY <1>2, <1>3 DEF HubSound, HubTypeOK
<1>6. HubTypeOK'
  BY <1>2, <1>5 DEF HubSound, HubTypeOK, ActorStates
<1>7. ClosedIsUnregistered' /\ ConnsSound'
  BY <1>4 DEF HubSound, ClosedIsUnregistered, ConnsSound
<1>8. ActorsSound'
  BY <1>2 DEF HubSound, ActorsSound, Actors
<1> QED BY <1>6, <1>7, <1>8 DEF HubSound

LEMMA MemoryStays ==
    ASSUME MemorySound, UNCHANGED <<delivery, nextCursor, kept, open, sent, conn>>,
           ~ delivery => hints' = 0 /\ actor'[Waker] = IdleActor
    PROVE  MemorySound'
BY DEF MemorySound

LEMMA RowsType ==
    ASSUME HubTypeOK, NEW after \in 0 .. MaxCursor, NEW limit \in Nat
    PROVE  Rows(after, limit) \in Seq(Numbered)
<1> DEFINE last == Smaller(Len(stored), after + limit)
           m == Larger(last - after, 0)
<1>1. /\ stored \in Seq(Ids) /\ Len(stored) \in Nat /\ Len(stored) <= MaxCursor
      /\ MaxCursor \in Nat
  BY HubAssumption DEF HubTypeOK
<1>2. m \in Nat /\ \A n \in 1 .. m : after + n \in 1 .. Len(stored)
  BY <1>1 DEF Smaller, Larger
<1>3. Rows(after, limit) = [n \in 1 .. m |-> [id |-> stored[after + n], cursor |-> after + n]]
  BY DEF Rows
<1> HIDE DEF m
<1>4. PICK F : F = [n \in 1 .. m |-> [id |-> stored[after + n], cursor |-> after + n]]
  OBVIOUS
<1>5. ASSUME NEW n \in 1 .. m PROVE F[n] \in Numbered
  <2>1. PICK k \in 1 .. Len(stored) : k = after + n
    BY <1>2
  <2>2. k \in 1 .. MaxCursor
    BY <1>1
  <2>3. stored[k] \in Ids
    BY <1>1
  <2>4. F[n] = [id |-> stored[k], cursor |-> k]
    BY <1>4, <2>1
  <2> QED BY <2>2, <2>3, <2>4 DEF Numbered
<1>6. F \in [1 .. m -> Numbered]
  BY <1>4, <1>5
<1>7. F \in Seq(Numbered)
  BY <1>2, <1>6, SeqDef
<1> QED BY <1>3, <1>4, <1>7

LEMMA PublishKeeps ==
    ASSUME HubInv, NEW p \in Publishers, NEW i \in Ids, Publish(p, i)
    PROVE  HubInv'
<1> DEFINE r == [at |-> IF delivery THEN "persist" ELSE "fanout",
                 page |-> <<[id |-> i, cursor |-> 0]>>, after |-> 0, drop |-> {}]
<1>1. /\ actor[p].at = "idle" /\ actor' = [actor EXCEPT ![p] = r]
      /\ UNCHANGED <<delivery, stored, nextCursor, kept, open, sent, mu, conn, taken, once, hints>>
  BY DEF Publish, IdleActor, queue
<1>2. [id |-> i, cursor |-> 0] \in Event
  BY HubAssumption DEF Event
<1>3. /\ r \in ActorStates /\ Len(r.page) = 1 /\ r.drop = {}
      /\ r.at = (IF delivery THEN "persist" ELSE "fanout")
  BY <1>2, HubAssumption DEF ActorStates, Stages
<1>4. p \in Actors /\ p # Waker /\ Waker \in Actors /\ actor \in [Actors -> ActorStates]
  BY HubAssumption DEF Actors, HubInv, HubSound, HubTypeOK, ActorStates
<1> HIDE DEF r
<1>5. HubSound'
  BY <1>1, <1>3, <1>4, ActorGoesOn DEF HubInv, HubSound, HubTypeOK
<1>6. actor'[Waker] = actor[Waker]
  BY <1>1, <1>4
<1>7. MemorySound'
  BY <1>1, <1>6, MemoryStays DEF HubInv, MemorySound
<1> QED BY <1>5, <1>7 DEF HubInv

LEMMA HintedType == HubTypeOK => Hinted \in 0 .. MaxHints
BY HubAssumption DEF HubTypeOK, Hinted, Smaller

LEMMA PersistKeeps ==
    ASSUME HubInv, NEW p \in Publishers, Persist(p)
    PROVE  HubInv'
<1> DEFINE i == actor[p].page[1].id
           log == IF i \in Range(stored) THEN stored ELSE Append(stored, i)
           cursor == CHOOSE n \in DOMAIN log : log[n] = i
           e == [id |-> i, cursor |-> cursor]
           r == [actor[p] EXCEPT !.at = "fanout", !.page = <<e>>]
<1>1. p \in Actors /\ p # Waker /\ Waker \in Actors /\ actor \in [Actors -> ActorStates]
  BY HubAssumption DEF Actors, HubInv, HubSound, HubTypeOK, ActorStates
<1>2. /\ actor[p].at = "persist" /\ Len(log) <= MaxCursor /\ stored' = log /\ hints' = Hinted
      /\ actor' = [actor EXCEPT ![p].at = "fanout", ![p].page = <<e>>]
      /\ UNCHANGED <<delivery, nextCursor, kept, open, sent, mu, conn, taken, once>>
  BY DEF Persist, queue
<1>3. delivery /\ actor[p].page \in Seq(Event) /\ Len(actor[p].page) = 1
  BY <1>1, <1>2 DEF HubInv, HubSound, ActorsSound, ActorStates
<1>4. i \in Ids
  <2>1. actor[p].page[1] \in Event
    BY <1>3
  <2> QED BY <2>1 DEF Event
<1>5. stored \in Seq(Ids) /\ Len(stored) \in Nat
  BY DEF HubInv, HubSound, HubTypeOK
<1> HIDE DEF i
<1>6. log \in Seq(Ids) /\ \E n \in DOMAIN log : log[n] = i
  <2>1. CASE i \in Range(stored)
    BY <1>5, <2>1 DEF Range
  <2>2. CASE i \notin Range(stored)
    <3>1. /\ Append(stored, i) \in Seq(Ids)
          /\ Len(stored) + 1 \in DOMAIN Append(stored, i)
          /\ Append(stored, i)[Len(stored) + 1] = i
      BY <1>4, <1>5
    <3> QED BY <2>2, <3>1
  <2> QED BY <2>1, <2>2
<1> HIDE DEF log
<1>7. cursor \in DOMAIN log
  BY <1>6
<1>8. cursor \in 1 .. MaxCursor
  BY <1>2, <1>6, <1>7, HubAssumption
<1> HIDE DEF cursor
<1>9. <<e>> \in Seq(Numbered) /\ <<e>> \in Seq(Event) /\ Len(<<e>>) = 1
  BY <1>4, <1>8, NumberedAreEvents DEF Numbered
<1> HIDE DEF e
<1>10. actor[p] \in ActorStates /\ actor[p].drop = {}
  BY <1>1, <1>2 DEF HubInv, HubSound, HubTypeOK
<1>11. r \in ActorStates /\ r.at = "fanout" /\ r.page = <<e>> /\ r.drop = {}
  <2>1. DOMAIN r = {"at", "page", "after", "drop"}
    BY <1>10 DEF ActorStates
  <2> QED BY <1>9, <1>10, <2>1 DEF ActorStates, Stages
<1>12. actor' = [actor EXCEPT ![p] = r]
  BY <1>2
<1> HIDE DEF r
<1>13. hints' \in 0 .. MaxHints /\ stored' \in Seq(Ids) /\ Len(stored') <= MaxCursor
  BY <1>2, <1>6, HintedType DEF HubInv, HubSound
<1>14. HubSound'
  <2>1. /\ HubSound /\ actor[p].at # "dropping" /\ r.at # "dropping"
        /\ p \in Publishers => /\ r.at \in {"persist", "fanout"} => Len(r.page) = 1
                               /\ r.at = "persist" => delivery
                               /\ r.at = "fanout" /\ delivery => r.page \in Seq(Numbered)
        /\ p = Waker => (r.at = "accept" => r.page \in Seq(Numbered))
    BY <1>1, <1>2, <1>9, <1>11 DEF HubInv
  <2> QED BY <1>1, <1>2, <1>11, <1>12, <1>13, <2>1, ActorGoesOn
<1>15. MemorySound'
  BY <1>2, <1>3 DEF MemorySound
<1> QED BY <1>14, <1>15 DEF HubInv

\* An actor gives up and is idle; in memory it is not the waker.
LEMMA GivesUp ==
    ASSUME HubInv, NEW a \in Actors, actor[a].at # "dropping",
           actor' = [actor EXCEPT ![a] = IdleActor], hints' \in 0 .. MaxHints,
           UNCHANGED <<delivery, stored, nextCursor, kept, open, sent, mu, conn, taken, once>>,
           ~ delivery => hints' = 0
    PROVE  HubInv'
<1>1. actor \in [Actors -> ActorStates] /\ stored \in Seq(Ids) /\ Len(stored) <= MaxCursor
  BY DEF HubInv, HubSound, HubTypeOK, ActorStates
<1>2. HubSound'
  BY <1>1, IdleActorType, ActorGoesOn DEF HubInv
<1>3. MemorySound'
  BY <1>1, MemoryStays DEF HubInv, MemorySound, Actors
<1> QED BY <1>2, <1>3 DEF HubInv

LEMMA FailuresKeep ==
    ASSUME HubInv, (\E p \in Publishers : PersistFails(p)) \/ WakeFails
    PROVE  HubInv'
<1>1. hints \in 0 .. MaxHints /\ (~ delivery => hints = 0)
  BY DEF HubInv, HubSound, HubTypeOK, MemorySound
<1>2. ASSUME NEW p \in Publishers, PersistFails(p) PROVE HubInv'
  BY <1>1, <1>2, GivesUp DEF PersistFails, Actors, queue
<1>3. ASSUME WakeFails PROVE HubInv'
  BY <1>1, <1>3, GivesUp DEF WakeFails, Actors, queue
<1> QED BY <1>2, <1>3

LEMMA AppendKeeps ==
    ASSUME HubInv, NEW i \in Ids, AppendElsewhere(i)
    PROVE  HubInv'
<1>1. /\ delivery /\ Len(stored) < MaxCursor /\ stored' = Append(stored, i) /\ hints' = Hinted
      /\ UNCHANGED <<delivery, nextCursor, kept, open, sent, mu, actor, conn, taken, once>>
  BY DEF AppendElsewhere, queue
<1>2. stored \in Seq(Ids) /\ MaxCursor \in Nat
  BY HubAssumption DEF HubInv, HubSound, HubTypeOK
<1>3. stored' \in Seq(Ids) /\ Len(stored') <= MaxCursor
  BY <1>1, <1>2
<1>4. hints' \in 0 .. MaxHints
  BY <1>1, HintedType DEF HubInv, HubSound
<1>5. HubTypeOK'
  BY <1>1, <1>3, <1>4 DEF HubInv, HubSound, HubTypeOK
<1>6. ClosedIsUnregistered' /\ ConnsSound' /\ ActorsSound' /\ MemorySound'
  BY <1>1 DEF HubInv, HubSound, ClosedIsUnregistered, ConnsSound, ActorsSound, MemorySound
<1> QED BY <1>5, <1>6 DEF HubInv, HubSound

LEMMA SnapshotKeeps ==
    ASSUME HubInv, WakeSnapshot
    PROVE  HubInv'
<1> DEFINE r == IF open = {} THEN IdleActor
                ELSE [at |-> "query", page |-> <<>>,
                      after |-> IF kept = <<>> THEN 0 ELSE kept[1].cursor - 1, drop |-> {}]
<1>1. /\ actor[Waker].at = "idle" /\ hints > 0 /\ hints' = hints - 1
      /\ actor' = [actor EXCEPT ![Waker] = r]
      /\ UNCHANGED <<delivery, stored, nextCursor, kept, open, sent, mu, conn, taken, once>>
  BY DEF WakeSnapshot, IdleActor, queue
<1>2. /\ hints \in 0 .. MaxHints /\ kept \in Seq(Numbered) /\ Waker \in Actors /\ delivery
      /\ stored \in Seq(Ids) /\ Len(stored) <= MaxCursor /\ MaxHints \in Nat
  BY <1>1, HubAssumption DEF HubInv, HubSound, HubTypeOK, MemorySound, ActorsSound, Actors
<1>3. PICK n \in 0 .. MaxCursor : n = IF kept = <<>> THEN 0 ELSE kept[1].cursor - 1
  <2>1. CASE kept = <<>>
    BY <2>1, HubAssumption
  <2>2. CASE kept # <<>>
    <3>1. kept[1] \in Numbered
      BY <1>2, <2>2
    <3>2. PICK c \in 1 .. MaxCursor : c = kept[1].cursor
      BY <3>1 DEF Numbered
    <3>3. c - 1 \in 0 .. MaxCursor
      BY HubAssumption
    <3> QED BY <2>2, <3>2, <3>3
  <2> QED BY <2>1, <2>2
<1>4. r \in ActorStates /\ r.drop = {} /\ r.at \in {"idle", "query"}
  <2>1. <<>> \in Seq(Event)
    OBVIOUS
  <2>2. [at |-> "query", page |-> <<>>, after |-> n, drop |-> {}] \in ActorStates
    BY <2>1 DEF ActorStates, Stages
  <2> QED BY <1>3, <2>2, IdleActorType
<1> HIDE DEF r
<1>5. hints' \in 0 .. MaxHints
  BY <1>1, <1>2
<1>6. HubSound'
  BY <1>1, <1>2, <1>4, <1>5, HubAssumption, ActorGoesOn DEF HubInv
<1>7. MemorySound'
  BY <1>1, <1>2 DEF MemorySound
<1> QED BY <1>6, <1>7 DEF HubInv

LEMMA ReplayKeeps ==
    ASSUME HubInv, WakeReplay
    PROVE  HubInv'
<1> DEFINE rows == Rows(actor[Waker].after, QueueSize)
           r == [actor[Waker] EXCEPT !.at = "accept", !.page = rows]
<1>1. /\ actor[Waker].at = "query"
      /\ actor' = [actor EXCEPT ![Waker].at = "accept", ![Waker].page = rows]
      /\ UNCHANGED <<delivery, stored, nextCursor, kept, open, sent, mu, conn, taken, once, hints>>
  BY DEF WakeReplay, queue
<1>2. /\ Waker \in Actors /\ actor \in [Actors -> ActorStates] /\ delivery
      /\ stored \in Seq(Ids) /\ Len(stored) <= MaxCursor /\ hints \in 0 .. MaxHints
      /\ HubTypeOK
  BY <1>1, IdleActorType DEF HubInv, HubSound, HubTypeOK, MemorySound, Actors, ActorStates
<1>3. /\ actor[Waker] \in ActorStates /\ actor[Waker].drop = {}
      /\ actor[Waker].after \in 0 .. MaxCursor
  BY <1>1, <1>2 DEF HubTypeOK, ActorStates
<1>4. rows \in Seq(Numbered) /\ rows \in Seq(Event)
  BY <1>2, <1>3, RowsType, NumberedAreEvents, HubAssumption
<1> HIDE DEF rows
<1>5. r \in ActorStates /\ r.at = "accept" /\ r.page = rows /\ r.drop = {}
  <2>1. DOMAIN r = {"at", "page", "after", "drop"}
    BY <1>3 DEF ActorStates
  <2> QED BY <1>3, <1>4, <2>1 DEF ActorStates, Stages
<1>6. actor' = [actor EXCEPT ![Waker] = r]
  BY <1>1
<1> HIDE DEF r
<1>7. HubSound'
  BY <1>1, <1>2, <1>4, <1>5, <1>6, HubAssumption, ActorGoesOn DEF HubInv
<1>8. MemorySound'
  BY <1>1, <1>2 DEF MemorySound
<1> QED BY <1>7, <1>8 DEF HubInv

\* A fan-out keeps every part but that of memory.
LEMMA FanOutKeeps ==
    ASSUME HubSound, NEW a \in Actors, NEW es \in Seq(Numbered), FanOut(a, es),
           UNCHANGED <<delivery, stored, conn, taken, once, hints>>
    PROVE  HubSound'
<1>1. PICK x : x = Fanned(es)[Len(es)]
  OBVIOUS
<1>2. PICK r : r = IF x.drop = {} THEN IdleActor
                   ELSE [at |-> "dropping", page |-> <<>>, after |-> 0, drop |-> x.drop]
  OBVIOUS
<1>3. /\ mu = Nobody /\ nextCursor' = x.nextCursor /\ kept' = x.kept /\ open' = x.open
      /\ sent' = x.sent /\ actor' = [actor EXCEPT ![a] = r]
      /\ mu' = IF x.drop = {} THEN Nobody ELSE a
  BY <1>1, <1>2 DEF FanOut
<1>4. HubTypeOK /\ Sound(x) /\ \A b \in Actors : actor[b].drop = {} /\ actor[b].at # "dropping"
  BY <1>1, <1>3, FannedSound, MutexFree DEF HubSound, ActorsSound
<1>5. /\ r \in ActorStates /\ r.drop = x.drop /\ r.at \in {"idle", "dropping"}
      /\ r.at = "dropping" <=> x.drop # {}
  <2>1. CASE x.drop = {}
    BY <1>2, <2>1, IdleActorType
  <2>2. CASE x.drop # {}
    <3>1. <<>> \in Seq(Event) /\ 0 \in 0 .. MaxCursor /\ x.drop \in SUBSET Subs
      BY <1>4, HubAssumption DEF Sound, Queues
    <3> QED BY <1>2, <2>2, <3>1 DEF ActorStates, Stages
  <2> QED BY <2>1, <2>2
<1>6. actor \in [Actors -> ActorStates] /\ Nobody \notin Actors /\ Waker \in Actors
  BY <1>4, HubAssumption DEF HubTypeOK, ActorStates, Actors
<1>7. /\ actor' \in [Actors -> ActorStates] /\ actor'[a] = r
      /\ \A b \in Actors : b # a => actor'[b] = actor[b]
  BY <1>3, <1>5, <1>6
<1>8. \A b \in Actors : (mu' = b <=> actor'[b].at = "dropping") /\ (mu' = b <=> actor'[b].drop # {})
  BY <1>3, <1>4, <1>5, <1>6, <1>7
<1>9. /\ nextCursor' \in 0 .. MaxCursor /\ kept' \in Seq(Numbered) /\ kept' \in Seq(Event)
      /\ Len(kept') <= RetentionPerDevice /\ open' \subseteq open /\ x.drop \subseteq open
      /\ open' \cap x.drop = {} /\ sent' \in [Subs -> Seq(Event)]
      /\ \A s \in Subs : taken[s] <= Len(sent'[s]) /\ Len(sent'[s]) - taken[s] <= QueueSize
      /\ \A s \in Subs \ open : sent'[s] = sent[s]
      /\ mu' \in Actors \cup {Nobody}
  BY <1>3, <1>4, NumberedAreEvents DEF Sound, Queues
<1>10. HubTypeOK'
  BY <1>4, <1>7, <1>8, <1>9 DEF HubTypeOK, ActorStates
<1>11. \A b \in Actors : actor'[b].drop \subseteq x.drop
  BY <1>4, <1>5, <1>7
<1>12. ClosedIsUnregistered'
  BY <1>9, <1>11 DEF HubSound, ClosedIsUnregistered
<1>13. ConnsSound'
  BY <1>9, <1>11 DEF HubSound, ConnsSound
<1>14. ActorsSound'
  BY <1>5, <1>6, <1>7, <1>9 DEF HubSound, ActorsSound, Actors
<1> QED BY <1>10, <1>12, <1>13, <1>14 DEF HubSound

\* In memory a fan-out of the next event leaves no gap.
LEMMA NextEventFits ==
    ASSUME HubInv, ~ delivery, NEW a \in Publishers, NEW e \in Numbered,
           e.cursor = nextCursor + 1, FanOut(a, <<e>>),
           UNCHANGED <<delivery, stored, conn, taken, once, hints>>
    PROVE  MemorySound'
<1>1. PICK x : x = Offer(Before, e)
  OBVIOUS
<1>2. Fanned(<<e>>)[Len(<<e>>)] = x
  BY <1>1, OneFanned
<1>3. PICK r : r = IF x.drop = {} THEN IdleActor
                   ELSE [at |-> "dropping", page |-> <<>>, after |-> 0, drop |-> x.drop]
  OBVIOUS
<1>4. /\ nextCursor' = x.nextCursor /\ kept' = x.kept /\ open' = x.open
      /\ sent' = x.sent /\ actor' = [actor EXCEPT ![a] = r]
  BY <1>2, <1>3 DEF FanOut
<1>5. actor'[Waker] = IdleActor /\ hints' = 0 /\ ~ delivery'
  BY <1>4, HubAssumption DEF HubInv, HubSound, HubTypeOK, MemorySound, Actors
<1>6. CASE Known(e, Before)
  <2>1. x = Before
    BY <1>1, <1>6 DEF Offer
  <2>2. UNCHANGED <<nextCursor, kept, open, sent>>
    BY <1>4, <2>1 DEF Before
  <2> QED BY <1>5, <2>2, MemoryStays DEF HubInv
<1>7. CASE ~ Known(e, Before)
  <2> DEFINE full == {s \in open : Len(sent[s]) - taken[s] >= QueueSize}
  <2>1. /\ x.nextCursor = Larger(nextCursor, e.cursor)
        /\ x.kept = Trimmed(Append(kept, e)) /\ x.open = open \ full
        /\ x.sent = [s \in Subs |-> IF s \in open \ full THEN Append(sent[s], e) ELSE sent[s]]
    BY <1>1, <1>7 DEF Offer, StillOpen, Before
  <2> HIDE DEF full
  <2>2. nextCursor \in Nat /\ e.cursor = nextCursor + 1 /\ nextCursor' = nextCursor + 1
    BY <1>4, <2>1 DEF Larger, HubInv, HubSound, HubTypeOK
  <2>3. /\ kept \in Seq(Numbered) /\ Len(kept) \in Nat /\ Len(kept) <= nextCursor
        /\ \A n \in 1 .. Len(kept) : kept[n].cursor = nextCursor - Len(kept) + n
    BY DEF HubInv, HubSound, ActorsSound, MemorySound
  <2>4. PICK es : es = Append(kept, e)
    OBVIOUS
  <2>5. /\ es \in Seq(Numbered) /\ Len(es) = Len(kept) + 1
        /\ es[Len(kept) + 1] = e /\ \A n \in 1 .. Len(kept) : es[n] = kept[n]
    BY <2>3, <2>4
  <2>6. ASSUME NEW n \in 1 .. Len(es) PROVE es[n].cursor = nextCursor - Len(kept) + n
    <3>1. CASE n \in 1 .. Len(kept)
      BY <2>3, <2>5, <3>1
    <3>2. CASE n \notin 1 .. Len(kept)
      <4>1. n = Len(kept) + 1
        BY <2>3, <2>5, <3>2
      <4>2. es[n].cursor = nextCursor + 1
        BY <2>2, <2>5, <4>1
      <4> QED BY <2>2, <2>3, <4>1, <4>2
    <3> QED BY <3>1, <3>2
  <2>7. /\ kept' = Trimmed(es) /\ Trimmed(es) \in Seq(Numbered)
        /\ Len(es) <= RetentionPerDevice => Len(Trimmed(es)) = Len(es)
        /\ Len(es) > RetentionPerDevice => Len(Trimmed(es)) = RetentionPerDevice
        /\ \A n \in 1 .. Len(Trimmed(es)) : Trimmed(es)[n] = es[Len(es) - Len(Trimmed(es)) + n]
    <3>1. kept' = Trimmed(es)
      BY <1>4, <2>1, <2>4
    <3>2. es \in Seq(Numbered)
      BY <2>5
    <3> QED BY <3>1, <3>2, TrimmedIs
  <2>8. /\ Len(kept') \in Nat /\ Len(kept') <= Len(es) /\ Len(kept') # 0
        /\ \A n \in 1 .. Len(kept') : kept'[n] = es[Len(es) - Len(kept') + n]
    <3>1. PICK t \in Seq(Numbered) :
             /\ t = kept'
             /\ Len(es) <= RetentionPerDevice => Len(t) = Len(es)
             /\ Len(es) > RetentionPerDevice => Len(t) = RetentionPerDevice
             /\ \A n \in 1 .. Len(t) : t[n] = es[Len(es) - Len(t) + n]
      BY <2>7
    <3>2. Len(t) \in Nat /\ Len(es) \in Nat \ {0}
      BY <2>3, <2>5
    <3>3. Len(t) <= Len(es) /\ Len(t) # 0
      BY <3>1, <3>2, HubAssumption
    <3> QED BY <3>1, <3>2, <3>3
  <2>9. Len(kept') <= nextCursor' /\ kept' # <<>>
    BY <2>2, <2>3, <2>5, <2>8
  <2>10. ASSUME NEW n \in 1 .. Len(kept') PROVE kept'[n].cursor = nextCursor' - Len(kept') + n
    <3>1. Len(es) - Len(kept') + n \in 1 .. Len(es)
      BY <2>3, <2>5, <2>8
    <3>2. kept'[n].cursor = nextCursor - Len(kept) + (Len(es) - Len(kept') + n)
      BY <2>6, <2>8, <3>1
    <3> QED BY <2>2, <2>3, <2>5, <2>8, <3>2
  <2>11. ASSUME NEW s \in Subs
         PROVE  /\ conn'[s].at # "read"
                /\ \A n \in 1 .. Len(sent'[s]) : sent'[s][n].cursor = conn'[s].after + n
                /\ s \in open' => conn'[s].after + Len(sent'[s]) = nextCursor'
    <3>1. /\ conn' = conn /\ conn[s].at # "read" /\ sent[s] \in Seq(Event)
          /\ conn[s].after \in Nat /\ Len(sent[s]) \in Nat
          /\ \A n \in 1 .. Len(sent[s]) : sent[s][n].cursor = conn[s].after + n
          /\ s \in open => conn[s].after + Len(sent[s]) = nextCursor
      <4>1. conn[s] \in [at : {"new", "read", "open", "refused"}, after : 0 .. MaxCursor,
                         page : Seq(Event)]
        BY DEF HubInv, HubSound, HubTypeOK
      <4>2. sent[s] \in Seq(Event) /\ conn[s].after \in Nat /\ Len(sent[s]) \in Nat
        BY <4>1 DEF HubInv, HubSound, HubTypeOK
      <4>3. /\ conn[s].at # "read"
            /\ \A n \in 1 .. Len(sent[s]) : sent[s][n].cursor = conn[s].after + n
            /\ s \in open => conn[s].after + Len(sent[s]) = nextCursor
        BY DEF HubInv, MemorySound
      <4> QED BY <4>2, <4>3
    <3>2. CASE s \in open \ full
      <4>1. sent'[s] = Append(sent[s], e)
        BY <1>4, <2>1, <3>2
      <4>2. e \in Event
        BY NumberedAreEvents
      <4>3. /\ Len(sent'[s]) = Len(sent[s]) + 1 /\ sent'[s][Len(sent[s]) + 1] = e
            /\ \A n \in 1 .. Len(sent[s]) : sent'[s][n] = sent[s][n]
        BY <3>1, <4>1, <4>2
      <4>4. ASSUME NEW n \in 1 .. Len(sent'[s]) PROVE sent'[s][n].cursor = conn'[s].after + n
        <5>1. CASE n \in 1 .. Len(sent[s])
          BY <3>1, <4>3, <5>1
        <5>2. CASE n \notin 1 .. Len(sent[s])
          <6>1. n = Len(sent[s]) + 1
            BY <3>1, <4>3, <5>2
          <6>2. sent'[s][n].cursor = nextCursor + 1
            BY <2>2, <4>3, <6>1
          <6> QED BY <2>2, <3>1, <3>2, <6>1, <6>2
        <5> QED BY <5>1, <5>2
      <4>5. conn'[s].after + Len(sent'[s]) = nextCursor'
        <5>1. conn[s].after + Len(sent[s]) = nextCursor
          BY <3>1, <3>2
        <5>2. PICK c \in Nat : c = conn[s].after /\ c = conn'[s].after
          BY <3>1
        <5>3. PICK m \in Nat : m = Len(sent[s]) /\ Len(sent'[s]) = m + 1
          BY <3>1, <4>3
        <5>4. c + (m + 1) = nextCursor + 1
          BY <2>2, <5>1, <5>2, <5>3
        <5> QED BY <2>2, <5>2, <5>3, <5>4
      <4> QED BY <3>1, <4>4, <4>5
    <3>3. CASE s \notin open \ full
      <4>1. sent'[s] = sent[s] /\ s \notin open'
        BY <1>4, <2>1, <3>3
      <4> QED BY <3>1, <4>1
    <3> QED BY <3>2, <3>3
  <2> QED BY <1>5, <2>9, <2>10, <2>11 DEF MemorySound
<1> QED BY <1>6, <1>7

LEMMA BroadcastKeeps ==
    ASSUME HubInv, NEW p \in Publishers, Broadcast(p)
    PROVE  HubInv'
<1> DEFINE e == actor[p].page[1]
<1>1. PICK f : f = [e EXCEPT !.cursor = CursorOf(e)]
  OBVIOUS
<1>2. /\ actor[p].at = "fanout" /\ CursorOf(e) <= MaxCursor /\ FanOut(p, <<f>>)
      /\ UNCHANGED <<delivery, stored, conn, taken, once, hints>>
  BY <1>1 DEF Broadcast
<1>3. p \in Actors /\ actor[p].page \in Seq(Event) /\ Len(actor[p].page) = 1
  BY <1>2 DEF HubInv, HubSound, HubTypeOK, ActorsSound, Actors
<1>4. e \in Event /\ (delivery => e \in Numbered)
  BY <1>2, <1>3 DEF HubInv, HubSound, ActorsSound
<1> HIDE DEF e
<1>5. CursorOf(e) \in 1 .. MaxCursor
  BY <1>2, <1>4, HubAssumption DEF CursorOf, Numbered, HubInv, HubSound, HubTypeOK
<1>6. f \in Numbered /\ f.cursor = CursorOf(e)
  BY <1>1, <1>4, <1>5 DEF Numbered, Event
<1>7. HubSound'
  <2>1. <<f>> \in Seq(Numbered)
    BY <1>6
  <2> QED BY <1>2, <1>3, <2>1, FanOutKeeps DEF HubInv
<1>8. MemorySound'
  <2>1. CASE delivery
    BY <1>2, <2>1 DEF MemorySound
  <2>2. CASE ~ delivery
    <3>1. f.cursor = nextCursor + 1
      BY <1>6, <2>2 DEF CursorOf
    <3> QED BY <1>2, <1>6, <2>2, <3>1, NextEventFits
  <2> QED BY <2>1, <2>2
<1> QED BY <1>7, <1>8 DEF HubInv

LEMMA AcceptKeeps ==
    ASSUME HubInv, WakeAccept
    PROVE  HubInv'
<1>1. /\ actor[Waker].at = "accept" /\ FanOut(Waker, actor[Waker].page)
      /\ UNCHANGED <<delivery, stored, conn, taken, once, hints>>
  BY DEF WakeAccept
<1>2. actor[Waker].page \in Seq(Numbered) /\ Waker \in Actors
  BY <1>1 DEF HubInv, HubSound, ActorsSound, Actors
<1>3. delivery
  BY <1>1, IdleActorType DEF HubInv, MemorySound
<1>4. HubSound'
  BY <1>1, <1>2, FanOutKeeps DEF HubInv
<1> QED BY <1>1, <1>3, <1>4 DEF HubInv, MemorySound

LEMMA DropKeeps ==
    ASSUME HubInv, NEW a \in Actors, Drop(a)
    PROVE  HubInv'
<1>1. PICK s \in actor[a].drop :
         /\ once[s] # "closing" /\ once' = [once EXCEPT ![s] = "done"]
         /\ actor' = [actor EXCEPT ![a] = IF actor[a].drop \ {s} = {} THEN IdleActor
                                          ELSE [actor[a] EXCEPT !.drop = actor[a].drop \ {s}]]
         /\ mu' = IF actor[a].drop \ {s} = {} THEN Nobody ELSE mu
  BY DEF Drop
<1>2. /\ actor[a].at = "dropping"
      /\ UNCHANGED <<delivery, stored, nextCursor, kept, open, sent, conn, taken, hints>>
  BY DEF Drop, queue
<1>3. PICK left : left = actor[a].drop \ {s}
  OBVIOUS
<1>4. PICK r : r = IF left = {} THEN IdleActor ELSE [actor[a] EXCEPT !.drop = left]
  OBVIOUS
<1>5. /\ actor \in [Actors -> ActorStates] /\ mu = a /\ s \in Subs /\ left \subseteq Subs
      /\ actor[a] \in ActorStates
  BY <1>1, <1>2, <1>3 DEF HubInv, HubSound, HubTypeOK, ActorStates
<1>6. /\ r \in ActorStates /\ r.drop = left /\ r.at \in {"idle", "dropping"}
      /\ r.at = "dropping" <=> left # {}
  <2>1. CASE left = {}
    BY <1>4, <2>1, IdleActorType
  <2>2. CASE left # {}
    <3>1. r = [actor[a] EXCEPT !.drop = left]
      BY <1>4, <2>2
    <3>2. r \in ActorStates /\ r.drop = left /\ r.at = actor[a].at
      BY <1>5, <3>1 DEF ActorStates
    <3> QED BY <1>2, <2>2, <3>2
  <2> QED BY <2>1, <2>2
<1>7. /\ actor' = [actor EXCEPT ![a] = r] /\ mu' = IF left = {} THEN Nobody ELSE a
      /\ Nobody \notin Actors /\ Waker \in Actors
  BY <1>1, <1>3, <1>4, <1>5, HubAssumption DEF Actors
<1>8. /\ actor' \in [Actors -> ActorStates] /\ actor'[a] = r
      /\ \A b \in Actors : b # a => actor'[b] = actor[b]
  BY <1>5, <1>6, <1>7
<1>9. \A b \in Actors : b # a => actor[b].drop = {} /\ actor[b].at # "dropping"
  BY <1>5 DEF HubInv, HubSound, HubTypeOK
<1>10. \A b \in Actors : (mu' = b <=> actor'[b].at = "dropping") /\ (mu' = b <=> actor'[b].drop # {})
  BY <1>6, <1>7, <1>8, <1>9
<1>11. /\ once \in [Subs -> {"free", "closing", "done"}]
       /\ once' \in [Subs -> {"free", "closing", "done"}] /\ once'[s] = "done"
       /\ \A t \in Subs : t # s => once'[t] = once[t]
  BY <1>1, <1>5 DEF HubInv, HubSound, HubTypeOK
<1>12. mu' \in Actors \cup {Nobody}
  BY <1>7
<1>13. HubTypeOK'
  BY <1>2, <1>8, <1>10, <1>11, <1>12 DEF HubInv, HubSound, HubTypeOK, ActorStates
<1>14. \A b \in Actors : actor'[b].drop \subseteq actor[b].drop /\ s \notin actor'[b].drop
  BY <1>3, <1>6, <1>8, <1>9
<1>15. ClosedIsUnregistered'
  <2> SUFFICES ASSUME NEW t \in Subs
               PROVE  /\ once'[t] = "done" => t \notin open'
                      /\ t \in open' => \A b \in Actors : t \notin actor'[b].drop
                      /\ \A b \in Actors : t \in actor'[b].drop => once'[t] # "done"
    BY DEF ClosedIsUnregistered
  <2>1. s \notin open /\ open' = open
    BY <1>1, <1>2, <1>5 DEF HubInv, HubSound, ClosedIsUnregistered
  <2> QED BY <1>11, <1>14, <2>1 DEF HubInv, HubSound, ClosedIsUnregistered
<1>16. ConnsSound'
  <2> SUFFICES ASSUME NEW t \in Subs
               PROVE  /\ conn'[t].at # "open" =>
                            /\ once'[t] = "free" /\ t \notin open' /\ sent'[t] = <<>>
                            /\ \A b \in Actors : t \notin actor'[b].drop
                      /\ conn'[t].at = "read" => conn'[t].page \in Seq(Numbered)
    BY DEF ConnsSound
  <2>1. conn[t].at # "open" => t # s
    BY <1>1, <1>5 DEF HubInv, HubSound, ConnsSound
  <2> QED BY <1>2, <1>11, <1>14, <2>1 DEF HubInv, HubSound, ConnsSound
<1>17. ActorsSound'
  BY <1>2, <1>6, <1>7, <1>8 DEF HubInv, HubSound, ActorsSound, Actors
<1>18. MemorySound'
  <2>1. ~ delivery => a # Waker /\ hints = 0 /\ actor[Waker] = IdleActor
    BY <1>2, IdleActorType DEF HubInv, MemorySound
  <2>2. ~ delivery => hints' = 0 /\ actor'[Waker] = IdleActor
    BY <1>2, <1>7, <1>8, <2>1
  <2> QED BY <1>2, <2>2, MemoryStays DEF HubInv
<1> QED BY <1>13, <1>15, <1>16, <1>17, <1>18 DEF HubInv, HubSound

LEMMA ReceiveKeeps ==
    ASSUME HubInv, NEW s \in Subs, Receive(s)
    PROVE  HubInv'
<1>1. /\ taken[s] < Smaller(Len(sent[s]), MaxReceived) /\ taken' = [taken EXCEPT ![s] = taken[s] + 1]
      /\ UNCHANGED <<delivery, stored, nextCursor, kept, open, sent, mu, actor, conn, once, hints>>
  BY DEF Receive, queue
<1>2. /\ taken \in [Subs -> Nat] /\ sent \in [Subs -> Seq(Event)] /\ QueueSize \in Nat
      /\ \A t \in Subs : taken[t] <= Len(sent[t]) /\ Len(sent[t]) - taken[t] <= QueueSize
  BY HubAssumption DEF HubInv, HubSound, HubTypeOK
<1>3. Len(sent[s]) \in Nat /\ taken[s] < Len(sent[s])
  BY <1>1, <1>2, HubAssumption DEF Smaller
<1>4. taken' \in [Subs -> Nat]
  BY <1>1, <1>2
<1>5. \A t \in Subs : taken'[t] <= Len(sent[t]) /\ Len(sent[t]) - taken'[t] <= QueueSize
  BY <1>1, <1>2, <1>3
<1>6. HubTypeOK'
  BY <1>1, <1>4, <1>5 DEF HubInv, HubSound, HubTypeOK
<1>7. ClosedIsUnregistered' /\ ConnsSound' /\ ActorsSound' /\ MemorySound'
  BY <1>1 DEF HubInv, HubSound, ClosedIsUnregistered, ConnsSound, ActorsSound, MemorySound
<1> QED BY <1>6, <1>7 DEF HubInv, HubSound

LEMMA CloseKeeps ==
    ASSUME HubInv, NEW s \in Subs, Close(s)
    PROVE  HubInv'
<1>1. /\ conn[s].at = "open" /\ once[s] = "free" /\ once' = [once EXCEPT ![s] = "closing"]
      /\ UNCHANGED <<delivery, stored, nextCursor, kept, open, sent, mu, actor, conn, taken, hints>>
  BY DEF Close, queue
<1>2. once \in [Subs -> {"free", "closing", "done"}]
  BY DEF HubInv, HubSound, HubTypeOK
<1>3. /\ once' \in [Subs -> {"free", "closing", "done"}] /\ once'[s] = "closing"
      /\ \A t \in Subs : t # s => once'[t] = once[t]
  BY <1>1, <1>2
<1>4. HubTypeOK'
  BY <1>1, <1>3 DEF HubInv, HubSound, HubTypeOK
<1>5. ClosedIsUnregistered' /\ ConnsSound'
  BY <1>1, <1>3 DEF HubInv, HubSound, ClosedIsUnregistered, ConnsSound
<1>6. ActorsSound' /\ MemorySound'
  BY <1>1 DEF HubInv, HubSound, ActorsSound, MemorySound
<1> QED BY <1>4, <1>5, <1>6 DEF HubInv, HubSound

LEMMA CloseLockedKeeps ==
    ASSUME HubInv, NEW s \in Subs, CloseLocked(s)
    PROVE  HubInv'
<1>1. /\ once[s] = "closing" /\ mu = Nobody /\ once' = [once EXCEPT ![s] = "done"]
      /\ open' = open \ {s}
      /\ UNCHANGED <<delivery, stored, nextCursor, kept, sent, mu, actor, conn, taken, hints>>
  BY DEF CloseLocked, Unregistered
<1>2. once \in [Subs -> {"free", "closing", "done"}] /\ \A a \in Actors : actor[a].drop = {}
  BY <1>1, MutexFree DEF HubInv, HubSound, HubTypeOK
<1>3. /\ once' \in [Subs -> {"free", "closing", "done"}] /\ once'[s] = "done"
      /\ \A t \in Subs : t # s => once'[t] = once[t]
  BY <1>1, <1>2
<1>4. HubTypeOK'
  BY <1>1, <1>3 DEF HubInv, HubSound, HubTypeOK
<1>5. ClosedIsUnregistered'
  BY <1>1, <1>2, <1>3 DEF HubInv, HubSound, ClosedIsUnregistered
<1>6. ConnsSound'
  BY <1>1, <1>2, <1>3 DEF HubInv, HubSound, ConnsSound
<1>7. ActorsSound'
  BY <1>1 DEF HubInv, HubSound, ActorsSound
<1>8. MemorySound'
  BY <1>1 DEF HubInv, HubSound, HubTypeOK, MemorySound
<1> QED BY <1>4, <1>5, <1>6, <1>7, <1>8 DEF HubInv, HubSound

Conns == [at : {"new", "read", "open", "refused"}, after : 0 .. MaxCursor, page : Seq(Event)]

\* A connection reads its replay, or is refused.
LEMMA ConnGoesOn ==
    ASSUME HubInv, NEW s \in Subs, NEW r \in Conns, conn[s].at # "open", r.at \in {"read", "refused"},
           r.at = "read" => delivery /\ r.page \in Seq(Numbered), conn' = [conn EXCEPT ![s] = r],
           UNCHANGED <<delivery, stored, nextCursor, kept, open, sent, mu, actor, taken, once, hints>>,
           r.after = conn[s].after \/ delivery
    PROVE  HubInv'
<1>1. conn \in [Subs -> Conns]
  BY DEF HubInv, HubSound, HubTypeOK, Conns
<1>2. conn' \in [Subs -> Conns] /\ conn'[s] = r /\ \A t \in Subs : t # s => conn'[t] = conn[t]
  BY <1>1
<1>3. HubTypeOK'
  BY <1>2 DEF HubInv, HubSound, HubTypeOK, Conns
<1>4. ClosedIsUnregistered' /\ ActorsSound'
  BY DEF HubInv, HubSound, ClosedIsUnregistered, ActorsSound
<1>5. ConnsSound'
  BY <1>2 DEF HubInv, HubSound, ConnsSound
<1>6. MemorySound'
  <2> SUFFICES ASSUME ~ delivery PROVE MemorySound'
    BY DEF MemorySound
  <2>1. r.after = conn[s].after /\ r.at = "refused" /\ MemorySound
    BY DEF HubInv
  <2>2. \A t \in Subs : conn'[t].after = conn[t].after /\ conn'[t].at # "read"
    BY <1>2, <2>1 DEF MemorySound
  <2> QED BY <2>1, <2>2 DEF MemorySound
<1> QED BY <1>3, <1>4, <1>5, <1>6 DEF HubInv, HubSound

LEMMA SubscribeReplayKeeps ==
    ASSUME HubInv, NEW s \in Subs, NEW after \in ClientCursors, SubscribeReplay(s, after)
    PROVE  HubInv'
<1>1. PICK page : page = Rows(after, QueueSize + 1)
  OBVIOUS
<1>2. PICK r : r = [at |-> IF Len(page) > QueueSize THEN "refused" ELSE "read",
                    after |-> after, page |-> page]
  OBVIOUS
<1>3. /\ delivery /\ conn[s].at = "new" /\ conn' = [conn EXCEPT ![s] = r]
      /\ UNCHANGED <<delivery, stored, nextCursor, kept, open, sent, mu, actor, taken, once, hints>>
  BY <1>1, <1>2 DEF SubscribeReplay, queue
<1>4. after \in 0 .. MaxCursor
  <2>1. after \in 0 .. Len(stored) /\ Len(stored) \in Nat /\ Len(stored) <= MaxCursor
    BY <1>3 DEF ClientCursors, HubInv, HubSound, HubTypeOK
  <2> QED BY <2>1, HubAssumption
<1>5. page \in Seq(Numbered) /\ page \in Seq(Event)
  BY <1>1, <1>4, RowsType, NumberedAreEvents, HubAssumption DEF HubInv, HubSound
<1>6. r \in Conns /\ r.at \in {"read", "refused"} /\ r.page = page
  BY <1>2, <1>4, <1>5 DEF Conns
<1>7. r.at = "read" => delivery /\ r.page \in Seq(Numbered)
  BY <1>3, <1>5, <1>6
<1>8. conn[s].at # "open" /\ (r.after = conn[s].after \/ delivery)
  BY <1>3
<1> QED BY <1>3, <1>6, <1>7, <1>8, ConnGoesOn

\* A connection is refused: its replay would not fit, or has been trimmed.
LEMMA RefusedKeeps ==
    ASSUME HubInv, NEW s \in Subs, conn[s].at # "open", conn' = [conn EXCEPT ![s].at = "refused"],
           UNCHANGED <<delivery, stored, nextCursor, kept, open, sent, mu, actor, taken, once, hints>>
    PROVE  HubInv'
<1>1. PICK r : r = [conn[s] EXCEPT !.at = "refused"]
  OBVIOUS
<1>2. conn[s] \in Conns
  BY DEF HubInv, HubSound, HubTypeOK, Conns
<1>3. r \in Conns /\ r.at = "refused" /\ r.after = conn[s].after
  BY <1>1, <1>2 DEF Conns
<1>4. conn' = [conn EXCEPT ![s] = r]
  BY <1>1
<1>5. r.at \in {"read", "refused"} /\ (r.at = "read" => delivery /\ r.page \in Seq(Numbered))
  BY <1>3
<1> QED BY <1>3, <1>4, <1>5, ConnGoesOn

\* A connection is opened with its replay, which in memory ends with the last event.
LEMMA RegisteredKeeps ==
    ASSUME HubInv, NEW s \in Subs, conn[s].at # "open", NEW after \in 0 .. MaxCursor,
           NEW page \in Seq(Numbered), Len(page) <= QueueSize, mu = Nobody,
           conn' = [conn EXCEPT ![s] = [at |-> "open", after |-> after, page |-> <<>>]],
           sent' = [sent EXCEPT ![s] = page], open' = open \cup {s},
           nextCursor' = IF page = <<>> THEN nextCursor ELSE Larger(nextCursor, Last(page).cursor),
           UNCHANGED <<delivery, stored, kept, mu, actor, taken, once, hints>>,
           ~ delivery => /\ \A n \in 1 .. Len(page) : page[n].cursor = after + n
                         /\ after + Len(page) = nextCursor
    PROVE  HubInv'
<1>1. PICK r : r = [at |-> "open", after |-> after, page |-> <<>>]
  OBVIOUS
<1>2. <<>> \in Seq(Event)
  OBVIOUS
<1>3. r \in Conns /\ r.at = "open" /\ r.after = after
  BY <1>1, <1>2 DEF Conns
<1>4. conn \in [Subs -> Conns]
  BY DEF HubInv, HubSound, HubTypeOK, Conns
<1>5. conn' \in [Subs -> Conns] /\ conn'[s] = r /\ \A t \in Subs : t # s => conn'[t] = conn[t]
  BY <1>1, <1>3, <1>4
<1>6. /\ once[s] = "free" /\ s \notin open /\ sent[s] = <<>>
      /\ \A a \in Actors : s \notin actor[a].drop
  BY DEF HubInv, HubSound, ConnsSound
<1>7. /\ sent \in [Subs -> Seq(Event)] /\ taken \in [Subs -> Nat] /\ page \in Seq(Event)
      /\ \A t \in Subs : taken[t] <= Len(sent[t]) /\ Len(sent[t]) - taken[t] <= QueueSize
  BY NumberedAreEvents DEF HubInv, HubSound, HubTypeOK
<1>8. /\ sent' \in [Subs -> Seq(Event)] /\ sent'[s] = page
      /\ \A t \in Subs : t # s => sent'[t] = sent[t]
  BY <1>7
<1>9. Len(page) \in Nat /\ taken[s] = 0
  BY <1>6, <1>7
<1>10. \A t \in Subs : taken[t] <= Len(sent'[t]) /\ Len(sent'[t]) - taken[t] <= QueueSize
  BY <1>7, <1>8, <1>9
<1>11. page # <<>> => Last(page) = page[Len(page)] /\ Last(page) \in Numbered
  BY <1>9 DEF Last
<1>12. nextCursor \in 0 .. MaxCursor /\ nextCursor' \in 0 .. MaxCursor
  <2>1. nextCursor \in 0 .. MaxCursor
    BY DEF HubInv, HubSound, HubTypeOK
  <2>2. CASE page = <<>>
    BY <2>1, <2>2
  <2>3. CASE page # <<>>
    <3>1. Last(page).cursor \in 1 .. MaxCursor
      BY <1>11, <2>3 DEF Numbered
    <3> QED BY <2>1, <2>3, <3>1, HubAssumption DEF Larger
  <2> QED BY <2>2, <2>3
<1>13. HubTypeOK'
  BY <1>5, <1>8, <1>10, <1>12 DEF HubInv, HubSound, HubTypeOK, Conns
<1>14. ClosedIsUnregistered'
  BY <1>6 DEF HubInv, HubSound, ClosedIsUnregistered
<1>15. ConnsSound'
  BY <1>3, <1>5, <1>8 DEF HubInv, HubSound, ConnsSound
<1>16. ActorsSound'
  BY DEF HubInv, HubSound, ActorsSound
<1>17. MemorySound'
  <2> SUFFICES ASSUME ~ delivery PROVE MemorySound'
    BY DEF MemorySound
  <2>1. nextCursor' = nextCursor
    <3>1. CASE page = <<>>
      BY <3>1
    <3>2. CASE page # <<>>
      <4>1. Len(page) \in 1 .. Len(page)
        BY <1>9, <3>2
      <4>2. Last(page).cursor = nextCursor
        BY <1>11, <3>2, <4>1
      <4> QED BY <1>12, <3>2, <4>2 DEF Larger
    <3> QED BY <3>1, <3>2
  <2>2. MemorySound
    BY DEF HubInv
  <2>3. ASSUME NEW t \in Subs
        PROVE  /\ conn'[t].at # "read"
               /\ \A n \in 1 .. Len(sent'[t]) : sent'[t][n].cursor = conn'[t].after + n
               /\ t \in open' => conn'[t].after + Len(sent'[t]) = nextCursor'
    <3>1. CASE t = s
      BY <1>3, <1>5, <1>8, <2>1, <3>1
    <3>2. CASE t # s
      BY <1>5, <1>8, <2>1, <2>2, <3>2 DEF MemorySound
    <3> QED BY <3>1, <3>2
  <2> QED BY <2>1, <2>2, <2>3 DEF MemorySound
<1> QED BY <1>13, <1>14, <1>15, <1>16, <1>17 DEF HubInv, HubSound

LEMMA RegisterKeeps ==
    ASSUME HubInv, NEW s \in Subs, conn[s].at # "open", NEW after \in 0 .. MaxCursor,
           NEW page \in Seq(Numbered), Register(s, after, page),
           ~ delivery => /\ \A n \in 1 .. Len(page) : page[n].cursor = after + n
                         /\ after + Len(page) = nextCursor
    PROVE  HubInv'
<1>1. mu = Nobody /\ UNCHANGED <<delivery, stored, mu, actor, taken, once, hints>>
  BY DEF Register
<1>2. CASE Len(page) > QueueSize
  <2>1. conn' = [conn EXCEPT ![s].at = "refused"] /\ UNCHANGED <<nextCursor, kept, open, sent>>
    BY <1>2 DEF Register, queue
  <2> QED BY <1>1, <2>1, RefusedKeeps
<1>3. CASE ~ (Len(page) > QueueSize)
  <2>1. /\ conn' = [conn EXCEPT ![s] = [at |-> "open", after |-> after, page |-> <<>>]]
        /\ sent' = [sent EXCEPT ![s] = page] /\ open' = open \cup {s} /\ UNCHANGED kept
        /\ nextCursor' = IF page = <<>> THEN nextCursor ELSE Larger(nextCursor, Last(page).cursor)
    BY <1>3 DEF Register
  <2>2. Len(page) <= QueueSize
    BY <1>3, HubAssumption
  <2> QED BY <1>1, <2>1, <2>2, RegisteredKeeps
<1> QED BY <1>2, <1>3

LEMMA SubscribeDurableKeeps ==
    ASSUME HubInv, NEW s \in Subs, SubscribeDurable(s)
    PROVE  HubInv'
<1>1. conn[s].at = "read" /\ Register(s, conn[s].after, conn[s].page)
  BY DEF SubscribeDurable
<1>2. /\ conn[s].page \in Seq(Numbered) /\ delivery
  BY <1>1 DEF HubInv, HubSound, ConnsSound, MemorySound
<1>3. conn[s].after \in 0 .. MaxCursor
  <2>1. conn[s] \in Conns
    BY DEF HubInv, HubSound, HubTypeOK, Conns
  <2> QED BY <2>1 DEF Conns
<1> QED BY <1>1, <1>2, <1>3, RegisterKeeps

-----------------------------------------------------------------------------
\* The replay from memory is what its recursion says.
LEMMA KeptAfterIs ==
    ASSUME NEW after, Len(kept) \in Nat
    PROVE  /\ KeptAfter(after)[0] = <<>>
           /\ \A n \in 1 .. Len(kept) : KeptAfter(after)[n] =
                 IF kept[n].cursor > after THEN Append(KeptAfter(after)[n - 1], kept[n])
                 ELSE KeptAfter(after)[n - 1]
<1> DEFINE m == Len(kept)
           More(f, n) == IF kept[n].cursor > after THEN Append(f, kept[n]) ELSE f
           Is(g, k) == g = [n \in 0 .. k |-> IF n = 0 THEN <<>> ELSE More(g[n - 1], n)]
           S == {k \in 0 .. m : \E g : Is(g, k)}
<1>1. 0 \in S
  <2> DEFINE g == [n \in 0 .. 0 |-> <<>>]
  <2>1. Is(g, 0)
    OBVIOUS
  <2> HIDE DEF g
  <2> QED BY <2>1
<1>2. ASSUME NEW k \in 0 .. m, k \in S, k < m PROVE k + 1 \in S
  <2>1. PICK g : Is(g, k)
    BY <1>2
  <2> HIDE DEF More
  <2> DEFINE h == [n \in 0 .. k + 1 |-> IF n = k + 1 THEN More(g[k], k + 1) ELSE g[n]]
  <2>2. ASSUME NEW n \in 0 .. k + 1
        PROVE  h[n] = IF n = 0 THEN <<>> ELSE More(h[n - 1], n)
    <3>1. CASE n = 0
      BY <2>1, <3>1
    <3>2. CASE n = k + 1
      <4>1. h[n - 1] = g[k]
        BY <3>2
      <4> QED BY <3>2, <4>1
    <3>3. CASE n \in 1 .. k
      <4>1. h[n - 1] = g[n - 1] /\ h[n] = g[n]
        BY <3>3
      <4>2. g[n] = More(g[n - 1], n)
        BY <2>1, <3>3
      <4> QED BY <3>3, <4>1, <4>2
    <3> QED BY <3>1, <3>2, <3>3
  <2>3. h = [n \in 0 .. k + 1 |-> IF n = 0 THEN <<>> ELSE More(h[n - 1], n)]
    <3>1. h = [n \in 0 .. k + 1 |-> h[n]]
      OBVIOUS
    <3> HIDE DEF h
    <3> QED BY <2>2, <3>1
  <2> HIDE DEF h
  <2>4. Is(h, k + 1)
    BY <2>3
  <2> QED BY <2>4, <1>2
<1>3. \E g : Is(g, m)
  <2> HIDE DEF Is
  <2>1. \A k \in 0 .. m : k \in S
    <3> HIDE DEF S
    <3> QED BY <1>1, <1>2, CountUp
  <2> QED BY <2>1
<1>4. Is(KeptAfter(after), m)
  <2>1. KeptAfter(after) = CHOOSE g : Is(g, m)
    BY DEF KeptAfter
  <2> HIDE DEF Is
  <2> QED BY <1>3, <2>1
<1>5. PICK g : g = KeptAfter(after) /\ Is(g, m)
  BY <1>4
<1>6. g = [n \in 0 .. m |-> IF n = 0 THEN <<>> ELSE More(g[n - 1], n)]
  BY <1>5
<1>7. g[0] = <<>>
  BY <1>6
<1>8. ASSUME NEW n \in 1 .. m
      PROVE  g[n] = IF kept[n].cursor > after THEN Append(g[n - 1], kept[n]) ELSE g[n - 1]
  <2> HIDE DEF More
  <2>1. g[n] = More(g[n - 1], n)
    BY <1>6
  <2> QED BY <2>1 DEF More
<1> QED BY <1>5, <1>7, <1>8

\* From memory a connection is sent the events after its cursor, to the last one.
LEMMA KeptAfterSound ==
    ASSUME HubInv, ~ delivery, NEW after \in 0 .. nextCursor, ~ Gone(after)
    PROVE  /\ KeptAfter(after)[Len(kept)] \in Seq(Numbered)
           /\ after + Len(KeptAfter(after)[Len(kept)]) = nextCursor
           /\ \A n \in 1 .. Len(KeptAfter(after)[Len(kept)]) :
                 KeptAfter(after)[Len(kept)][n].cursor = after + n
<1> DEFINE m == Len(kept)
           f == KeptAfter(after)
<1>1. /\ kept \in Seq(Numbered) /\ m \in Nat /\ nextCursor \in Nat /\ m <= nextCursor
      /\ kept = <<>> => nextCursor = 0
  BY DEF HubInv, HubSound, HubTypeOK, ActorsSound, MemorySound
<1>2. PICK d \in Nat : d + m = nextCursor
  <2>1. nextCursor - m \in Nat /\ (nextCursor - m) + m = nextCursor
    BY <1>1
  <2> QED BY <2>1
<1>3. \A n \in 1 .. m : kept[n].cursor = d + n /\ kept[n] \in Numbered
  <2>1. \A n \in 1 .. m : kept[n].cursor = nextCursor - m + n
    BY DEF HubInv, MemorySound
  <2>2. ASSUME NEW n \in 1 .. m PROVE kept[n].cursor = d + n
    <3>1. kept[n].cursor = nextCursor - m + n
      BY <2>1
    <3> HIDE DEF m
    <3> QED BY <1>1, <1>2, <3>1
  <2>3. \A n \in 1 .. m : kept[n] \in Numbered
    BY <1>1
  <2> QED BY <2>2, <2>3
<1>4. d <= after
  <2>1. CASE kept = <<>>
    BY <1>1, <1>2, <2>1
  <2>2. CASE kept # <<>>
    <3>1. 1 \in 1 .. m
      BY <1>1, <2>2
    <3>2. ~ (after + 1 < d + 1)
      BY <1>3, <2>2, <3>1 DEF Gone
    <3> QED BY <1>1, <3>2
  <2> QED BY <2>1, <2>2
<1>5. /\ f[0] = <<>>
      /\ \A n \in 1 .. m : f[n] = IF kept[n].cursor > after THEN Append(f[n - 1], kept[n]) ELSE f[n - 1]
  BY <1>1, KeptAfterIs
<1> HIDE DEF f, m
\* After n of them: nothing while their cursors are not beyond it, then one each.
<1> DEFINE Good(n) == /\ f[n] \in Seq(Numbered)
                      /\ d + n <= after => f[n] = <<>>
                      /\ d + n > after => after + Len(f[n]) = d + n
                      /\ \A k \in 1 .. Len(f[n]) : f[n][k].cursor = after + k
           S == {n \in 0 .. m : Good(n)}
<1>6. 0 \in S
  <2>1. f[0] = <<>> /\ f[0] \in Seq(Numbered) /\ Len(f[0]) = 0
    BY <1>5
  <2>2. d + 0 <= after /\ ~ (d + 0 > after) /\ 0 \in 0 .. m
    BY <1>1, <1>4
  <2>3. Good(0)
    BY <2>1, <2>2
  <2> HIDE DEF Good
  <2> QED BY <2>2, <2>3
<1>7. ASSUME NEW n \in 0 .. m, n \in S, n < m PROVE n + 1 \in S
  <2>1. /\ n + 1 \in 1 .. m /\ (n + 1) - 1 = n /\ n + 1 \in 0 .. m
    <3> HIDE DEF S
    <3> QED BY <1>1, <1>7
  <2>2. PICK e \in Numbered : e = kept[n + 1] /\ e.cursor = d + (n + 1)
    BY <1>3, <2>1
  <2>3. f[n + 1] = IF d + (n + 1) > after THEN Append(f[n], e) ELSE f[n]
    BY <1>5, <2>1, <2>2
  <2>4. Good(n)
    BY <1>7
  <2>5. CASE d + (n + 1) <= after
    <3>1. f[n + 1] = f[n] /\ d + n <= after
      BY <1>1, <2>3, <2>5
    <3> QED BY <1>1, <2>1, <2>4, <2>5, <3>1
  <2>6. CASE d + (n + 1) > after
    <3>1. f[n + 1] = Append(f[n], e) /\ f[n] \in Seq(Numbered) /\ Len(f[n]) \in Nat
      BY <2>3, <2>4, <2>6
    <3>2. /\ f[n + 1] \in Seq(Numbered) /\ Len(f[n + 1]) = Len(f[n]) + 1
          /\ f[n + 1][Len(f[n]) + 1] = e /\ \A k \in 1 .. Len(f[n]) : f[n + 1][k] = f[n][k]
      BY <3>1
    <3>3. after + Len(f[n]) = d + n
      <4>1. CASE d + n <= after
        BY <1>1, <2>4, <2>6, <4>1
      <4>2. CASE d + n > after
        BY <2>4, <4>2
      <4> QED BY <1>1, <4>1, <4>2
    <3> PICK l \in Nat : l = Len(f[n]) /\ Len(f[n + 1]) = l + 1
      BY <3>1, <3>2
    <3>7. after + (l + 1) = d + (n + 1)
      BY <1>1, <3>3
    <3>4. after + Len(f[n + 1]) = d + (n + 1)
      BY <3>7
    <3>5. ASSUME NEW k \in 1 .. Len(f[n + 1]) PROVE f[n + 1][k].cursor = after + k
      <4>1. CASE k \in 1 .. Len(f[n])
        BY <2>4, <3>2, <4>1
      <4>2. CASE k \notin 1 .. Len(f[n])
        <5>1. k = Len(f[n]) + 1
          BY <3>1, <3>2, <4>2
        <5>2. after + k = d + (n + 1)
          BY <3>7, <5>1
        <5> QED BY <2>2, <3>2, <5>1, <5>2
      <4> QED BY <4>1, <4>2
    <3>6. ~ (d + (n + 1) <= after)
      BY <1>1, <2>6
    <3> QED BY <2>1, <3>2, <3>4, <3>5, <3>6
  <2> QED BY <1>1, <2>5, <2>6
<1>8. \A n \in 0 .. m : n \in S
  <2> HIDE DEF S
  <2> QED BY <1>1, <1>6, <1>7, CountUp
<1>9. Good(m)
  BY <1>1, <1>8
<1>10. after + Len(f[m]) = nextCursor
  <2>1. CASE d + m <= after
    <3>1. f[m] = <<>> /\ after = nextCursor
      BY <1>1, <1>2, <1>9, <2>1
    <3> QED BY <3>1
  <2>2. CASE d + m > after
    BY <1>2, <1>9, <2>2
  <2> QED BY <1>1, <2>1, <2>2
<1> QED BY <1>9, <1>10 DEF f, m

LEMMA SubscribeMemoryKeeps ==
    ASSUME HubInv, NEW s \in Subs, NEW after \in ClientCursors, SubscribeMemory(s, after)
    PROVE  HubInv'
<1>1. ~ delivery /\ conn[s].at = "new" /\ after \in 0 .. nextCursor
  BY DEF SubscribeMemory, ClientCursors
<1>2. CASE Gone(after)
  <2>1. /\ conn' = [conn EXCEPT ![s].at = "refused"]
        /\ UNCHANGED <<delivery, stored, nextCursor, kept, open, sent, mu, actor, taken, once, hints>>
    BY <1>2 DEF SubscribeMemory, queue
  <2> QED BY <1>1, <2>1, RefusedKeeps
<1>3. CASE ~ Gone(after)
  <2>1. PICK page : page = KeptAfter(after)[Len(kept)]
    OBVIOUS
  <2>2. Register(s, after, page)
    BY <1>3, <2>1 DEF SubscribeMemory
  <2>3. /\ page \in Seq(Numbered) /\ after + Len(page) = nextCursor
        /\ \A n \in 1 .. Len(page) : page[n].cursor = after + n
    BY <1>1, <1>3, <2>1, KeptAfterSound
  <2>4. after \in 0 .. MaxCursor
    BY <1>1, HubAssumption DEF HubInv, HubSound, HubTypeOK
  <2> QED BY <1>1, <2>2, <2>3, <2>4, RegisterKeeps
<1> QED BY <1>2, <1>3

LEMMA HubStepKeeps == HubInv /\ [HubNext]_hubVars => HubInv'
<1> SUFFICES ASSUME HubInv, [HubNext]_hubVars PROVE HubInv'
  OBVIOUS
<1>1. CASE UNCHANGED hubVars
  BY <1>1 DEF hubVars, queue, HubInv, HubSound, HubTypeOK, ClosedIsUnregistered, ConnsSound,
              ActorsSound, MemorySound
<1>2. ASSUME NEW p \in Publishers, (\E i \in Ids : Publish(p, i)) \/ PersistFails(p) \/ Work(p)
      PROVE  HubInv'
  BY <1>2, PublishKeeps, FailuresKeep, DropKeeps, PersistKeeps, BroadcastKeeps DEF Work, Actors
<1>3. ASSUME NEW i \in Ids, AppendElsewhere(i) PROVE HubInv'
  BY <1>3, AppendKeeps
<1>4. ASSUME Wake \/ WakeFails PROVE HubInv'
  BY <1>4, SnapshotKeeps, ReplayKeeps, AcceptKeeps, DropKeeps, FailuresKeep DEF Wake, Actors
<1>5. ASSUME NEW s \in Subs, NEW after \in ClientCursors,
             SubscribeReplay(s, after) \/ SubscribeMemory(s, after)
      PROVE  HubInv'
  BY <1>5, SubscribeReplayKeeps, SubscribeMemoryKeeps
<1>6. ASSUME NEW s \in Subs, SubscribeDurable(s) \/ Receive(s) \/ Close(s) \/ CloseLocked(s)
      PROVE  HubInv'
  BY <1>6, SubscribeDurableKeeps, ReceiveKeeps, CloseKeeps, CloseLockedKeeps
<1> QED BY <1>1, <1>2, <1>3, <1>4, <1>5, <1>6 DEF HubNext

LEMMA HubInvariant == HubSpec => []HubInv
BY HubStarts, HubStepKeeps, PTL DEF HubSpec

LEMMA SoundDelivers == HubInv => MemoryDelivers
<1> SUFFICES ASSUME HubInv, ~ delivery, NEW s \in Subs
             PROVE  /\ \A n \in DOMAIN sent[s] :
                          sent[s][n].cursor > IF n = 1 THEN conn[s].after ELSE sent[s][n - 1].cursor
                    /\ s \in open => \A n \in conn[s].after + 1 .. nextCursor :
                                        \E e \in Range(sent[s]) : e.cursor = n
  BY DEF MemoryDelivers
<1>1. /\ sent[s] \in Seq(Event) /\ conn[s] \in Conns /\ nextCursor \in Nat
      /\ \A n \in 1 .. Len(sent[s]) : sent[s][n].cursor = conn[s].after + n
      /\ s \in open => conn[s].after + Len(sent[s]) = nextCursor
  BY DEF HubInv, HubSound, HubTypeOK, MemorySound, Conns
<1>2. PICK m \in Nat : m = Len(sent[s]) /\ DOMAIN sent[s] = 1 .. m
  BY <1>1
<1>3. PICK c \in Nat : c = conn[s].after
  BY <1>1 DEF Conns
<1>4. ASSUME NEW n \in 1 .. m
      PROVE  sent[s][n].cursor > IF n = 1 THEN c ELSE sent[s][n - 1].cursor
  BY <1>1, <1>2, <1>3
<1>5. ASSUME s \in open, NEW n \in c + 1 .. nextCursor
      PROVE  \E e \in Range(sent[s]) : e.cursor = n
  <2>1. c + m = nextCursor
    BY <1>1, <1>2, <1>3, <1>5
  <2>2. n - c \in 1 .. m /\ c + (n - c) = n
    BY <1>1, <1>3, <2>1
  <2>3. sent[s][n - c].cursor = n /\ sent[s][n - c] \in Range(sent[s])
    BY <1>1, <1>2, <1>3, <2>2 DEF Range
  <2> QED BY <2>3
<1> QED BY <1>2, <1>3, <1>4, <1>5

\* In memory every open connection has been sent every event broadcast after the
\* cursor it subscribed with, once and in cursor order, however its subscription
\* interleaves with publishers and with the trimming of the retained history.
THEOREM MemoryDeliversAlways == HubSpec => []MemoryDelivers
<1>1. HubInv => MemoryDelivers
  BY SoundDelivers
<1> QED BY <1>1, HubInvariant, PTL

-----------------------------------------------------------------------------
(* The acknowledgements. *)

\* What a handler is doing is about an event; a transaction is open from before
\* its SELECT on, unless its connection was lost.
CallsSound ==
    \A h \in Sockets :
        /\ call[h].at # "idle" => call[h].event \in AckEvents
        /\ call[h].at \in {"idle", "marking"} => ~ call[h].alive
        /\ call[h].at = "select" => call[h].alive

AckInv == AckTypeOK /\ CallsSound

OneIf(p) == IF p THEN 1 ELSE 0

\* The connections a call has.
Uses(c) == OneIf(c.at \in {"marking", "updating"}) + OneIf(c.alive)

LEMMA AckStarts == AckInit => AckInv
<1> SUFFICES ASSUME AckInit PROVE AckInv
  OBVIOUS
<1>1. IdleCall \in Call
  BY AckAssumption DEF IdleCall, Call, AckKinds
<1>2. call \in [Sockets -> Call] /\ \A h \in Sockets : call[h] = IdleCall
  BY <1>1 DEF AckInit
<1>3. Statements = {} /\ Transactions = {}
  BY <1>2 DEF Statements, Transactions, IdleCall
<1>4. Cardinality(Statements) = 0 /\ Cardinality(Transactions) = 0
  BY <1>3, FS_EmptySet
<1>5. CallsSound
  BY <1>2 DEF CallsSound, IdleCall
<1>6. AckTypeOK
  BY <1>2, <1>4, AckAssumption DEF AckInit, AckTypeOK, AckKinds
<1> QED BY <1>5, <1>6 DEF AckInv

\* A set with an element taken in, or out.
LEMMA InOrOut ==
    ASSUME NEW S, IsFiniteSet(S), NEW x, NEW T \in {S \cup {x}, S \ {x}}
    PROVE  /\ IsFiniteSet(T)
           /\ Cardinality(S) \in Nat /\ Cardinality(T) \in Nat
           /\ Cardinality(T) + OneIf(x \in S) = Cardinality(S) + OneIf(x \in T)
<1>1. /\ IsFiniteSet(S \cup {x})
      /\ Cardinality(S \cup {x}) = IF x \in S THEN Cardinality(S) ELSE Cardinality(S) + 1
  BY FS_AddElement
<1>2. /\ IsFiniteSet(S \ {x})
      /\ Cardinality(S \ {x}) = IF x \in S THEN Cardinality(S) - 1 ELSE Cardinality(S)
  BY FS_RemoveElement
<1>3. Cardinality(S) \in Nat /\ Cardinality(S \cup {x}) \in Nat /\ Cardinality(S \ {x}) \in Nat
  BY <1>1, <1>2, FS_CardinalityType
<1>4. CASE T = S \cup {x}
  BY <1>1, <1>3, <1>4 DEF OneIf
<1>5. CASE T = S \ {x}
  BY <1>2, <1>3, <1>5 DEF OneIf
<1> QED BY <1>4, <1>5

\* One handler goes on: what the connections are used for changes by its own.
LEMMA CallGoesOn ==
    ASSUME AckInv, NEW h \in Sockets, NEW c \in Call, call' = [call EXCEPT ![h] = c]
    PROVE  /\ call' \in [Sockets -> Call] /\ call'[h] = c
           /\ \A g \in Sockets : g # h => call'[g] = call[g]
           /\ Cardinality(Statements) \in Nat /\ Cardinality(Statements') \in Nat
           /\ Cardinality(Transactions) \in Nat /\ Cardinality(Transactions') \in Nat
           /\ Cardinality(Statements') + OneIf(call[h].at \in {"marking", "updating"})
                = Cardinality(Statements) + OneIf(c.at \in {"marking", "updating"})
           /\ Cardinality(Transactions') + OneIf(call[h].alive)
                = Cardinality(Transactions) + OneIf(c.alive)
<1>1. /\ call' \in [Sockets -> Call] /\ call'[h] = c
      /\ \A g \in Sockets : g # h => call'[g] = call[g]
  BY DEF AckInv, AckTypeOK
<1>2. IsFiniteSet(Statements) /\ IsFiniteSet(Transactions)
  BY AckAssumption, FS_Subset DEF Statements, Transactions
<1>3. /\ h \in Statements <=> call[h].at \in {"marking", "updating"}
      /\ h \in Transactions <=> call[h].alive
      /\ call[h].alive \in BOOLEAN /\ c.alive \in BOOLEAN
  BY DEF Statements, Transactions, AckInv, AckTypeOK, Call
<1>4. /\ Statements' \in {Statements \cup {h}, Statements \ {h}}
      /\ h \in Statements' <=> c.at \in {"marking", "updating"}
  BY <1>1 DEF Statements
<1>5. /\ Transactions' \in {Transactions \cup {h}, Transactions \ {h}}
      /\ h \in Transactions' <=> c.alive
  BY <1>1 DEF Transactions
<1>6. /\ Cardinality(Statements) \in Nat /\ Cardinality(Statements') \in Nat
      /\ Cardinality(Statements') + OneIf(h \in Statements)
           = Cardinality(Statements) + OneIf(h \in Statements')
  BY <1>2, <1>4, InOrOut
<1>7. /\ Cardinality(Transactions) \in Nat /\ Cardinality(Transactions') \in Nat
      /\ Cardinality(Transactions') + OneIf(h \in Transactions)
           = Cardinality(Transactions) + OneIf(h \in Transactions')
  BY <1>2, <1>5, InOrOut
<1> QED BY <1>1, <1>3, <1>4, <1>5, <1>6, <1>7 DEF OneIf

\* What is left to show of a step of one handler.
LEMMA AckStepKeeps ==
    ASSUME AckInv, NEW h \in Sockets, NEW c \in Call, call' = [call EXCEPT ![h] = c],
           free' \in Nat, free' + Uses(c) = free + Uses(call[h]),
           c.at # "idle" => c.event \in AckEvents,
           c.at \in {"idle", "marking"} => ~ c.alive,
           c.at = "select" => c.alive,
           status' \in [AckEvents -> {"persisted", "delivered", "processed", "failed"}],
           acks' \in [AckEvents -> AckKinds \cup {"none"}],
           acked' \in 0 .. DeviceRows,
           lock' \in [AckEvents -> Sockets \cup {Unlocked}],
           \A e \in AckEvents : \/ lock'[e] = Unlocked
                                \/ lock'[e] = lock[e] /\ lock[e] # h
                                \/ lock'[e] = h /\ c.alive /\ c.event = e,
           faults' \in 0 .. MaxFaults
    PROVE  AckInv'
<1>1. /\ call' \in [Sockets -> Call] /\ call'[h] = c
      /\ \A g \in Sockets : g # h => call'[g] = call[g]
      /\ Cardinality(Statements) \in Nat /\ Cardinality(Statements') \in Nat
      /\ Cardinality(Transactions) \in Nat /\ Cardinality(Transactions') \in Nat
      /\ Cardinality(Statements') + OneIf(call[h].at \in {"marking", "updating"})
           = Cardinality(Statements) + OneIf(c.at \in {"marking", "updating"})
      /\ Cardinality(Transactions') + OneIf(call[h].alive)
           = Cardinality(Transactions) + OneIf(c.alive)
  BY CallGoesOn
<1>2. free' + Cardinality(Statements') + Cardinality(Transactions') = PoolSize
  <2>1. \A p : OneIf(p) \in Nat
    BY DEF OneIf
  <2>2. PICK s1 \in Nat, s2 \in Nat, t1 \in Nat, t2 \in Nat :
           /\ s1 = OneIf(call[h].at \in {"marking", "updating"})
           /\ s2 = OneIf(c.at \in {"marking", "updating"})
           /\ t1 = OneIf(call[h].alive) /\ t2 = OneIf(c.alive)
    BY <2>1
  <2>3. PICK n1 \in Nat, n2 \in Nat, m1 \in Nat, m2 \in Nat :
           /\ n1 = Cardinality(Statements) /\ n2 = Cardinality(Statements')
           /\ m1 = Cardinality(Transactions) /\ m2 = Cardinality(Transactions')
    BY <1>1
  <2>4. PICK f1 \in Nat, f \in Nat : f1 = free /\ f = free'
    BY DEF AckInv, AckTypeOK
  <2>5. n2 = n1 + s2 - s1 /\ m2 = m1 + t2 - t1
    BY <1>1, <2>2, <2>3
  <2>6. f + (s2 + t2) = f1 + (s1 + t1)
    BY <2>2, <2>4 DEF Uses
  <2>7. f + n2 + m2 = f1 + n1 + m1
    BY <2>5, <2>6
  <2>8. f1 + n1 + m1 = PoolSize
    BY <2>3, <2>4 DEF AckInv, AckTypeOK
  <2> QED BY <2>3, <2>4, <2>7, <2>8
<1>3. CallsSound'
  BY <1>1 DEF AckInv, CallsSound
<1>4. ASSUME NEW e \in AckEvents, NEW g \in Sockets, lock'[e] = g
      PROVE  call'[g].alive /\ call'[g].event = e
  BY <1>1, <1>4, AckAssumption DEF AckInv, AckTypeOK
<1>5. AckTypeOK'
  BY <1>1, <1>2, <1>4 DEF AckTypeOK
<1> QED BY <1>3, <1>5 DEF AckInv

\* The cursor goes no further than the event acknowledged, and not back.
LEMMA AdvancedWithin ==
    ASSUME acked \in 0 .. DeviceRows, NEW table, NEW n \in AckEvents
    PROVE  Advanced(table, n) \in 0 .. DeviceRows
<1> DEFINE S == {acked} \cup {m \in acked + 1 .. n : \A e \in acked + 1 .. m : table[e] # "none"}
<1>1. S \in SUBSET Nat /\ S # {} /\ \A x \in S : x <= DeviceRows
  BY AckAssumption DEF AckEvents
<1>2. Advanced(table, n) = Max(S)
  BY DEF Advanced
<1> HIDE DEF S
<1>3. \E x \in S : \A y \in S : x >= y
  <2>1. PICK x \in S : \A y \in S : y <= x
    BY <1>1, HasMaximum, AckAssumption
  <2> QED BY <1>1, <2>1
<1>4. Max(S) \in S
  BY <1>3 DEF Max
<1>5. Max(S) \in Nat /\ Max(S) <= DeviceRows
  BY <1>1, <1>4
<1> QED BY <1>2, <1>5, AckAssumption

\* The cursor and the acknowledgements as a transaction leaves them.
LEMMA RecordedType ==
    ASSUME AckInv, NEW h \in Sockets, call[h].at = "record"
    PROVE  /\ Recorded(h) \in [AckEvents -> AckKinds \cup {"none"}]
           /\ Advanced(Recorded(h), call[h].event) \in 0 .. DeviceRows
<1>1. call[h] \in Call /\ call[h].event \in AckEvents /\ call[h].kind \in AckKinds
  BY DEF AckInv, AckTypeOK, CallsSound, Call
<1>2. acks \in [AckEvents -> AckKinds \cup {"none"}] /\ acked \in 0 .. DeviceRows
  BY DEF AckInv, AckTypeOK
<1>3. Recorded(h) \in [AckEvents -> AckKinds \cup {"none"}]
  BY <1>1, <1>2 DEF Recorded
<1> QED BY <1>1, <1>2, <1>3, AdvancedWithin

\* Of a record, one field changes.
LEMMA CallFields ==
    ASSUME NEW c \in Call
    PROVE  /\ \A a \in {"idle", "marking", "select", "update", "updating", "record"} :
                LET d == [c EXCEPT !.at = a]
                IN  d \in Call /\ d.at = a /\ d.event = c.event /\ d.alive = c.alive
           /\ LET d == [c EXCEPT !.alive = FALSE]
              IN  d \in Call /\ d.at = c.at /\ d.event = c.event /\ d.alive = FALSE
BY DEF Call

LEMMA AckKeeps ==
    ASSUME AckInv, NEW h \in Sockets,
           \/ \E e \in AckEvents : Mark(h, e) \/ \E kind \in AckKinds : BeginAck(h, e, kind)
           \/ Marked(h) \/ AckStep(h) \/ LoseConnection(h)
    PROVE  AckInv'
<1> USE AckAssumption
<1>a. /\ status \in [AckEvents -> {"persisted", "delivered", "processed", "failed"}]
      /\ acks \in [AckEvents -> AckKinds \cup {"none"}]
      /\ acked \in 0 .. DeviceRows
      /\ lock \in [AckEvents -> Sockets \cup {Unlocked}]
      /\ call[h] \in Call /\ free \in Nat /\ faults \in 0 .. MaxFaults
      /\ \A e \in AckEvents : lock[e] = h => call[h].alive /\ call[h].event = e
  BY DEF AckInv, AckTypeOK
<1>b. /\ call[h].at # "idle" => call[h].event \in AckEvents
      /\ call[h].at \in {"idle", "marking"} => ~ call[h].alive
      /\ call[h].at = "select" => call[h].alive
      /\ call[h].alive \in BOOLEAN
      /\ call[h].kind \in AckKinds
  BY <1>a DEF AckInv, CallsSound, Call
<1>c. IdleCall \in Call /\ IdleCall.at = "idle" /\ IdleCall.alive = FALSE
  BY DEF IdleCall, Call, AckKinds
<1>1. ASSUME NEW e \in AckEvents, Mark(h, e) PROVE AckInv'
  <2> DEFINE c == [at |-> "marking", event |-> e, kind |-> "received", alive |-> FALSE]
  <2>1. c \in Call /\ c.at = "marking" /\ c.event = e /\ c.alive = FALSE
    BY DEF Call, AckKinds, AckEvents
  <2>2. call' = [call EXCEPT ![h] = c]
    BY <1>1 DEF Mark
  <2> HIDE DEF c
  <2>3. free' = free - 1 /\ free > 0 /\ UNCHANGED <<status, acks, acked, lock, faults>>
    BY <1>1 DEF Mark
  <2>4. call[h].at = "idle"
    BY <1>1 DEF Mark
  <2>5. Uses(c) = 1 /\ Uses(call[h]) = 0
    BY <2>1, <2>4, <1>b DEF OneIf, Uses
  <2>6. free - 1 \in Nat /\ (free - 1) + Uses(c) = free + Uses(call[h])
    BY <2>3, <2>5, <1>a
  <2>9. free' \in Nat /\ free' + Uses(c) = free + Uses(call[h])
    BY <2>3, <2>6, <1>a
  <2> QED BY <2>1, <2>2, <2>3, <2>4, <2>9, <1>a, <1>b, AckStepKeeps
<1>2. ASSUME NEW e \in AckEvents, NEW kind \in AckKinds, BeginAck(h, e, kind) PROVE AckInv'
  <2> DEFINE c == [at |-> "select", event |-> e, kind |-> kind, alive |-> TRUE]
  <2>1. c \in Call /\ c.at = "select" /\ c.event = e /\ c.alive = TRUE
    BY DEF Call, AckEvents
  <2>2. call' = [call EXCEPT ![h] = c]
    BY <1>2 DEF BeginAck
  <2> HIDE DEF c
  <2>3. free' = free - 1 /\ free > 0 /\ UNCHANGED <<status, acks, acked, lock, faults>>
    BY <1>2 DEF BeginAck
  <2>4. call[h].at = "idle"
    BY <1>2 DEF BeginAck
  <2>5. Uses(c) = 1 /\ Uses(call[h]) = 0
    BY <2>1, <2>4, <1>b DEF OneIf, Uses
  <2>6. free - 1 \in Nat /\ (free - 1) + Uses(c) = free + Uses(call[h])
    BY <2>3, <2>5, <1>a
  <2>9. free' \in Nat /\ free' + Uses(c) = free + Uses(call[h])
    BY <2>3, <2>6, <1>a
  <2> QED BY <2>1, <2>2, <2>3, <2>4, <2>9, <1>a, <1>b, AckStepKeeps
<1>3. CASE Marked(h)
  <2>1. /\ call[h].at = "marking" /\ call' = [call EXCEPT ![h] = IdleCall]
        /\ free' = free + 1 /\ UNCHANGED <<acks, acked, lock, faults>>
    BY <1>3 DEF Marked, Ends
  <2>2. status' \in [AckEvents -> {"persisted", "delivered", "processed", "failed"}]
    BY <1>3, <1>a DEF Marked, Monotonic
  <2>3. Uses(IdleCall) = 0 /\ Uses(call[h]) = 1
    BY <2>1, <1>b, <1>c DEF OneIf, Uses
  <2>4. free + 1 \in Nat /\ (free + 1) + Uses(IdleCall) = free + Uses(call[h])
    BY <2>3, <1>a
  <2>9. free' \in Nat /\ free' + Uses(IdleCall) = free + Uses(call[h])
    BY <2>1, <2>4, <1>a
  <2> QED BY <2>1, <2>2, <2>9, <1>a, <1>b, <1>c, AckStepKeeps
<1>4. CASE SelectForUpdate(h)
  <2> DEFINE c == [call[h] EXCEPT !.at = "update"]
  <2>1. /\ call[h].at = "select" /\ call' = [call EXCEPT ![h] = c]
        /\ lock' = [lock EXCEPT ![call[h].event] = h]
        /\ UNCHANGED <<status, acks, acked, free, faults>>
    BY <1>4 DEF SelectForUpdate, Goto
  <2>2. c \in Call /\ c.at = "update" /\ c.event = call[h].event /\ c.alive = call[h].alive
    BY <1>a, CallFields
  <2> HIDE DEF c
  <2>3. Uses(c) = 1 /\ Uses(call[h]) = 1
    BY <2>1, <2>2, <1>b DEF OneIf, Uses
  <2>6. free + Uses(c) = free + Uses(call[h])
    BY <2>3
  <2>4. lock' \in [AckEvents -> Sockets \cup {Unlocked}]
    BY <2>1, <1>a
  <2>5. ASSUME NEW e \in AckEvents
        PROVE  \/ lock'[e] = Unlocked
               \/ lock'[e] = lock[e] /\ lock[e] # h
               \/ lock'[e] = h /\ c.alive /\ c.event = e
    BY <2>1, <2>2, <1>a, <1>b
  <2>9. free' \in Nat /\ free' + Uses(c) = free + Uses(call[h])
    BY <2>1, <2>6, <1>a
  <2> QED BY <2>1, <2>2, <2>4, <2>5, <2>9, <1>a, <1>b, AckStepKeeps
<1>5. CASE SecondConnection(h)
  <2> DEFINE c == [call[h] EXCEPT !.at = "updating"]
  <2>1. /\ call[h].at = "update" /\ call' = [call EXCEPT ![h] = c]
        /\ UNCHANGED <<status, acks, acked, lock, faults>>
    BY <1>5 DEF SecondConnection, Goto
  <2>2. c \in Call /\ c.at = "updating" /\ c.event = call[h].event /\ c.alive = call[h].alive
    BY <1>a, CallFields
  <2> HIDE DEF c
  <2>3. free' = free - 1 /\ free > 0
    BY <1>5 DEF SecondConnection
  <2>4. Uses(c) = 1 + OneIf(call[h].alive) /\ Uses(call[h]) = OneIf(call[h].alive)
    BY <2>1, <2>2, <1>b DEF OneIf, Uses
  <2>5. free - 1 \in Nat /\ (free - 1) + Uses(c) = free + Uses(call[h])
    BY <2>3, <2>4, <1>a DEF OneIf
  <2>9. free' \in Nat /\ free' + Uses(c) = free + Uses(call[h])
    BY <2>3, <2>5, <1>a
  <2>6. ASSUME NEW e \in AckEvents
        PROVE  \/ lock'[e] = Unlocked
               \/ lock'[e] = lock[e] /\ lock[e] # h
               \/ lock'[e] = h /\ c.alive /\ c.event = e
    BY <2>1, <2>2, <1>a
  <2>7. /\ c.at # "idle" => c.event \in AckEvents
        /\ c.at \in {"idle", "marking"} => ~ c.alive
        /\ c.at = "select" => c.alive
    BY <2>1, <2>2, <1>b
  <2>8. /\ status' \in [AckEvents -> {"persisted", "delivered", "processed", "failed"}]
        /\ acks' \in [AckEvents -> AckKinds \cup {"none"}]
        /\ acked' \in 0 .. DeviceRows
        /\ lock' \in [AckEvents -> Sockets \cup {Unlocked}]
        /\ faults' \in 0 .. MaxFaults
    BY <2>1, <2>3, <1>a
  <2>10. call' = [call EXCEPT ![h] = c] /\ c \in Call
    BY <2>1, <2>2
  <2> QED BY <2>6, <2>7, <2>8, <2>9, <2>10, AckStepKeeps, Zenon
<1>6. CASE UpdateRow(h)
  <2> DEFINE c == [call[h] EXCEPT !.at = "record"]
  <2>1. /\ call[h].at = "updating" /\ call' = [call EXCEPT ![h] = c] /\ free' = free + 1
        /\ UNCHANGED <<acks, acked, lock, faults>>
    BY <1>6 DEF UpdateRow, Goto, Returned
  <2>2. c \in Call /\ c.at = "record" /\ c.event = call[h].event /\ c.alive = call[h].alive
    BY <1>a, CallFields
  <2> HIDE DEF c
  <2>3. status' \in [AckEvents -> {"persisted", "delivered", "processed", "failed"}]
    BY <1>6, <1>a, <1>b DEF UpdateRow, Monotonic, AckKinds
  <2>4. Uses(c) = OneIf(call[h].alive) /\ Uses(call[h]) = 1 + OneIf(call[h].alive)
    BY <2>1, <2>2, <1>b DEF OneIf, Uses
  <2>5. free + 1 \in Nat /\ (free + 1) + Uses(c) = free + Uses(call[h])
    BY <2>4, <1>a DEF OneIf
  <2>9. free' \in Nat /\ free' + Uses(c) = free + Uses(call[h])
    BY <2>1, <2>5, <1>a
  <2>6. ASSUME NEW e \in AckEvents
        PROVE  \/ lock'[e] = Unlocked
               \/ lock'[e] = lock[e] /\ lock[e] # h
               \/ lock'[e] = h /\ c.alive /\ c.event = e
    BY <2>1, <2>2, <1>a
  <2>7. /\ c.at # "idle" => c.event \in AckEvents
        /\ c.at \in {"idle", "marking"} => ~ c.alive
        /\ c.at = "select" => c.alive
    BY <2>1, <2>2, <1>b
  <2>8. /\ status' \in [AckEvents -> {"persisted", "delivered", "processed", "failed"}]
        /\ acks' \in [AckEvents -> AckKinds \cup {"none"}]
        /\ acked' \in 0 .. DeviceRows
        /\ lock' \in [AckEvents -> Sockets \cup {Unlocked}]
        /\ faults' \in 0 .. MaxFaults
    BY <2>1, <2>3, <1>a
  <2>10. call' = [call EXCEPT ![h] = c] /\ c \in Call
    BY <2>1, <2>2
  <2> QED BY <2>6, <2>7, <2>8, <2>9, <2>10, AckStepKeeps, Zenon
<1>7. CASE RecordAck(h)
  <2>1. /\ call[h].at = "record" /\ call' = [call EXCEPT ![h] = IdleCall]
        /\ lock' = [e \in AckEvents |-> IF lock[e] = h THEN Unlocked ELSE lock[e]]
        /\ free' = free + OneIf(call[h].alive)
        /\ UNCHANGED <<status, faults>>
        /\ acks' = acks \/ acks' = Recorded(h)
        /\ acked' = acked \/ acked' = Advanced(Recorded(h), call[h].event)
    BY <1>7 DEF RecordAck, Ends, Released, OneIf
  <2>2. acks' \in [AckEvents -> AckKinds \cup {"none"}] /\ acked' \in 0 .. DeviceRows
    BY <2>1, <1>a, RecordedType
  <2>3. Uses(IdleCall) = 0 /\ Uses(call[h]) = OneIf(call[h].alive)
    BY <2>1, <1>b, <1>c DEF OneIf, Uses
  <2>5. /\ free + OneIf(call[h].alive) \in Nat
        /\ (free + OneIf(call[h].alive)) + Uses(IdleCall) = free + Uses(call[h])
    BY <2>3, <1>a DEF OneIf
  <2>4. /\ lock' \in [AckEvents -> Sockets \cup {Unlocked}]
        /\ \A e \in AckEvents : lock'[e] = Unlocked \/ (lock'[e] = lock[e] /\ lock[e] # h)
    BY <2>1, <1>a
  <2>9. free' \in Nat /\ free' + Uses(IdleCall) = free + Uses(call[h])
    BY <2>1, <2>5, <1>a
  <2> QED BY <2>1, <2>2, <2>4, <2>9, <1>a, <1>b, <1>c, AckStepKeeps
<1>8. CASE LoseConnection(h)
  <2> DEFINE c == IF call[h].at = "select" THEN IdleCall ELSE [call[h] EXCEPT !.alive = FALSE]
  <2>1. /\ call[h].alive /\ faults < MaxFaults /\ faults' = faults + 1
        /\ call' = [call EXCEPT ![h] = c]
        /\ lock' = [e \in AckEvents |-> IF lock[e] = h THEN Unlocked ELSE lock[e]]
        /\ free' = free + 1
        /\ UNCHANGED <<status, acks, acked>>
    BY <1>8, <1>a DEF LoseConnection
  <2>2. /\ c \in Call /\ c.alive = FALSE
        /\ \/ call[h].at = "select" /\ c.at = "idle"
           \/ call[h].at # "select" /\ c.at = call[h].at /\ c.event = call[h].event
    <3>1. CASE call[h].at = "select"
      BY <3>1, <1>c
    <3>2. CASE call[h].at # "select"
      BY <3>2, <1>a, CallFields
    <3> QED BY <3>1, <3>2
  <2> HIDE DEF c
  <2>3. Uses(c) = OneIf(call[h].at = "updating") /\ Uses(call[h]) = 1 + OneIf(call[h].at = "updating")
    BY <2>1, <2>2, <1>b DEF OneIf, Uses
  <2>6. free + 1 \in Nat /\ (free + 1) + Uses(c) = free + Uses(call[h])
    BY <2>3, <1>a DEF OneIf
  <2>4. /\ lock' \in [AckEvents -> Sockets \cup {Unlocked}]
        /\ \A e \in AckEvents : lock'[e] = Unlocked \/ (lock'[e] = lock[e] /\ lock[e] # h)
    BY <2>1, <1>a
  <2>5. faults' \in 0 .. MaxFaults /\ c.at # "select"
    BY <2>1, <2>2, <1>a
  <2>9. free' \in Nat /\ free' + Uses(c) = free + Uses(call[h])
    BY <2>1, <2>6, <1>a
  <2> QED BY <2>1, <2>2, <2>4, <2>5, <2>9, <1>a, <1>b, AckStepKeeps
<1> QED BY <1>1, <1>2, <1>3, <1>4, <1>5, <1>6, <1>7, <1>8 DEF AckStep

\* The connections are all accounted for, and a row lock is of a live transaction.
LEMMA AckInvariant == AckSpec => []AckInv
<1>1. AckInit => AckInv
  BY AckStarts
<1>2. AckInv /\ [AckNext]_ackVars => AckInv'
  <2>1. ASSUME AckInv, AckNext PROVE AckInv'
    BY <2>1, AckKeeps DEF AckNext
  <2>2. ASSUME AckInv, UNCHANGED ackVars PROVE AckInv'
    BY <2>2 DEF AckInv, AckTypeOK, CallsSound, ackVars, Statements, Transactions
  <2> QED BY <2>1, <2>2
<1> QED BY <1>1, <1>2, PTL DEF AckSpec

\* An event that was processed stays processed: no delivery that is marked late, and
\* no other ACK of it than a failed one, on any connection, takes that back.
THEOREM AcknowledgedStaysProcessed == AckSpec => ProcessedStays
<1> DEFINE Stays == \A e \in AckEvents :
         status[e] = "processed" /\ status'[e] # "processed"
            => status'[e] = "failed" /\ \E h \in Sockets :
                  call[h].at = "updating" /\ call[h].event = e /\ call[h].kind = "failed"
<1>1. AckInv /\ [AckNext]_ackVars => [Stays]_ackVars
  <2> SUFFICES ASSUME AckInv, AckNext, NEW e \in AckEvents,
                      status[e] = "processed", status'[e] # "processed"
               PROVE  status'[e] = "failed" /\ \E h \in Sockets :
                         call[h].at = "updating" /\ call[h].event = e /\ call[h].kind = "failed"
    OBVIOUS
  <2>1. status \in [AckEvents -> {"persisted", "delivered", "processed", "failed"}]
    BY DEF AckInv, AckTypeOK
  <2>2. PICK h \in Sockets : Marked(h) \/ UpdateRow(h)
    BY DEF AckNext, Mark, BeginAck, AckStep, SelectForUpdate, SecondConnection, RecordAck,
           LoseConnection
  <2>3. call[h].event \in AckEvents /\ call[h].kind \in AckKinds
    BY <2>2 DEF AckInv, AckTypeOK, CallsSound, Call, Marked, UpdateRow
  <2>4. ~ Marked(h)
    BY <2>1, <2>3 DEF Marked, Monotonic
  <2> QED BY <2>1, <2>2, <2>3, <2>4 DEF UpdateRow, Monotonic, AckKinds
<1> QED BY <1>1, AckInvariant, PTL DEF AckSpec, ProcessedStays

-----------------------------------------------------------------------------
(* The delivery: what holds of each part holds of both. *)

LEMMA DeliveryStep == [DeliveryNext]_<<part, hubVars, ackVars>> => [HubNext]_hubVars /\ [AckNext]_ackVars
BY DEF DeliveryNext

LEMMA DeliveryRunsBoth == DeliverySpec => HubSpec /\ AckSpec
<1>1. DeliveryInit => HubInit /\ AckInit
  BY DEF DeliveryInit
<1> QED BY <1>1, DeliveryStep, PTL DEF DeliverySpec, HubSpec, AckSpec

\* Whatever publishers, the waker and connections do with the hub's mutex, it has one
\* holder, no channel overflows, and a subscription that was closed, by whomever,
\* has left the queue before; and of the acknowledgements, that every connection of
\* the pool is idle or used once, and row locks are those of live transactions.
THEOREM DeliveryInvariantHolds == DeliverySpec => []DeliveryInvariant
<1>1. HubInv /\ AckInv => DeliveryInvariant
  BY DEF HubInv, HubSound, AckInv, DeliveryInvariant
<1> QED BY <1>1, HubInvariant, AckInvariant, DeliveryRunsBoth, PTL
=============================================================================
