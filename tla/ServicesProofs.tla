--------------------------- MODULE ServicesProofs ---------------------------
(***************************************************************************)
(* Proofs about components of the relay and the documents that share no    *)
(* state: that a refresh token is replaced at most once, that a family of  *)
(* sessions has at most one live one and a revocation leaves none but      *)
(* those the comment on it names, that a login makes one session, of an    *)
(* account of its identity's own, that no accepted edit of a document is   *)
(* lost, that a push is sent to the device that asked for it while it      *)
(* holds the token, that processes that start at once run each migration   *)
(* once and leave one active build of static data, and that a route is a   *)
(* shortest one of a build that was active; for any number of session      *)
(* IDs, handlers, clients, versions, devices, tokens, releases, imports,   *)
(* callers, builds, failures and restarts, and for both repositories.      *)
(*                                                                         *)
(* What makes them inductive: the row a rotation replaces is live and      *)
(* locked by it alone, the token it inserts is nobody else's, and neither  *)
(* came after the account was revoked; what a login took is nobody else's  *)
(* to take, an account without an identity is one request's alone, and     *)
(* what leads to a session has its grant; a document's request under way   *)
(* holds its base with one field edited, or the reset document, and is     *)
(* stored only over a document equal to its base; a dispatch holds a token *)
(* of its own device that was not revoked, and the table has one row of a  *)
(* device's token; who holds the migrations' lock has run, in order, a     *)
(* part of what its release has and the schema lacks, and has the schema   *)
(* within its release; an import that is about to commit has retired all   *)
(* that is active, and is alone; a search's queue is in the order of       *)
(* depth, and what has left it has met all its neighbours.                 *)
(***************************************************************************)
EXTENDS Sessions, Login, Documents, PushTokens, DatabaseSetup, RoutePlanner, OrderLemmas,
        SequenceTheorems, FiniteSetTheorems, TLAPS

(* Sessions                                                                *)

\* What a handler is about to do rests on rows that are there: a rotation's
\* came before the account was revoked, and is live once it is locked; whoever
\* else locks a row found it revoked; the second statement of RevokeAccount
\* follows the first.
Sound(q) ==
    /\ q.op = "rotate" => q.id \in Rows \ late
    /\ q.op = "commit" => /\ durable /\ q.id \in Rows \ late /\ Live(q.id)
                          /\ q.new \in Ids \ Rows
    /\ q.op \in {"replay", "revoke"} /\ q.id # None => q.id \in Rows /\ ~ Live(q.id)
    /\ q.op = "replay" \/ (q.op = "revoke" /\ ~ All(q.what)) => q.family \in Rows
    /\ q.op = "account2" \/ (q.op = "revoke" /\ q.what = "account2") => ~ active

RequestsSound == \A h \in Handlers : Sound(req[h])

\* Two rotations replace two rows, by two heirs.
RotateApart ==
    \A g, h \in Handlers : req[g].op = "commit" /\ req[h].op = "commit" /\ g # h =>
        req[g].id # req[h].id /\ req[g].new # req[h].new

\* A session is of a family named after a session, and its parent was replaced.
Lineage ==
    \A i \in Rows :
        /\ sess[i].family \in Rows
        /\ sess[i].parent # None => sess[i].parent \in Rows /\ ~ Live(sess[i].parent)

\* What the histories name is there.
Past == /\ dead \subseteq Rows /\ late \subseteq Rows
        /\ active => late = {}
        /\ ended => ~ active

SessInv == /\ SessionsInvariant /\ RevocationIsComplete
           /\ RequestsSound /\ RotateApart /\ Lineage /\ Past

-----------------------------------------------------------------------------
LEMMA InitSessions == Init => SessInv
<1> SUFFICES ASSUME Init PROVE SessInv
  OBVIOUS
<1>1. Rows = {} /\ \A h \in Handlers : req[h] = Idle
  BY DEF Init, Rows
<1>2. TypeOK
  <2>1. req \in [Handlers -> Request]
    BY DEF Init, Request
  <2>2. 0 \in 0 .. MaxFaults
    BY SessionsAssumption
  <2> QED BY <1>1, <2>1, <2>2 DEF Init, TypeOK
<1>3. OneHeir /\ RevocationIsComplete /\ RotateApart /\ Lineage /\ Past
  BY <1>1 DEF Init, OneHeir, RevocationIsComplete, RotateApart, Lineage, Past, Idle
<1>4. RequestsSound
  BY <1>1 DEF RequestsSound, Sound, Idle
<1> QED BY <1>2, <1>3, <1>4 DEF SessInv, SessionsInvariant

\* What a request holds.
LEMMA RequestKinds ==
    ASSUME NEW q \in Request
    PROVE  /\ q.op = "issue" => q = [op |-> "issue"]
           /\ q.op = "rotate" => q.id \in Ids
           /\ q.op = "replay" => q.id \in Ids \cup {None} /\ q.family \in Ids
           /\ q.op = "commit" => q.id \in Ids /\ q.new \in Ids
           /\ q.op = "revoke" => /\ q.what \in {"family", "device", "account", "account2"}
                                 /\ q.family \in Ids \cup {None}
                                 /\ q.id \in Ids \cup {None} /\ q.rows \subseteq Ids
BY DEF Request, Idle

\* The sessions stay; a handler goes on to a sound request, and if it is to
\* rotate a row, it locked it for itself and has a token of its own.
LEMMA OnlyRequest ==
    ASSUME SessInv, NEW h \in Handlers, NEW q \in Request, Sound(q),
           req' = [req EXCEPT ![h] = q],
           q.op = "commit" => ~ Locked(q.id) /\ q.new \in Fresh,
           UNCHANGED <<durable, sess, active, expired, dead, escaped, ended, late>>,
           faults' \in 0 .. MaxFaults
    PROVE  SessInv'
<1>1. /\ req' \in [Handlers -> Request] /\ req'[h] = q
      /\ \A g \in Handlers : g # h => req'[g] = req[g]
  BY DEF SessInv, SessionsInvariant, TypeOK
<1>2. TypeOK'
  BY <1>1 DEF SessInv, SessionsInvariant, TypeOK, Rows
<1>3. OneHeir' /\ RevocationIsComplete' /\ Lineage' /\ Past'
  BY DEF SessInv, SessionsInvariant, OneHeir, RevocationIsComplete, Lineage, Past, Rows, Live
<1>4. RequestsSound'
  <2>1. SUFFICES ASSUME NEW g \in Handlers PROVE Sound(req[g])'
    BY DEF RequestsSound
  <2>2. Sound(req'[g])
    BY <1>1 DEF SessInv, RequestsSound
  <2> QED BY <2>2 DEF Sound, Rows, Live
<1>5. RotateApart'
  <2>1. SUFFICES ASSUME NEW g \in Handlers, req[g].op = "commit", q.op = "commit", g # h
                 PROVE  req[g].id # q.id /\ req[g].new # q.new
    BY <1>1 DEF SessInv, RotateApart
  <2> QED BY <2>1 DEF Locked, Fresh
<1> QED BY <1>2, <1>3, <1>4, <1>5 DEF SessInv, SessionsInvariant

\* A row i of family f comes, and replaces p unless p is None.
RowAdded(i, f, p) ==
    /\ Rows' = Rows \cup {i}
    /\ sess'[i] = [family |-> f, parent |-> p, revoked |-> FALSE,
                   replaced |-> FALSE, famRevoked |-> FALSE]
    /\ \A j \in Rows \ {p} : sess'[j] = sess[j]
    /\ p # None => sess'[p] = [sess[p] EXCEPT !.revoked = TRUE, !.replaced = TRUE]

\* A new session i of family f arrives: the first of its family (p = None), or
\* the heir of a live session p, which it replaces.  Nobody else is to insert
\* it or to replace p.
Arrives(h, i, f, p) ==
    /\ i \in Ids \ Rows /\ f \in Ids /\ p \in Ids \cup {None}
    /\ \/ p = None /\ f = i
       \/ p \in Rows \ late /\ Live(p) /\ f = sess[p].family
    /\ RowAdded(i, f, p)
    /\ req' = [req EXCEPT ![h] = Idle]
    /\ \A g \in Handlers \ {h} : req[g].op = "commit" => req[g].new # i /\ req[g].id # p
    /\ late' = IF p # None \/ active THEN late ELSE late \cup {i}
    /\ UNCHANGED <<durable, active, expired, faults, dead, escaped, ended>>

LEMMA NewSession ==
    ASSUME SessInv, NEW h \in Handlers, NEW i, NEW f, NEW p, Arrives(h, i, f, p)
    PROVE  SessInv'
<1> USE DEF SessInv, SessionsInvariant, Arrives, RowAdded
<1>0. IF p = None THEN p \notin Rows /\ f = i
      ELSE p \in Rows \ late /\ Live(p) /\ f = sess[p].family
  BY SessionsAssumption DEF TypeOK
<1>1. /\ req'[h] = Idle
      /\ \A g \in Handlers : g # h => req'[g] = req[g]
  BY DEF TypeOK
<1>2. /\ \A j \in Rows : /\ sess[j] \in Row /\ sess'[j] \in Row
                         /\ sess'[j].family = sess[j].family
                         /\ sess'[j].parent = sess[j].parent
                         /\ ~ Live(j) => ~ Live(j)'
                         /\ j # p => sess'[j] = sess[j]
                         /\ sess'[j].replaced \/ sess'[j].famRevoked => sess'[j].revoked
      /\ p # None => ~ Live(p)'
  <2>1. \A j \in Rows \ {p} : sess'[j] = sess[j]
    OBVIOUS
  <2>2. p \in Rows => sess'[p] = [sess[p] EXCEPT !.revoked = TRUE, !.replaced = TRUE]
    BY <1>0
  <2>3. \A j \in Rows : sess[j] \in Row
    BY DEF TypeOK
  <2>4. \A j \in Rows : sess[j].replaced \/ sess[j].famRevoked => sess[j].revoked
    BY DEF TypeOK
  <2>5. CASE p \in Rows
    <3>1. /\ sess'[p] \in Row /\ sess'[p].revoked
          /\ sess'[p].family = sess[p].family /\ sess'[p].parent = sess[p].parent
      BY <2>2, <2>3, <2>5 DEF Row
    <3> QED BY <2>1, <2>3, <2>4, <3>1 DEF Live
  <2>6. CASE p = None
    BY <1>0, <2>1, <2>3, <2>4, <2>6 DEF Live
  <2> QED BY <2>5, <2>6
<1>3. f \in Rows \cup {i} /\ f \in Ids /\ p \in Ids \cup {None} /\ i # None
  BY SessionsAssumption DEF Lineage, TypeOK
<1>4. sess'[i] \in Row /\ Live(i)' /\ sess'[i].family = f /\ sess'[i].parent = p
      /\ ~ sess'[i].replaced /\ ~ sess'[i].famRevoked
  BY <1>3 DEF Row, Live
<1>5. TypeOK'
  <2>1. req' \in [Handlers -> Request]
    BY DEF TypeOK, Request
  <2>2. late' \subseteq Ids
    BY DEF TypeOK
  <2>3. \A j \in Rows' : sess'[j] \in Row
    BY <1>2, <1>4
  <2>4. \A j \in Rows' : sess'[j].replaced \/ sess'[j].famRevoked => sess'[j].revoked
    BY <1>2, <1>4
  <2> QED BY <2>1, <2>2, <2>3, <2>4 DEF TypeOK
<1>6. OneHeir'
  <2>1. SUFFICES ASSUME NEW j \in Rows
                 PROVE  /\ sess[j].parent = p => p = None
                        /\ sess[j].family = f => ~ Live(j)'
    BY <1>2, <1>4 DEF OneHeir, Live
  <2>2. CASE p = None
    BY <1>0, <2>2 DEF Lineage
  <2>3. CASE p # None
    BY <1>0, <1>2, <2>3 DEF Lineage, OneHeir
  <2> QED BY <2>2, <2>3
<1>7. RevocationIsComplete'
  <2>1. f \notin dead \ escaped
    BY DEF RevocationIsComplete, Past
  <2>2. \A j \in Rows : sess'[j].family \in dead \ escaped => ~ Live(j)'
    BY <1>2 DEF RevocationIsComplete
  <2>3. ended => i \in late' \/ f \in escaped
    BY DEF RevocationIsComplete, Past
  <2>4. ended => \A j \in Rows : Live(j)' => j \in late' \/ sess'[j].family \in escaped
    BY <1>2 DEF RevocationIsComplete
  <2> QED BY <1>4, <2>1, <2>2, <2>3, <2>4 DEF RevocationIsComplete
<1>8. RequestsSound'
  <2> SUFFICES ASSUME NEW g \in Handlers PROVE Sound(req[g])'
    BY DEF RequestsSound
  <2>1. CASE g = h
    BY <1>1, <2>1 DEF Sound, Idle
  <2>2. CASE g # h
    <3>1. Sound(req[g]) /\ req'[g] = req[g] /\ req[g] \in Request
      BY <1>1, <2>2 DEF RequestsSound, TypeOK
    <3>2. req[g].op = "commit" => Live(req[g].id)' /\ req[g].new \in Ids \ Rows'
      BY <2>2, <3>1 DEF Sound, Live
    <3> QED BY <1>2, <3>1, <3>2 DEF Sound
  <2> QED BY <2>1, <2>2
<1>9. RotateApart'
  BY <1>1 DEF RotateApart, Idle
<1>10. Lineage' /\ Past'
  BY <1>2, <1>3, <1>4 DEF Lineage, Past
<1> QED BY <1>5, <1>6, <1>7, <1>8, <1>9, <1>10


\* What Insert, Rotated and Revoked do to the rows.
LEMMA RowInserted ==
    ASSUME NEW i \in Ids \ Rows, NEW f, sess' = Insert(i, f, None)
    PROVE  RowAdded(i, f, None)
BY DEF Insert, Rows, RowAdded

LEMMA RowRotated ==
    ASSUME NEW i \in Ids \ Rows, NEW f, NEW p \in Rows, sess' = Rotated(Insert(i, f, p), p)
    PROVE  RowAdded(i, f, p)
<1> DEFINE with == Insert(i, f, p)
<1>1. /\ DOMAIN with = Rows \cup {i} /\ \A j \in Rows : with[j] = sess[j]
      /\ with[i] = [family |-> f, parent |-> p, revoked |-> FALSE,
                    replaced |-> FALSE, famRevoked |-> FALSE]
  BY DEF Insert, Rows
<1>2. sess' = [with EXCEPT ![p].revoked = TRUE, ![p].replaced = TRUE]
  BY DEF Rotated
<1> HIDE DEF with
<1>3. sess' = [with EXCEPT ![p] = [with[p] EXCEPT !.revoked = TRUE, !.replaced = TRUE]]
  BY <1>1, <1>2
<1> QED BY <1>1, <1>3 DEF Rows, RowAdded

LEMMA RowsRevoked ==
    ASSUME SessInv, NEW rows, NEW whole \in BOOLEAN, sess' = Revoked(rows, whole)
    PROVE  /\ Rows' = Rows
           /\ \A j \in Rows :
                /\ sess'[j] \in Row
                /\ sess'[j].family = sess[j].family /\ sess'[j].parent = sess[j].parent
                /\ sess'[j].replaced \/ sess'[j].famRevoked => sess'[j].revoked
                /\ Live(j)' = (Live(j) /\ j \notin rows)
<1>1. \A j \in Rows : sess'[j] =
        IF j \in rows
        THEN [sess[j] EXCEPT !.revoked = TRUE, !.famRevoked = @ \/ whole]
        ELSE sess[j]
  BY DEF Revoked, Rows
<1>2. \A j \in Rows : /\ sess[j] \in Row
                      /\ sess[j].replaced \/ sess[j].famRevoked => sess[j].revoked
  BY DEF SessInv, SessionsInvariant, TypeOK
<1>3. Rows' = Rows
  BY DEF Revoked, Rows
<1> SUFFICES ASSUME NEW j \in Rows
             PROVE  /\ sess'[j] \in Row
                    /\ sess'[j].family = sess[j].family /\ sess'[j].parent = sess[j].parent
                    /\ sess'[j].replaced \/ sess'[j].famRevoked => sess'[j].revoked
                    /\ Live(j)' = (Live(j) /\ j \notin rows)
  BY <1>3
<1>4. CASE j \in rows
  BY <1>1, <1>2, <1>4 DEF Row, Live
<1>5. CASE j \notin rows
  BY <1>1, <1>2, <1>5 DEF Row, Live
<1> QED BY <1>4, <1>5


\* Rows are revoked that no rotation has locked; the account may be, too.
Revokes(rows, whole) ==
    /\ whole \in BOOLEAN /\ sess' = Revoked(rows, whole)
    /\ \A g \in Handlers : req[g].op = "commit" => req[g].id \notin rows
    /\ active' \in BOOLEAN /\ ended' \in BOOLEAN
    /\ active' => active
    /\ ended' => ~ active'
    /\ req' \in [Handlers -> Request]
    /\ \A g \in Handlers : req'[g] = req[g] \/ (Sound(req[g])' /\ req'[g].op # "commit")
    /\ dead' \subseteq Rows /\ escaped' \subseteq Ids
    /\ UNCHANGED <<durable, expired, faults, late>>

LEMMA Revocation ==
    ASSUME SessInv, NEW rows, NEW whole, Revokes(rows, whole)
    PROVE  /\ SessionsInvariant' /\ RequestsSound' /\ RotateApart' /\ Lineage' /\ Past'
           /\ Rows' = Rows
           /\ \A j \in Rows : /\ sess'[j].family = sess[j].family
                              /\ Live(j)' = (Live(j) /\ j \notin rows)
<1>1. /\ Rows' = Rows
      /\ \A j \in Rows :
            /\ sess'[j] \in Row
            /\ sess'[j].family = sess[j].family /\ sess'[j].parent = sess[j].parent
            /\ sess'[j].replaced \/ sess'[j].famRevoked => sess'[j].revoked
            /\ Live(j)' = (Live(j) /\ j \notin rows)
  BY RowsRevoked DEF Revokes
<1> USE DEF SessInv, SessionsInvariant
<1>2. /\ active' \in BOOLEAN /\ ended' \in BOOLEAN
      /\ active' => active
      /\ ended' => ~ active'
      /\ req' \in [Handlers -> Request] /\ dead' \subseteq Rows /\ escaped' \subseteq Ids
      /\ UNCHANGED <<durable, expired, faults, late>>
  BY DEF Revokes
<1>3. TypeOK' /\ OneHeir' /\ Lineage' /\ Past'
  <2>1. TypeOK'
    BY <1>1, <1>2 DEF TypeOK
  <2>2. OneHeir' /\ Lineage' /\ Past'
    BY <1>1, <1>2 DEF OneHeir, Lineage, Past
  <2> QED BY <2>1, <2>2
<1> USE DEF Revokes
<1>4. RequestsSound'
  <2> SUFFICES ASSUME NEW g \in Handlers, req'[g] = req[g] PROVE Sound(req[g])'
    BY DEF RequestsSound
  <2>1. Sound(req[g]) /\ req[g] \in Request
    BY DEF RequestsSound, TypeOK
  <2>2. req[g].op = "commit" => Live(req[g].id)'
    BY <1>1, <2>1 DEF Sound
  <2> QED BY <1>1, <2>1, <2>2 DEF Sound
<1>5. RotateApart'
  BY DEF RotateApart
<1> QED BY <1>1, <1>3, <1>4, <1>5

-----------------------------------------------------------------------------
LEMMA IssueSteps ==
    ASSUME SessInv, NEW h \in Handlers, CheckIssue(h) \/ CreateSession(h)
    PROVE  SessInv'
<1>1. CASE CheckIssue(h)
  <2> DEFINE q == [op |-> "issue"]
  <2>1. q \in Request /\ Sound(q) /\ q.op # "commit"
    BY DEF Request, Sound
  <2>2. faults' \in 0 .. MaxFaults
    BY <1>1 DEF CheckIssue, SessInv, SessionsInvariant, TypeOK
  <2> QED BY <1>1, <2>1, <2>2, OnlyRequest DEF CheckIssue, Set
<1>2. CASE CreateSession(h)
  <2> DEFINE i == CHOOSE j \in Fresh : TRUE
  <2>1. i \in Fresh
    BY <1>2 DEF CreateSession
  <2>2. sess' = Insert(i, i, None) /\ late' = IF active THEN late ELSE late \cup {i}
    BY <1>2 DEF CreateSession
  <2> HIDE DEF i
  <2>3. i \in Ids \ Rows /\ \A g \in Handlers : req[g].op = "commit" => req[g].new # i
    BY <2>1 DEF Fresh
  <2>4. RowAdded(i, i, None)
    BY <2>2, <2>3, RowInserted
  <2>5. \A g \in Handlers : req[g].op = "commit" => req[g].id # None
    BY SessionsAssumption, RequestKinds DEF SessInv, SessionsInvariant, TypeOK
  <2>6. Arrives(h, i, i, None)
    BY <1>2, <2>2, <2>3, <2>4, <2>5 DEF Arrives, CreateSession, Set
  <2> QED BY <2>6, NewSession
<1> QED BY <1>1, <1>2

LEMMA PresentTokenStep ==
    ASSUME SessInv, NEW h \in Handlers, NEW i \in Rows, PresentToken(h, i)
    PROVE  SessInv'
<1>1. i \in Ids /\ sess[i].family \in Ids /\ sess[i].family \in Rows
  BY DEF SessInv, SessionsInvariant, TypeOK, Row, Lineage
<1>2. faults' \in 0 .. MaxFaults
  BY DEF PresentToken, SessInv, SessionsInvariant, TypeOK
<1>3. CASE Live(i)
  <2> DEFINE q == [op |-> "rotate", id |-> i]
  <2>1. q \in Request /\ q.op # "commit"
    BY <1>1 DEF Request
  <2>2. Sound(q)
    BY <1>3 DEF Sound, PresentToken, SessInv, Past
  <2>3. req' = [req EXCEPT ![h] = q]
    BY <1>3 DEF PresentToken, Set
  <2> QED BY <1>2, <2>1, <2>2, <2>3, OnlyRequest DEF PresentToken
<1>4. CASE ~ Live(i)
  <2> DEFINE q == [op |-> "replay", id |-> None, family |-> sess[i].family]
  <2>1. q \in Request /\ q.op # "commit"
    BY <1>1 DEF Request
  <2>2. Sound(q)
    BY <1>1 DEF Sound
  <2>3. req' = [req EXCEPT ![h] = q]
    BY <1>4 DEF PresentToken, Set
  <2> QED BY <1>2, <2>1, <2>2, <2>3, OnlyRequest DEF PresentToken
<1> QED BY <1>3, <1>4

LEMMA RotateStep ==
    ASSUME SessInv, NEW h \in Handlers, Rotate(h)
    PROVE  SessInv'
<1> DEFINE i == req[h].id
           n == CHOOSE j \in Fresh : TRUE
<1>1. n \in Fresh
  BY DEF Rotate
<1>2. /\ Live(i) /\ ~ Locked(i)
      /\ IF sess[i].family \in expired
         THEN req' = [req EXCEPT ![h] = Idle] /\ UNCHANGED sess
         ELSE IF durable
         THEN req' = [req EXCEPT ![h] = [op |-> "commit", id |-> i, new |-> n]] /\ UNCHANGED sess
         ELSE req' = [req EXCEPT ![h] = Idle] /\ sess' = Rotated(Insert(n, sess[i].family, i), i)
      /\ UNCHANGED <<durable, active, expired, faults, dead, escaped, ended, late>>
  BY DEF Rotate, Rotatable, Set
<1>3. i \in Rows \ late /\ i \in Ids /\ sess[i].family \in Ids
  BY DEF Rotate, SessInv, SessionsInvariant, TypeOK, RequestsSound, Sound, Row
<1> HIDE DEF n, i
<1>4. n \in Ids \ Rows /\ \A g \in Handlers : req[g].op = "commit" => req[g].new # n
  BY <1>1 DEF Fresh
<1>5. faults' \in 0 .. MaxFaults
  BY <1>2 DEF SessInv, SessionsInvariant, TypeOK
<1>6. CASE UNCHANGED sess /\ req' = [req EXCEPT ![h] = Idle]
  <2>1. Idle \in Request /\ Sound(Idle) /\ Idle.op # "commit"
    BY DEF Idle, Request, Sound
  <2> QED BY <1>2, <1>5, <1>6, <2>1, OnlyRequest
<1>7. CASE UNCHANGED sess /\ durable /\ req' = [req EXCEPT ![h] = [op |-> "commit", id |-> i, new |-> n]]
  <2> DEFINE q == [op |-> "commit", id |-> i, new |-> n]
  <2>1. q \in Request /\ q.id = i /\ q.new = n
    BY <1>3, <1>4 DEF Request
  <2>2. Sound(q)
    BY <1>2, <1>3, <1>4, <1>7 DEF Sound
  <2>3. req' = [req EXCEPT ![h] = q]
    BY <1>7
  <2> HIDE DEF q
  <2> QED BY <1>1, <1>2, <1>5, <1>7, <2>1, <2>2, <2>3, OnlyRequest
<1>8. CASE /\ ~ durable /\ req' = [req EXCEPT ![h] = Idle]
           /\ sess' = Rotated(Insert(n, sess[i].family, i), i)
  <2>1. RowAdded(n, sess[i].family, i)
    BY <1>3, <1>4, <1>8, RowRotated
  <2>2. \A g \in Handlers : req[g].op # "commit"
    BY <1>8 DEF SessInv, RequestsSound, Sound
  <2>3. i # None
    BY <1>3, SessionsAssumption
  <2>4. Arrives(h, n, sess[i].family, i)
    BY <1>2, <1>3, <1>4, <1>8, <2>1, <2>2, <2>3 DEF Arrives
  <2> QED BY <2>4, NewSession
<1> QED BY <1>2, <1>6, <1>7, <1>8 DEF SessInv, SessionsInvariant, TypeOK

LEMMA CommitRotationStep ==
    ASSUME SessInv, NEW h \in Handlers, CommitRotation(h)
    PROVE  SessInv'
<1> DEFINE i == req[h].id
           n == req[h].new
<1>1. /\ req[h].op = "commit"
      /\ sess' = Rotated(Insert(n, sess[i].family, i), i)
      /\ req' = [req EXCEPT ![h] = Idle]
      /\ UNCHANGED <<durable, active, expired, faults, dead, escaped, ended, late>>
  BY DEF CommitRotation, Set
<1>2. i \in Rows \ late /\ Live(i) /\ n \in Ids \ Rows
  BY <1>1 DEF SessInv, RequestsSound, Sound
<1>3. \A g \in Handlers \ {h} : req[g].op = "commit" => req[g].new # n /\ req[g].id # i
  BY <1>1 DEF SessInv, RotateApart
<1> HIDE DEF i, n
<1>4. i \in Ids /\ sess[i].family \in Ids /\ i # None
  BY <1>2, SessionsAssumption DEF SessInv, SessionsInvariant, TypeOK, Row
<1>5. RowAdded(n, sess[i].family, i)
  BY <1>1, <1>2, RowRotated
<1>6. Arrives(h, n, sess[i].family, i)
  BY <1>1, <1>2, <1>3, <1>4, <1>5 DEF Arrives
<1> QED BY <1>6, NewSession

LEMMA FindSpentStep ==
    ASSUME SessInv, NEW h \in Handlers, FindSpent(h)
    PROVE  SessInv'
<1> DEFINE i == req[h].id
           q == [op |-> "replay", id |-> i, family |-> sess[i].family]
<1>1. ~ Live(i) /\ (req' = [req EXCEPT ![h] = q] \/ req' = [req EXCEPT ![h] = Idle])
  BY DEF FindSpent, Set
<1>2. i \in Rows
  BY DEF FindSpent, SessInv, RequestsSound, Sound
<1>3. i \in Ids /\ sess[i].family \in Rows /\ sess[i].family \in Ids
  BY <1>2 DEF SessInv, SessionsInvariant, TypeOK, Row, Lineage
<1>4. q \in Request /\ Sound(q) /\ q.op # "commit"
  BY <1>1, <1>2, <1>3 DEF Request, Sound
<1>5. Idle \in Request /\ Sound(Idle) /\ Idle.op # "commit"
  BY DEF Idle, Request, Sound
<1>6. /\ UNCHANGED <<durable, sess, active, expired, dead, escaped, ended, late>>
      /\ faults' \in 0 .. MaxFaults
  BY DEF FindSpent, SessInv, SessionsInvariant, TypeOK
<1> HIDE DEF q
<1> QED BY <1>1, <1>4, <1>5, <1>6, OnlyRequest

\* A statement takes its snapshot.
LEMMA SnapshotStep ==
    ASSUME SessInv, NEW h \in Handlers, NEW what \in {"family", "device", "account", "account2"},
           NEW f, NEW row, Snapshot(h, what, f, row),
           f = None \/ f \in Rows, ~ All(what) => f \in Rows,
           row = None \/ (row \in Rows /\ ~ Live(row)),
           what = "account2" => ~ active,
           UNCHANGED <<durable, sess, active, expired, faults, dead, escaped, ended, late>>
    PROVE  SessInv'
<1> DEFINE q == [op |-> "revoke", what |-> what, family |-> f,
                 rows |-> Targets(what, f), id |-> row]
<1>1. Rows \subseteq Ids /\ faults' \in 0 .. MaxFaults
  BY DEF SessInv, SessionsInvariant, TypeOK
<1>2. Targets(what, f) \subseteq Ids
  BY <1>1 DEF Targets, OfFamily
<1>3. q \in Request /\ q.op # "commit"
  BY <1>1, <1>2 DEF Request
<1>4. Sound(q)
  BY DEF Sound
<1>5. req' = [req EXCEPT ![h] = q]
  BY DEF Snapshot, Set
<1> HIDE DEF q
<1> QED BY <1>1, <1>3, <1>4, <1>5, OnlyRequest

LEMMA RevokeSteps ==
    ASSUME SessInv, NEW h \in Handlers,
           \/ RevokeFamily(h) \/ \E f \in Families : RevokeDevice(h, f)
           \/ RevokeAccount(h) \/ RevokeAccountSessions(h)
    PROVE  SessInv'
<1>1. CASE RevokeFamily(h)
  <2>1. /\ Snapshot(h, "family", req[h].family, req[h].id) /\ ~ All("family")
        /\ UNCHANGED <<durable, sess, active, expired, faults, dead, escaped, ended, late>>
    BY <1>1 DEF RevokeFamily, All
  <2>2. /\ req[h].family \in Rows
        /\ req[h].id = None \/ (req[h].id \in Rows /\ ~ Live(req[h].id))
    BY <1>1 DEF RevokeFamily, SessInv, RequestsSound, Sound
  <2> QED BY <2>1, <2>2, SnapshotStep
<1>2. ASSUME NEW f \in Families, RevokeDevice(h, f)
      PROVE  SessInv'
  <2>1. /\ Snapshot(h, "device", f, None) /\ ~ All("device")
        /\ UNCHANGED <<durable, sess, active, expired, faults, dead, escaped, ended, late>>
    BY <1>2 DEF RevokeDevice, All
  <2>2. f \in Rows
    BY DEF Families, SessInv, Lineage
  <2> QED BY <2>1, <2>2, SnapshotStep
<1>3. CASE RevokeAccount(h)
  <2>1. /\ Snapshot(h, "account", None, None) /\ All("account")
        /\ UNCHANGED <<durable, sess, active, expired, faults, dead, escaped, ended, late>>
    BY <1>3 DEF RevokeAccount, All
  <2> QED BY <2>1, SnapshotStep
<1>4. CASE RevokeAccountSessions(h)
  <2>1. /\ Snapshot(h, "account2", None, None) /\ All("account2")
        /\ UNCHANGED <<durable, sess, active, expired, faults, dead, escaped, ended, late>>
    BY <1>4 DEF RevokeAccountSessions, All
  <2>2. ~ active
    BY <1>4 DEF RevokeAccountSessions, SessInv, RequestsSound, Sound
  <2> QED BY <2>1, <2>2, SnapshotStep
<1> QED BY <1>1, <1>2, <1>3, <1>4

LEMMA ApplyStep ==
    ASSUME SessInv, NEW h \in Handlers, Apply(h)
    PROVE  SessInv'
<1> DEFINE q == req[h]
           seen == Seen(q)
           all == Targets(q.what, q.family)
           then == AfterRevoke(q.what)
<1>1. /\ q.op = "revoke" /\ \A i \in seen : Locked(i) => i = q.id
      /\ sess' = Revoked(seen, q.what = "family")
      /\ dead' = IF All(q.what) THEN dead ELSE dead \cup {q.family}
      /\ escaped' = IF q.what = "account" THEN escaped
                     ELSE escaped \cup {sess[i].family : i \in all \ seen}
      /\ active' = (active /\ q.what # "account")
      /\ ended' = (ended \/ (then = Idle /\ All(q.what)))
      /\ req' = [req EXCEPT ![h] = then]
      /\ UNCHANGED <<durable, expired, faults, late>>
  BY DEF Apply, Set
<1>2. /\ q \in Request /\ Sound(q) /\ all \subseteq Rows
      /\ q.what \in {"family", "device", "account", "account2"}
  <2>1. q \in Request /\ Sound(q)
    BY DEF SessInv, SessionsInvariant, TypeOK, RequestsSound
  <2> QED BY <1>1, <2>1, RequestKinds DEF Targets, OfFamily
<1>3. ~ durable => seen = all
  BY DEF Seen
<1>4. /\ then \in Request /\ then.op # "commit"
      /\ (then = Idle /\ All(q.what)) = (q.what = "account2")
  BY <1>2 DEF AfterRevoke, Request, Idle, All
<1>5. q.what = "account2" => ~ active
  BY <1>1, <1>2 DEF Sound
<1>6. \A g \in Handlers : req[g].op = "commit" => req[g].id \notin seen
  <2> SUFFICES ASSUME NEW g \in Handlers, req[g].op = "commit", req[g].id \in seen
               PROVE  FALSE
    OBVIOUS
  <2>1. req[g].id \in Rows /\ Live(req[g].id)
    BY DEF SessInv, RequestsSound, Sound
  <2>2. Locked(req[g].id)
    BY DEF Locked
  <2>3. req[g].id = q.id
    BY <1>1, <2>2
  <2>4. q.id # None
    BY <2>1, <2>3, SessionsAssumption DEF SessInv, SessionsInvariant, TypeOK
  <2> QED BY <1>1, <1>2, <2>1, <2>3, <2>4 DEF Sound
<1>8. /\ req' \in [Handlers -> Request] /\ req'[h] = then
      /\ \A g \in Handlers : g # h => req'[g] = req[g]
  BY <1>1, <1>4 DEF SessInv, SessionsInvariant, TypeOK
<1>9. Sound(req[h])' /\ req'[h].op # "commit"
  <2>1. CASE q.what = "account"
    <3>1. req'[h] = [op |-> "account2"] /\ ~ active'
      BY <1>1, <1>8, <2>1 DEF AfterRevoke
    <3> QED BY <3>1 DEF Sound
  <2>2. CASE q.what # "account"
    <3>1. req'[h] = [op |-> "idle"]
      BY <1>8, <2>2 DEF AfterRevoke, Idle
    <3> QED BY <3>1 DEF Sound
  <2> QED BY <2>1, <2>2
<1>10. dead' \subseteq Rows
  BY <1>1, <1>2 DEF SessInv, Past, Sound
<1>11. escaped' \subseteq Ids
  BY <1>1, <1>2 DEF SessInv, SessionsInvariant, TypeOK, Row
<1>12. /\ active' \in BOOLEAN /\ ended' \in BOOLEAN
       /\ active' => active
       /\ ended' => ~ active'
  BY <1>1, <1>4, <1>5 DEF SessInv, SessionsInvariant, TypeOK, Past
<1>13. /\ SessionsInvariant' /\ RequestsSound' /\ RotateApart' /\ Lineage' /\ Past'
       /\ Rows' = Rows
       /\ \A j \in Rows : /\ sess'[j].family = sess[j].family
                          /\ Live(j)' = (Live(j) /\ j \notin seen)
  <2>1. Revokes(seen, q.what = "family")
    BY <1>1, <1>6, <1>8, <1>9, <1>10, <1>11, <1>12 DEF Revokes
  <2> HIDE DEF seen, q
  <2> QED BY <2>1, Revocation
<1> HIDE DEF seen, q, all, then
<1>14. RevocationIsComplete'
  <2>1. escaped \subseteq escaped'
    BY <1>1
  <2>2. ASSUME NEW i \in Rows, sess[i].family \in dead' \ escaped', Live(i), i \notin seen
        PROVE  FALSE
    <3>1. sess[i].family \notin dead
      BY <2>1, <2>2 DEF SessInv, RevocationIsComplete
    <3>2. ~ All(q.what) /\ sess[i].family = q.family
      BY <1>1, <2>2, <3>1
    <3>3. i \in all
      BY <3>2 DEF all, Targets, OfFamily
    <3> QED BY <1>1, <2>2, <3>2, <3>3 DEF All
  <2>3. ASSUME NEW i \in Rows, ended', Live(i), i \notin seen
        PROVE  i \in late \/ sess[i].family \in escaped'
    <3>1. CASE ended
      BY <2>1, <2>3, <3>1 DEF SessInv, RevocationIsComplete
    <3>2. CASE q.what = "account2"
      <4>1. i \in all
        BY <3>2 DEF all, Targets, All
      <4> QED BY <1>1, <2>3, <3>2, <4>1
    <3> QED BY <1>1, <1>4, <2>3, <3>1, <3>2
  <2>4. ~ durable => escaped' = {}
    BY <1>1, <1>3 DEF SessInv, RevocationIsComplete
  <2> QED BY <1>1, <1>13, <2>2, <2>3, <2>4 DEF RevocationIsComplete
<1> QED BY <1>13, <1>14 DEF SessInv

LEMMA RevokeSessionStep ==
    ASSUME SessInv, NEW i \in Rows, RevokeSession(i)
    PROVE  SessInv'
<1>1. /\ ~ Locked(i) /\ sess' = Revoked({i}, FALSE)
      /\ UNCHANGED <<durable, active, expired, req, faults, dead, escaped, ended, late>>
  BY DEF RevokeSession
<1>2. \A g \in Handlers : req[g].op = "commit" => req[g].id \notin {i}
  BY <1>1 DEF Locked
<1>3. /\ SessionsInvariant' /\ RequestsSound' /\ RotateApart' /\ Lineage' /\ Past'
      /\ Rows' = Rows
      /\ \A j \in Rows : /\ sess'[j].family = sess[j].family
                         /\ Live(j)' = (Live(j) /\ j \notin {i})
  <2>1. Revokes({i}, FALSE)
    BY <1>1, <1>2 DEF Revokes, SessInv, SessionsInvariant, TypeOK, Past
  <2> QED BY <2>1, Revocation
<1>4. RevocationIsComplete'
  BY <1>1, <1>3 DEF SessInv, RevocationIsComplete
<1> QED BY <1>3, <1>4 DEF SessInv

LEMMA OtherSteps ==
    ASSUME SessInv, \/ \E f \in Families : Expire(f)
                    \/ \E h \in Handlers : Fail(h)
                    \/ UNCHANGED vars
    PROVE  SessInv'
<1>1. ASSUME NEW h \in Handlers, Fail(h) PROVE SessInv'
  <2>1. Idle \in Request /\ Sound(Idle) /\ Idle.op # "commit"
    BY DEF Idle, Request, Sound
  <2>2. faults' \in 0 .. MaxFaults
    BY <1>1, SessionsAssumption DEF Fail, SessInv, SessionsInvariant, TypeOK
  <2> QED BY <1>1, <2>1, <2>2, OnlyRequest DEF Fail, Set
<1>2. ASSUME NEW f \in Families, Expire(f) PROVE SessInv'
  <2>1. /\ UNCHANGED <<durable, sess, active, req, faults, dead, escaped, ended, late>>
        /\ expired' \subseteq Ids
    BY <1>2 DEF Expire, Families, SessInv, SessionsInvariant, TypeOK, Row
  <2> QED BY <2>1 DEF SessInv, SessionsInvariant, TypeOK, OneHeir, RevocationIsComplete,
                      RequestsSound, Sound, RotateApart, Lineage, Past, Rows, Live
<1>3. CASE UNCHANGED vars
  BY <1>3 DEF vars, SessInv, SessionsInvariant, TypeOK, OneHeir, RevocationIsComplete,
              RequestsSound, Sound, RotateApart, Lineage, Past, Rows, Live
<1> QED BY <1>1, <1>2, <1>3

LEMMA SessionsStep == SessInv /\ [Next]_vars => SessInv'
<1> SUFFICES ASSUME SessInv, [Next]_vars PROVE SessInv'
  OBVIOUS
<1>1. ASSUME NEW h \in Handlers,
             \/ CheckIssue(h) \/ CreateSession(h)
             \/ \E i \in Rows : PresentToken(h, i)
             \/ Rotate(h) \/ CommitRotation(h) \/ FindSpent(h)
             \/ RevokeFamily(h) \/ \E f \in Families : RevokeDevice(h, f)
             \/ RevokeAccount(h) \/ RevokeAccountSessions(h) \/ Apply(h) \/ Fail(h)
      PROVE  SessInv'
  BY <1>1, IssueSteps, PresentTokenStep, RotateStep, CommitRotationStep, FindSpentStep,
     RevokeSteps, ApplyStep, OtherSteps
<1> QED BY <1>1, RevokeSessionStep, OtherSteps DEF Next

-----------------------------------------------------------------------------
\* A refresh token is replaced at most once and a family has at most one live
\* session, however rotations, replays and revocations interleave
\* (RotateRefresh's FOR UPDATE and its second look at the row).
THEOREM OneHeirOfAToken == Spec => []SessionsInvariant
<1>1. SessInv => SessionsInvariant
  BY DEF SessInv
<1> QED BY InitSessions, SessionsStep, <1>1, PTL DEF Spec

\* A completed revocation of a family, a device or the account leaves no live
\* session, but for those that came while its statement ran.
THEOREM RevokedStaysRevoked == Spec => []RevocationIsComplete
<1>1. SessInv => RevocationIsComplete
  BY DEF SessInv
<1> QED BY InitSessions, SessionsStep, <1>1, PTL DEF Spec

-----------------------------------------------------------------------------
(* Documents (settings and plans)                                          *)

Document == [version : 0..MaxVersion, fields : [Editors -> Int]]

Stores == {"settings", "preferences", "preferences table"}

\* A client's whole document differs from the base it read in its own field.
Edited(c, e) ==
    e.fields = IF e.reset THEN Blank ELSE [e.base.fields EXCEPT ![c] = e.base.version]

\* A request that is to be checked or stored.
EditRequest(c, e) ==
    /\ e = [at |-> e.at, base |-> e.base, fields |-> e.fields, reset |-> e.reset]
    /\ e.base \in Document /\ e.fields \in [Editors -> Int] /\ e.reset \in BOOLEAN
    /\ e.base.version < MaxVersion
    /\ Edited(c, e)

\* What is known of a request at each of its steps.
AtWork(c, e) == /\ e.at \in {"idle", "insert", "check", "swap"}
                /\ e.at \in {"check", "swap"} => EditRequest(c, e)

DocInv ==
    /\ store \in Stores
    /\ doc \in Document /\ kept = doc.fields
    /\ copy \in [Editors -> Document]
    /\ DOMAIN edit = Editors
    /\ \A c \in Editors : AtWork(c, edit[c])

LEMMA BlankDocuments ==
    /\ Blank \in [Editors -> Int] /\ NoDoc \in Document /\ FirstDoc \in Document
    /\ NoDoc.fields = Blank /\ FirstDoc.fields = Blank
    /\ NoEdit.at = "idle" /\ \A c \in Editors : AtWork(c, NoEdit)
BY DocAssumption DEF Blank, NoDoc, FirstDoc, Document, NoEdit, AtWork

\* What the server reads is the stored document, or one with the same fields.
LEMMA NowKeepsFields ==
    ASSUME NEW d \in Document
    PROVE  Now(d) \in Document /\ Now(d).fields = d.fields
BY BlankDocuments DEF Now

\* A request that ends or begins to read leaves the others as they are.
LEMMA OtherRequests ==
    ASSUME DocInv, NEW c \in Editors, NEW e, edit' = [edit EXCEPT ![c] = e],
           AtWork(c, e)
    PROVE  /\ DOMAIN edit' = Editors
           /\ \A b \in Editors : AtWork(b, edit'[b])
BY DEF DocInv

\* A request that is refused takes the stored document to its client.
LEMMA ConflictKeeps ==
    ASSUME DocInv, NEW c \in Editors, Conflict(c)
    PROVE  DocInv'
<1>1. /\ DOMAIN edit' = Editors
      /\ \A b \in Editors : AtWork(b, edit'[b])
  BY OtherRequests, BlankDocuments DEF Conflict
<1>2. doc' \in Document /\ kept' = doc'.fields /\ copy' \in [Editors -> Document]
  BY NowKeepsFields DEF DocInv, Conflict
<1> QED BY <1>1, <1>2 DEF DocInv, Conflict

\* The heart: over a document equal to its base, an edit changes its own field.
LEMMA SwapKeeps ==
    ASSUME DocInv, NEW c \in Editors, edit[c].at \in {"check", "swap"},
           Matches(c, Now(doc)), Swap(c)
    PROVE  DocInv'
<1> DEFINE e == edit[c]
<1>1. EditRequest(c, e) /\ doc \in Document /\ kept = doc.fields
  BY DEF DocInv, AtWork
<1>2. e.base.fields = kept
  BY <1>1, NowKeepsFields DEF Matches, ETag
<1>3. doc' \in Document /\ doc'.fields = e.fields
  BY <1>1, DocAssumption DEF Swap, EditRequest, Document
<1>4. kept' = e.fields
  <2>1. CASE e.reset
    BY <1>1, <2>1 DEF Swap, EditRequest, Edited
  <2>2. CASE ~e.reset
    <3>1. e.fields = [kept EXCEPT ![c] = e.base.version]
      BY <1>1, <1>2, <2>2 DEF EditRequest, Edited
    <3>2. kept \in [Editors -> Int]
      BY <1>1 DEF Document
    <3>3. kept' = [kept EXCEPT ![c] = e.fields[c]]
      BY <2>2 DEF Swap
    <3> QED BY <3>1, <3>2, <3>3
  <2> QED BY <2>1, <2>2
<1>5. copy' \in [Editors -> Document]
  BY <1>3 DEF Swap, DocInv
<1>6. /\ DOMAIN edit' = Editors
      /\ \A b \in Editors : AtWork(b, edit'[b])
  BY OtherRequests, BlankDocuments DEF Swap
<1> QED BY <1>3, <1>4, <1>5, <1>6 DEF DocInv, Swap

LEMMA InitDoc == DocInit => DocInv
BY BlankDocuments DEF DocInit, DocInv, Stores

LEMMA StepDoc == DocInv /\ [DocNext]_docVars => DocInv'
<1> SUFFICES ASSUME DocInv, [DocNext]_docVars
             PROVE  DocInv'
  OBVIOUS
<1> USE DEF DocInv
<1>1. ASSUME NEW c \in Editors, GetDoc(c)
      PROVE  DocInv'
  <2>1. CASE store = "preferences table" /\ doc = NoDoc
    <3>1. edit' = [edit EXCEPT ![c] = [at |-> "insert"]] /\ UNCHANGED <<doc, copy, kept>>
      BY <1>1, <2>1 DEF GetDoc
    <3> QED BY <1>1, <3>1, OtherRequests DEF GetDoc, AtWork
  <2>2. CASE ~(store = "preferences table" /\ doc = NoDoc)
    BY <1>1, <2>2, NowKeepsFields DEF GetDoc
  <2> QED BY <2>1, <2>2
<1>2. ASSUME NEW c \in Editors, InsertFirst(c)
      PROVE  DocInv'
  <2>1. /\ DOMAIN edit' = Editors
        /\ \A b \in Editors : AtWork(b, edit'[b])
    BY <1>2, OtherRequests, BlankDocuments DEF InsertFirst
  <2> QED BY <1>2, <2>1, NowKeepsFields DEF InsertFirst
<1>3. ASSUME NEW c \in Editors, PutDoc(c)
      PROVE  DocInv'
  <2>1. PICK reset \in BOOLEAN :
           edit' = [edit EXCEPT ![c] =
                      [at |-> "check", base |-> copy[c], reset |-> reset,
                       fields |-> IF reset THEN Blank
                                  ELSE [copy[c].fields EXCEPT ![c] = copy[c].version]]]
    BY <1>3 DEF PutDoc
  <2> DEFINE e == [at |-> "check", base |-> copy[c], reset |-> reset,
                   fields |-> IF reset THEN Blank
                              ELSE [copy[c].fields EXCEPT ![c] = copy[c].version]]
  <2>2. copy[c] \in Document
    OBVIOUS
  <2>6. copy[c].version < MaxVersion
    BY <1>3, DocAssumption DEF PutDoc
  <2>3. EditRequest(c, e) /\ e.at = "check"
    BY <2>2, <2>6, BlankDocuments, DocAssumption DEF EditRequest, Edited, Document
  <2>4. edit' = [edit EXCEPT ![c] = e]
    BY <2>1
  <2>5. UNCHANGED <<store, doc, copy, kept>>
    BY <1>3 DEF PutDoc
  <2> HIDE DEF e
  <2> QED BY <2>3, <2>4, <2>5, OtherRequests DEF AtWork
<1>4. ASSUME NEW c \in Editors, Check(c)
      PROVE  DocInv'
  <2>1. CASE ~Matches(c, Now(doc)) /\ Conflict(c)
    BY <2>1, ConflictKeeps
  <2>2. CASE Matches(c, Now(doc)) /\ store = "preferences" /\ Swap(c)
    BY <1>4, <2>2, SwapKeeps DEF Check
  <2>3. CASE edit' = [edit EXCEPT ![c].at = "swap"] /\ UNCHANGED <<store, doc, copy, kept>>
    <3>1. EditRequest(c, edit[c])
      BY <1>4 DEF Check, AtWork
    <3>2. AtWork(c, [edit[c] EXCEPT !.at = "swap"])
      BY <3>1 DEF EditRequest, Edited, AtWork
    <3>3. edit' = [edit EXCEPT ![c] = [edit[c] EXCEPT !.at = "swap"]]
      BY <2>3
    <3> QED BY <2>3, <3>2, <3>3, OtherRequests
  <2> QED BY <1>4, <2>1, <2>2, <2>3 DEF Check
<1>5. ASSUME NEW c \in Editors, CompareAndSwap(c)
      PROVE  DocInv'
  BY <1>5, SwapKeeps, ConflictKeeps DEF CompareAndSwap, Unchanged
<1>6. ASSUME NEW c \in Editors, DocFails(c)
      PROVE  DocInv'
  BY <1>6, OtherRequests, BlankDocuments DEF DocFails
<1>7. CASE RestartServer
  BY <1>7, BlankDocuments DEF RestartServer
<1>8. CASE UNCHANGED docVars
  BY <1>8 DEF docVars
<1> QED BY <1>1, <1>2, <1>3, <1>4, <1>5, <1>6, <1>7, <1>8 DEF DocNext

\* No accepted edit is lost: every field of the stored document is what the last
\* accepted edit of it left there, although each client puts back all of it
\* (settings.Service.Update, notifications UpdatePreferences).
THEOREM EditsAreKept == DocSpec => []DocInvariant
<1>1. DocInv => DocInvariant
  <2>1. DocInv => DocTypeOK
    BY DEF DocInv, Stores, Document, AtWork, DocTypeOK
  <2> QED BY <2>1 DEF DocInv, DocInvariant, NoLostUpdate
<1> QED BY <1>1, InitDoc, StepDoc, PTL DEF DocSpec

-----------------------------------------------------------------------------
(* Push tokens                                                             *)

Token == [device : Mobiles, token : RawTokens, revoked : BOOLEAN]

\* A dispatch under way is of a token its device held when it was asked for.
Sending(d) ==
    /\ d = [at |-> d.at, by |-> d.by, to |-> d.to, attempt |-> d.attempt]
    /\ d.to.device = d.by /\ ~d.to.revoked

\* In the table a device has one row of a token.
OneRow == inTable => \A i, j \in DOMAIN tokens :
                        tokens[i].device = tokens[j].device /\ tokens[i].token = tokens[j].token
                            => i = j

PushInv ==
    /\ dispatch.at \in {"idle", "send", "resend"}
    /\ DOMAIN tokens \subseteq TokenIds
    /\ \A i \in DOMAIN tokens : tokens[i] \in Token
    /\ dispatch.at \in {"send", "resend"} => Sending(dispatch)
    /\ \A p \in pushes : p.to.device = p.by /\ ~p.to.revoked
    /\ OneRow

Flags == inTable \in BOOLEAN /\ configured \in BOOLEAN

LEMMA FlagsStay == Flags /\ [PushNext]_pushVars => Flags'
<1> SUFFICES ASSUME Flags, [PushNext]_pushVars
             PROVE  Flags'
  OBVIOUS
<1>1. inTable' = inTable
  BY DEF PushNext, pushVars, Register, RevokeToken, StartDispatch, Configure, SendOnce, Backoff,
         RestartPush
<1>2. configured' = configured \/ configured' = ~configured \/ configured' = FALSE
  BY DEF PushNext, pushVars, Register, RevokeToken, StartDispatch, Configure, SendOnce, Backoff,
         RestartPush
<1> QED BY <1>1, <1>2, Zenon DEF Flags

LEMMA InitPush == PushInit => PushInv
BY DEF PushInit, PushInv, NoDispatch, OneRow

LEMMA StepPush == PushInv /\ [PushNext]_pushVars => PushInv'
<1> SUFFICES ASSUME PushInv, [PushNext]_pushVars
             PROVE  PushInv'
  OBVIOUS
<1> USE DEF PushInv
<1>1. ASSUME NEW d \in Mobiles, NEW t \in RawTokens, Register(d, t)
      PROVE  PushInv'
  <2> DEFINE mine == {i \in DOMAIN tokens : tokens[i].device = d /\ tokens[i].token = t}
             record == [device |-> d, token |-> t, revoked |-> FALSE]
  <2>1. UNCHANGED <<inTable, configured, dispatch, pushes>>
    BY <1>1 DEF Register
  <2>2. PICK i \in TokenIds : Write(i, record) /\ (inTable => i \in mine \/ (mine = {} /\ i \notin DOMAIN tokens))
    <3>1. CASE \E i \in mine : Write(i, record)
      <4>1. PICK i \in mine : Write(i, record)
        BY <3>1
      <4> QED BY <4>1
    <3>2. CASE /\ mine = {}
               /\ \E i \in IF inTable THEN (1..MaxIds) \ DOMAIN tokens ELSE {t} : Write(i, record)
      <4>1. PICK i \in IF inTable THEN (1..MaxIds) \ DOMAIN tokens ELSE {t} : Write(i, record)
        BY <3>2
      <4>2. i \in TokenIds /\ (inTable => i \notin DOMAIN tokens)
        BY <4>1 DEF TokenIds
      <4> QED BY <3>2, <4>1, <4>2
    <3> QED BY <1>1, <3>1, <3>2 DEF Register
  <2>3. /\ DOMAIN tokens' = DOMAIN tokens \cup {i} /\ tokens'[i] = record
        /\ \A j \in DOMAIN tokens : j # i => tokens'[j] = tokens[j]
    BY <2>2 DEF Write
  <2>4. \A j \in DOMAIN tokens' : tokens'[j] \in Token
    <3>1. record \in Token
      BY DEF Token
    <3> QED BY <2>3, <3>1
  <2>5. OneRow'
    <3> SUFFICES ASSUME inTable, NEW j \in DOMAIN tokens', NEW k \in DOMAIN tokens',
                        tokens'[j].device = tokens'[k].device,
                        tokens'[j].token = tokens'[k].token
                 PROVE  j = k
      BY <2>1 DEF OneRow
    <3>1. ASSUME NEW l \in DOMAIN tokens, l # i, tokens[l].device = d, tokens[l].token = t
          PROVE  FALSE
      <4>1. l \in mine /\ i \in mine
        BY <3>1, <2>2
      <4> QED BY <3>1, <4>1 DEF OneRow
    <3>2. record.device = d /\ record.token = t
      OBVIOUS
    <3> HIDE DEF mine, record
    <3>3. CASE j = i
      BY <2>3, <3>1, <3>2, <3>3
    <3>4. CASE k = i
      BY <2>3, <3>1, <3>2, <3>4
    <3>5. CASE j # i /\ k # i
      BY <2>3, <3>5 DEF OneRow
    <3> QED BY <3>3, <3>4, <3>5
  <2>6. DOMAIN tokens' \subseteq TokenIds
    BY <2>3
  <2> QED BY <2>1, <2>4, <2>5, <2>6
<1>2. ASSUME NEW d \in Mobiles, NEW i \in TokenIds, RevokeToken(d, i)
      PROVE  PushInv'
  <2>1. i \in DOMAIN tokens /\ tokens[i] \in Token
    BY <1>2 DEF RevokeToken, Owned
  <2>2. /\ DOMAIN tokens' = DOMAIN tokens
        /\ tokens'[i] = [tokens[i] EXCEPT !.revoked = TRUE]
        /\ \A j \in DOMAIN tokens : j # i => tokens'[j] = tokens[j]
    BY <1>2, <2>1 DEF RevokeToken
  <2>3. /\ tokens'[i] \in Token
        /\ tokens'[i].device = tokens[i].device /\ tokens'[i].token = tokens[i].token
    BY <2>1, <2>2 DEF Token
  <2>4. \A j \in DOMAIN tokens' : /\ tokens'[j] \in Token
                                  /\ tokens'[j].device = tokens[j].device
                                  /\ tokens'[j].token = tokens[j].token
    BY <2>2, <2>3
  <2>5. OneRow'
    BY <1>2, <2>2, <2>4 DEF RevokeToken, OneRow
  <2> QED BY <1>2, <2>4, <2>5 DEF RevokeToken
<1>3. ASSUME NEW d \in Mobiles, NEW i \in TokenIds, StartDispatch(d, i)
      PROVE  PushInv'
  <2>1. tokens[i].device = d /\ ~tokens[i].revoked
    BY <1>3 DEF StartDispatch, Sendable, Owned
  <2>2. dispatch' = [at |-> "send", by |-> d, to |-> tokens[i], attempt |-> 1]
    BY <1>3 DEF StartDispatch
  <2>3. Sending(dispatch')
    BY <2>1, <2>2 DEF Sending
  <2> QED BY <1>3, <2>3 DEF StartDispatch, OneRow
<1>4. CASE SendOnce
  <2>1. Sending(dispatch)
    BY <1>4 DEF SendOnce
  <2>2. \/ dispatch' = NoDispatch
        \/ dispatch' = [dispatch EXCEPT !.at = "resend"]
    BY <1>4 DEF SendOnce
  <2>3. /\ dispatch'.at \in {"idle", "send", "resend"}
        /\ dispatch'.at \in {"send", "resend"} => Sending(dispatch')
    BY <2>1, <2>2 DEF NoDispatch, Sending
  <2>4. \A p \in pushes' : p \in pushes \/ p = [by |-> dispatch.by, to |-> dispatch.to]
    BY <1>4 DEF SendOnce
  <2>5. \A p \in pushes' : p.to.device = p.by /\ ~p.to.revoked
    BY <2>1, <2>4 DEF Sending
  <2> QED BY <1>4, <2>3, <2>5 DEF SendOnce, OneRow
<1>5. CASE Backoff
  <2>1. /\ dispatch'.at \in {"idle", "send", "resend"}
        /\ dispatch'.at \in {"send", "resend"} => Sending(dispatch')
    <3>1. Sending(dispatch)
      BY <1>5 DEF Backoff
    <3>2. CASE dispatch' = NoDispatch
      BY <3>2 DEF NoDispatch
    <3>3. CASE dispatch' = [dispatch EXCEPT !.at = "send", !.attempt = @ + 1]
      <4>1. dispatch' = [at |-> "send", by |-> dispatch.by, to |-> dispatch.to,
                         attempt |-> dispatch.attempt + 1]
        BY <3>1, <3>3 DEF Sending
      <4> QED BY <3>1, <4>1 DEF Sending
    <3> QED BY <1>5, <3>2, <3>3 DEF Backoff
  <2> QED BY <1>5, <2>1 DEF Backoff, OneRow
<1>6. CASE Configure
  BY <1>6 DEF Configure, OneRow
<1>7. CASE RestartPush
  BY <1>7 DEF RestartPush, NoDispatch, OneRow
<1>8. CASE UNCHANGED pushVars
  BY <1>8 DEF pushVars, OneRow
<1> QED BY <1>1, <1>2, <1>3, <1>4, <1>5, <1>6, <1>7, <1>8 DEF PushNext

\* FCM is only handed pushes for tokens their device had registered and not
\* revoked, whatever registrations and revocations overlap the attempts
\* (notifications.Service.Dispatch and RegisterToken).
THEOREM PushesAreSound == PushSpec => []PushInvariant
<1>1. PushInit => Flags
  BY Zenon DEF PushInit, Flags
<1>2. PushInv /\ Flags => PushInvariant
  <2>1. PushInv => PushesReachTheirDevice
    BY DEF PushInv, OneRow, PushesReachTheirDevice
  <2>2. ASSUME PushInv
        PROVE  /\ DOMAIN tokens \subseteq TokenIds /\ dispatch.at \in {"idle", "send", "resend"}
               /\ \A i \in DOMAIN tokens :
                     tokens[i] \in [device : Mobiles, token : RawTokens, revoked : BOOLEAN]
    BY <2>2 DEF PushInv, Token
  <2> QED BY <2>1, <2>2, Zenon DEF PushInvariant, PushTypeOK, Flags
<1> QED BY <1>1, <1>2, InitPush, StepPush, FlagsStay, PTL DEF PushSpec

-----------------------------------------------------------------------------
(* Migrations and imports                                                  *)

\* A process that migrates or has migrated is of a release; a dry run ends
\* without one.
ReplicaTyped(p) ==
    /\ p.at \in {"down", "begin", "locked", "run", "up"}
    /\ p.at \in {"begin", "locked", "run"} => p.release \in Releases
    /\ p.at = "run" =>
         /\ p = [at |-> "run", release |-> p.release, done |-> p.done, pending |-> p.pending]
         /\ p.done \in Seq(Migrations)

\* What is planned and what has been run are the release's migrations that the
\* schema does not have, those run in numeric order and before the others.
PlanHolds(p) ==
    p.at = "run" =>
        /\ \A i \in DOMAIN schema : schema[i] \in p.release
        /\ \A m \in p.pending : m \in p.release /\ m.version \notin Applied
        /\ \A i \in DOMAIN p.done : /\ p.done[i] \in p.release
                                    /\ p.done[i].version \notin Applied
                                    /\ \A m \in p.pending : p.done[i].version < m.version
        /\ \A i, j \in DOMAIN p.done : i < j => p.done[i].version < p.done[j].version
        /\ \A m \in p.release : \/ m.version \in Applied \/ m \in p.pending
                                \/ \E i \in DOMAIN p.done : p.done[i] = m

\* Who runs has all of its release's migrations.
HasRun(p) == p.at = "up" => \A m \in p.release : \E i \in DOMAIN schema : schema[i] = m

\* A migration in the schema was run with all the others of some release.
SchemaOfReleases ==
    \A i \in DOMAIN schema : \E R \in Releases :
        schema[i] \in R /\ \A m \in R : \E j \in DOMAIN schema : schema[j] = m

InOrder(s, i, j) ==
    /\ s[i].version # s[j].version
    /\ s[i].version < s[j].version \/ \E R \in Releases : s[i] \in R /\ s[j] \notin R

LockOk == /\ lock \in Replicas \cup {"free"}
          /\ \A r \in Replicas : replica[r].at \in {"locked", "run"} <=> lock = r

MigrationInv ==
    /\ schema \in Seq(Migrations)
    /\ DOMAIN replica = Replicas
    /\ LockOk
    /\ \A r \in Replicas :
          ReplicaTyped(replica[r]) /\ PlanHolds(replica[r]) /\ HasRun(replica[r])
    /\ SchemaOfReleases
    /\ \A i, j \in DOMAIN schema : i < j => InOrder(schema, i, j)

LEMMA MigrationInvIsEnough == MigrationInv => MigrationsRunOnce
BY DEF MigrationInv, MigrationsRunOnce, InOrder, HasRun, Range

\* A process moves on and the schema is as it was.
LEMMA ReplicaMoves ==
    ASSUME MigrationInv, NEW r \in Replicas, NEW p, Becomes(r, p), schema' = schema,
           ReplicaTyped(p), PlanHolds(p), HasRun(p), LockOk'
    PROVE  MigrationInv'
<1>1. DOMAIN replica' = Replicas
  BY DEF MigrationInv, Becomes
<1>2. \A q \in Replicas : replica'[q] = IF q = r THEN p ELSE replica[q]
  BY DEF MigrationInv, Becomes
<1>3. ASSUME NEW q \in Replicas
      PROVE  (ReplicaTyped(replica[q]) /\ PlanHolds(replica[q]) /\ HasRun(replica[q]))'
  <2>1. ReplicaTyped(replica'[q]) /\ PlanHolds(replica'[q]) /\ HasRun(replica'[q])
    BY <1>2 DEF MigrationInv
  <2> QED BY <2>1 DEF ReplicaTyped, PlanHolds, HasRun, Applied
<1>4. SchemaOfReleases' /\ \A i, j \in DOMAIN schema' : i < j => InOrder(schema', i, j)
  BY DEF MigrationInv, SchemaOfReleases, InOrder
<1> QED BY <1>1, <1>3, <1>4 DEF MigrationInv

\* The schema after the commit of what r has run.
LEMMA CommitKeeps ==
    ASSUME MigrationInv, NEW r \in Replicas, CommitMigrations(r)
    PROVE  MigrationInv'
<1> USE SetupAssumption
<1> DEFINE p == replica[r]
           n == Len(schema)
           R == p.release
<1>0. /\ p.at = "run" /\ p.pending = {} /\ ReplicaTyped(p) /\ PlanHolds(p)
      /\ schema \in Seq(Migrations) /\ p.done \in Seq(Migrations) /\ R \in Releases
      /\ schema' = schema \o p.done
      /\ Becomes(r, [at |-> "up", release |-> R]) /\ lock' = Released(r)
  BY DEF CommitMigrations, MigrationInv, ReplicaTyped
<1>1. /\ n \in Nat /\ DOMAIN schema = 1..n
      /\ Len(p.done) \in Nat /\ DOMAIN p.done = 1..Len(p.done)
      /\ schema' \in Seq(Migrations) /\ DOMAIN schema' = 1..(n + Len(p.done))
      /\ \A i \in 1..n : schema'[i] = schema[i]
      /\ \A i \in 1..Len(p.done) : schema'[n + i] = p.done[i]
  <2>1. schema' \in Seq(Migrations) /\ Len(schema') = n + Len(p.done)
    BY <1>0, ConcatProperties
  <2>2. \A i \in 1..(n + Len(p.done)) :
           schema'[i] = IF i <= n THEN schema[i] ELSE p.done[i - n]
    BY <1>0, ConcatProperties
  <2>3. n \in Nat /\ DOMAIN schema = 1..n /\ Len(p.done) \in Nat
        /\ DOMAIN p.done = 1..Len(p.done)
    BY <1>0, LenProperties
  <2>4. DOMAIN schema' = 1..(n + Len(p.done))
    BY <2>1, LenProperties
  <2> HIDE DEF p, n
  <2>5. \A i \in 1..n : schema'[i] = schema[i]
    BY <2>2, <2>3
  <2>6. \A i \in 1..Len(p.done) : schema'[n + i] = p.done[i]
    BY <2>2, <2>3
  <2> QED BY <2>1, <2>3, <2>4, <2>5, <2>6
<1>2. /\ \A i \in DOMAIN schema : i \in DOMAIN schema' /\ schema'[i] = schema[i]
      /\ \A i \in DOMAIN p.done : n + i \in DOMAIN schema' /\ schema'[n + i] = p.done[i]
      /\ \A i \in DOMAIN schema' : \/ i \in DOMAIN schema
                                   \/ \E k \in DOMAIN p.done : i = n + k
  <2> HIDE DEF p, n
  <2>1. \A i \in 1..(n + Len(p.done)) : i \notin 1..n => i - n \in 1..Len(p.done) /\ i = n + (i - n)
    BY <1>1
  <2> QED BY <1>1, <2>1
<1> HIDE DEF n
\* Every migration of the release is in the schema now.
<1>3. ASSUME NEW m \in R PROVE \E i \in DOMAIN schema' : schema'[i] = m
  <2>1. CASE m.version \in Applied
    <3>1. PICK i \in DOMAIN schema : schema[i].version = m.version
      BY <2>1 DEF Applied
    <3>2. schema[i] = m
      BY <1>0, <3>1 DEF PlanHolds
    <3> QED BY <1>2, <3>2
  <2>2. ASSUME NEW i \in DOMAIN p.done, p.done[i] = m
        PROVE  \E k \in DOMAIN schema' : schema'[k] = m
    BY <1>2, <2>2
  <2> QED BY <1>0, <2>1, <2>2 DEF PlanHolds
<1>4. ASSUME NEW m, \E i \in DOMAIN schema : schema[i] = m
      PROVE  \E i \in DOMAIN schema' : schema'[i] = m
  BY <1>2, <1>4
<1>5. SchemaOfReleases'
  <2> SUFFICES ASSUME NEW i \in DOMAIN schema'
               PROVE  \E S \in Releases : /\ schema'[i] \in S
                         /\ \A m \in S : \E j \in DOMAIN schema' : schema'[j] = m
    BY DEF SchemaOfReleases
  <2>1. CASE i \in DOMAIN schema
    <3>1. PICK S \in Releases : schema[i] \in S /\ \A m \in S : \E j \in DOMAIN schema : schema[j] = m
      BY <2>1 DEF MigrationInv, SchemaOfReleases
    <3> QED BY <1>2, <1>4, <2>1, <3>1
  <2>2. CASE \E k \in DOMAIN p.done : i = n + k
    <3>1. PICK k \in DOMAIN p.done : i = n + k
      BY <2>2
    <3>2. schema'[i] \in R /\ R \in Releases
      BY <1>0, <1>2, <3>1 DEF PlanHolds
    <3> QED BY <1>3, <3>2
  <2> QED BY <1>2, <2>1, <2>2
<1>6. ASSUME NEW i \in DOMAIN schema', NEW j \in DOMAIN schema', i < j
      PROVE  InOrder(schema', i, j)
  <2>1. CASE i \in DOMAIN schema /\ j \in DOMAIN schema
    <3>1. InOrder(schema, i, j)
      BY <1>6, <2>1 DEF MigrationInv
    <3> QED BY <1>2, <2>1, <3>1 DEF InOrder
  <2>2. ASSUME i \in DOMAIN schema, NEW k \in DOMAIN p.done, j = n + k
        PROVE  InOrder(schema', i, j)
    <3>1. schema'[i] = schema[i] /\ schema'[j] = p.done[k] /\ p.done[k].version \notin Applied
      BY <1>0, <1>2, <2>2 DEF PlanHolds
    <3>2. schema[i].version # p.done[k].version
      BY <2>2, <3>1 DEF Applied
    <3>3. PICK S \in Releases : schema[i] \in S /\ \A m \in S : \E l \in DOMAIN schema : schema[l] = m
      BY <2>2 DEF MigrationInv, SchemaOfReleases
    <3>4. p.done[k] \notin S
      BY <3>1, <3>3 DEF Applied
    <3> QED BY <3>1, <3>2, <3>3, <3>4 DEF InOrder
  <2>3. ASSUME NEW k \in DOMAIN p.done, i = n + k, NEW l \in DOMAIN p.done, j = n + l
        PROVE  InOrder(schema', i, j)
    <3>1. k < l
      BY <1>1, <1>6, <2>3
    <3>2. p.done[k].version < p.done[l].version /\ p.done[k] \in R /\ p.done[l] \in R
      BY <1>0, <2>3, <3>1 DEF PlanHolds
    <3>3. p.done[k].version \in Int /\ p.done[l].version \in Int
      BY <1>0, <3>2
    <3> QED BY <1>2, <2>3, <3>2, <3>3 DEF InOrder
  <2>4. ASSUME NEW k \in DOMAIN p.done, i = n + k, j \in DOMAIN schema
        PROVE  FALSE
    <3> HIDE DEF p
    <3> QED BY <1>1, <1>6, <2>4
  <2> QED BY <1>2, <2>1, <2>2, <2>3, <2>4
<1>7. /\ DOMAIN replica' = Replicas
      /\ \A q \in Replicas : replica'[q] = IF q = r THEN [at |-> "up", release |-> R] ELSE replica[q]
  BY <1>0 DEF MigrationInv, Becomes
<1>8. lock = r /\ lock' = "free"
  BY <1>0 DEF MigrationInv, LockOk, Released
<1>9. \A q \in Replicas \ {r} : replica[q].at \notin {"locked", "run"} /\ replica'[q] = replica[q]
  BY <1>7, <1>8 DEF MigrationInv, LockOk
<1>10. LockOk'
  BY <1>7, <1>8, <1>9 DEF LockOk
<1>11. ASSUME NEW q \in Replicas
       PROVE  (ReplicaTyped(replica[q]) /\ PlanHolds(replica[q]) /\ HasRun(replica[q]))'
  <2>1. CASE q = r
    BY <1>3, <1>7, <2>1 DEF ReplicaTyped, PlanHolds, HasRun
  <2>2. CASE q # r
    <3>1. replica'[q] = replica[q] /\ replica[q].at # "run"
      BY <1>9, <2>2
    <3>2. ReplicaTyped(replica[q]) /\ HasRun(replica[q])
      BY DEF MigrationInv
    <3> QED BY <1>4, <3>1, <3>2 DEF ReplicaTyped, PlanHolds, HasRun
  <2> QED BY <2>1, <2>2
<1> QED BY <1>1, <1>5, <1>6, <1>7, <1>10, <1>11 DEF MigrationInv

LEMMA InitMigrations == SetupInit => MigrationInv
<1> SUFFICES ASSUME SetupInit PROVE MigrationInv
  OBVIOUS
<1>1. schema = << >> /\ schema \in Seq(Migrations) /\ DOMAIN schema = {}
  BY DEF SetupInit
<1> QED
  BY <1>1, SetupAssumption
  DEF SetupInit, MigrationInv, LockOk, Down, ReplicaTyped, PlanHolds, HasRun, SchemaOfReleases

\* One migration more has been run.
LEMMA RunKeeps ==
    ASSUME MigrationInv, NEW r \in Replicas, RunMigration(r)
    PROVE  MigrationInv'
<1> USE SetupAssumption
<1> DEFINE p == replica[r]
<1>0. p.at = "run" /\ ReplicaTyped(p) /\ PlanHolds(p)
  BY DEF RunMigration, MigrationInv
<1>1. PICK m \in p.pending :
        /\ \A n \in p.pending : m.version <= n.version
        /\ Becomes(r, [at |-> "run", release |-> p.release, done |-> Append(p.done, m),
                       pending |-> p.pending \ {m}])
  BY DEF RunMigration
<1> DEFINE n == Len(p.done)
           ran == Append(p.done, m)
           q == [at |-> "run", release |-> p.release, done |-> ran, pending |-> p.pending \ {m}]
<1>2. Becomes(r, q)
  BY <1>1
<1>3. m \in p.release /\ p.release \in Releases /\ m \in Migrations /\ m.version \notin Applied
      /\ p.done \in Seq(Migrations)
  BY <1>0 DEF PlanHolds, ReplicaTyped, Migrations
<1>4. /\ n \in Nat /\ DOMAIN p.done = 1..n /\ ran \in Seq(Migrations)
      /\ DOMAIN ran = 1..(n + 1) /\ ran[n + 1] = m
      /\ \A i \in 1..n : ran[i] = p.done[i]
  BY <1>3, AppendProperties, LenProperties
<1> HIDE DEF ran, n
<1>5. ReplicaTyped(q)
  BY <1>3, <1>4 DEF ReplicaTyped
<1>6. PlanHolds(q)
  <2>1. ASSUME NEW i \in 1..(n + 1)
        PROVE  \/ i \in DOMAIN p.done /\ ran[i] = p.done[i]
               \/ i = n + 1 /\ ran[i] = m
    BY <1>4, <2>1
  <2>2. ASSUME NEW i \in DOMAIN ran
        PROVE  /\ ran[i] \in p.release
               /\ ran[i].version \notin Applied
               /\ \A k \in p.pending \ {m} : ran[i].version < k.version
    <3>1. CASE i \in DOMAIN p.done /\ ran[i] = p.done[i]
      BY <1>0, <3>1 DEF PlanHolds
    <3>2. CASE ran[i] = m
      <4>1. ASSUME NEW k \in p.pending \ {m} PROVE m.version < k.version
        <5>1. k \in p.release /\ m.version <= k.version
          BY <1>0, <1>1 DEF PlanHolds
        <5>2. m.version # k.version /\ m.version \in Int /\ k.version \in Int
          BY <1>3, <5>1
        <5> QED BY <5>1, <5>2
      <4> QED BY <1>3, <3>2, <4>1
    <3> QED BY <1>4, <2>1, <3>1, <3>2
  <2>3. ASSUME NEW i \in DOMAIN ran, NEW j \in DOMAIN ran, i < j
        PROVE  ran[i].version < ran[j].version
    <3>1. i \in 1..n
      BY <1>4, <2>3
    <3>2. CASE j \in 1..n
      BY <1>0, <1>4, <2>3, <3>1, <3>2 DEF PlanHolds
    <3>3. CASE j = n + 1
      BY <1>0, <1>4, <3>1, <3>3 DEF PlanHolds
    <3> QED BY <1>4, <3>2, <3>3
  <2>4. ASSUME NEW k \in p.release
        PROVE  \/ k.version \in Applied \/ k \in p.pending \ {m}
               \/ \E i \in DOMAIN ran : ran[i] = k
    <3>1. n + 1 \in DOMAIN ran /\ \A i \in DOMAIN p.done : i \in DOMAIN ran /\ ran[i] = p.done[i]
      BY <1>4
    <3> QED BY <1>0, <1>4, <3>1 DEF PlanHolds
  <2>5. /\ \A i \in DOMAIN schema : schema[i] \in p.release
        /\ \A k \in p.pending : k \in p.release /\ k.version \notin Applied
    BY <1>0 DEF PlanHolds
  <2> QED BY <2>2, <2>3, <2>4, <2>5 DEF PlanHolds
<1>7. LockOk'
  BY <1>0, <1>2 DEF RunMigration, MigrationInv, LockOk, Becomes
<1> QED BY <1>2, <1>5, <1>6, <1>7, ReplicaMoves DEF RunMigration, HasRun

\* The schema of a plan: what a release does not have makes a mismatch.
LEMMA PlanKeeps ==
    ASSUME MigrationInv, NEW r \in Replicas, PlanMigrations(r)
    PROVE  MigrationInv'
<1> DEFINE p == replica[r]
<1>0. p.at = "locked" /\ p.release \in Releases /\ lock = r /\ schema' = schema
  BY DEF PlanMigrations, MigrationInv, ReplicaTyped, LockOk
<1>1. CASE Mismatch(p.release)
  <2>1. Becomes(r, Down) /\ lock' = "free"
    BY <1>0, <1>1 DEF PlanMigrations, Released
  <2>2. LockOk'
    BY <1>0, <2>1, SetupAssumption DEF MigrationInv, LockOk, Becomes, Down
  <2> QED BY <1>0, <2>1, <2>2, ReplicaMoves DEF Down, ReplicaTyped, PlanHolds, HasRun
<1>2. CASE ~ Mismatch(p.release)
  <2> DEFINE q == [at |-> "run", release |-> p.release, done |-> << >>,
                   pending |-> Unapplied(p.release)]
  <2>1. Becomes(r, q) /\ lock' = lock
    BY <1>0, <1>2 DEF PlanMigrations
  <2>2. \A i \in DOMAIN schema : schema[i] \in p.release
    BY <1>2 DEF Mismatch, Range
  <2>3. << >> \in Seq(Migrations) /\ DOMAIN << >> = {}
    OBVIOUS
  <2>4. ReplicaTyped(q) /\ PlanHolds(q) /\ HasRun(q)
    BY <1>0, <2>2, <2>3 DEF ReplicaTyped, PlanHolds, HasRun, Unapplied
  <2>5. LockOk'
    BY <1>0, <2>1 DEF MigrationInv, LockOk, Becomes
  <2> QED BY <1>0, <2>1, <2>4, <2>5, ReplicaMoves
<1> QED BY <1>1, <1>2

LEMMA StepMigrations == MigrationInv /\ [SetupNext]_setupVars => MigrationInv'
<1> SUFFICES ASSUME MigrationInv, [SetupNext]_setupVars PROVE MigrationInv'
  OBVIOUS
<1>0. ASSUME UNCHANGED <<schema, lock, replica>> PROVE MigrationInv'
  BY <1>0 DEF MigrationInv, LockOk, ReplicaTyped, PlanHolds, HasRun, SchemaOfReleases, InOrder, Applied
<1>1. ASSUME NEW r \in Replicas, StartReplica(r) PROVE MigrationInv'
  <2>1. PICK R \in Releases : Becomes(r, [at |-> "begin", release |-> R])
    BY <1>1 DEF StartReplica
  <2>2. LockOk'
    BY <1>1, <2>1 DEF StartReplica, MigrationInv, LockOk, Becomes
  <2>3. schema' = schema
    BY <1>1 DEF StartReplica
  <2> QED BY <2>1, <2>2, <2>3, ReplicaMoves DEF ReplicaTyped, PlanHolds, HasRun
<1>2. ASSUME NEW r \in Replicas, LockMigrations(r) PROVE MigrationInv'
  <2>1. Becomes(r, [at |-> "locked", release |-> replica[r].release])
        /\ lock = "free" /\ lock' = r /\ schema' = schema
    BY <1>2 DEF LockMigrations, TakeLock
  <2>2. replica[r].release \in Releases
    BY <1>2 DEF LockMigrations, MigrationInv, ReplicaTyped
  <2>3. LockOk'
    BY <2>1, SetupAssumption DEF MigrationInv, LockOk, Becomes
  <2> QED BY <2>1, <2>2, <2>3, ReplicaMoves DEF ReplicaTyped, PlanHolds, HasRun
<1>3. ASSUME NEW r \in Replicas, DryRun(r) PROVE MigrationInv'
  <2>1. \/ Becomes(r, Down)
        \/ Becomes(r, [at |-> "up", release |-> {}])
    BY <1>3 DEF DryRun
  <2>2. LockOk' /\ schema' = schema
    BY <1>3, <2>1 DEF DryRun, MigrationInv, LockOk, Becomes, Down
  <2> QED BY <2>1, <2>2, ReplicaMoves DEF Down, ReplicaTyped, PlanHolds, HasRun
<1>4. ASSUME NEW r \in Replicas, ReplicaEnds(r) PROVE MigrationInv'
  <2>1. Becomes(r, Down) /\ lock' = Released(r) /\ schema' = schema
    BY <1>4 DEF ReplicaEnds
  <2>2. LockOk'
    BY <2>1, SetupAssumption DEF MigrationInv, LockOk, Becomes, Down, Released
  <2> QED BY <2>1, <2>2, ReplicaMoves DEF Down, ReplicaTyped, PlanHolds, HasRun
<1>5. ASSUME NEW i \in Imports,
             \/ BeginImport(i) \/ RetireActive(i) \/ Retired(i)
             \/ ActivateBuild(i) \/ CommitImport(i) \/ ImportFails(i)
      PROVE  MigrationInv'
  BY <1>0, <1>5 DEF BeginImport, RetireActive, Retired, ActivateBuild, CommitImport, ImportFails
<1>6. CASE UNCHANGED setupVars
  BY <1>0, <1>6 DEF setupVars
<1> QED
  BY <1>1, <1>2, <1>3, <1>4, <1>5, <1>6, PlanKeeps, RunKeeps, CommitKeeps DEF SetupNext

\* An import is about to commit alone, and has retired what is active.
ImportTyped(x) ==
    /\ x.at \in {"not run", "load", "retire", "activate", "commit", "ended"}
    /\ x.at = "commit" => Active \subseteq x.retired

ImportInv ==
    /\ DOMAIN import = Imports
    /\ \A i \in Imports : ImportTyped(import[i])
    /\ \A i, j \in Imports : import[i].at = "commit" /\ import[j].at = "commit" => i = j
    /\ DOMAIN builds \subseteq Imports /\ \A b \in DOMAIN builds : builds[b] \in States
    /\ everActive \in BOOLEAN
    /\ everActive => \E b : Active = {b}
    /\ ~ everActive => Active = {}

LEMMA InitImports == SetupInit => ImportInv
<1> SUFFICES ASSUME SetupInit PROVE ImportInv
  OBVIOUS
<1>1. DOMAIN builds = {} /\ Active = {}
  BY DEF SetupInit, Active
<1> QED BY <1>1 DEF SetupInit, ImportInv, NotRun, ImportTyped

\* An import moves on and the builds are as they were.
LEMMA ImportMoves ==
    ASSUME ImportInv, NEW i \in Imports, NEW x, ImportAt(i, x),
           builds' = builds, everActive' = everActive, ImportTyped(x),
           x.at = "commit" => \A j \in Imports \ {i} : import[j].at # "commit"
    PROVE  ImportInv'
<1>1. DOMAIN import' = Imports
      /\ \A j \in Imports : import'[j] = IF j = i THEN x ELSE import[j]
  BY DEF ImportInv, ImportAt
<1>2. Active' = Active
  BY DEF Active
<1>3. \A j \in Imports : ImportTyped(import[j])'
  <2> SUFFICES ASSUME NEW j \in Imports PROVE ImportTyped(import[j])'
    OBVIOUS
  <2>1. ImportTyped(import'[j])
    BY <1>1 DEF ImportInv
  <2> QED BY <1>2, <2>1 DEF ImportTyped
<1>4. \A j, k \in Imports : import'[j].at = "commit" /\ import'[k].at = "commit" => j = k
  BY <1>1 DEF ImportInv
<1> QED BY <1>1, <1>2, <1>3, <1>4 DEF ImportInv

LEMMA StepImports == ImportInv /\ [SetupNext]_setupVars => ImportInv'
<1> SUFFICES ASSUME ImportInv, [SetupNext]_setupVars PROVE ImportInv'
  OBVIOUS
<1>0. ASSUME UNCHANGED <<builds, import, everActive>> PROVE ImportInv'
  BY <1>0 DEF ImportInv, ImportTyped, Active
<1>1. ASSUME NEW i \in Imports, BeginImport(i) PROVE ImportInv'
  BY <1>1, ImportMoves DEF BeginImport, ImportTyped
<1>2. ASSUME NEW i \in Imports, RetireActive(i) PROVE ImportInv'
  BY <1>2, ImportMoves DEF RetireActive, ImportTyped
<1>3. ASSUME NEW i \in Imports, Retired(i) PROVE ImportInv'
  BY <1>3, ImportMoves DEF Retired, ImportTyped
<1>4. ASSUME NEW i \in Imports, ActivateBuild(i) PROVE ImportInv'
  <2>1. CASE IndexFree(i)
    <3> DEFINE x == [at |-> "commit", retired |-> import[i].retired]
    <3>1. ImportAt(i, x) /\ builds' = builds /\ everActive' = everActive
          /\ \A j \in Imports \ {i} : import[j].at # "commit"
      BY <1>4, <2>1 DEF ActivateBuild
    <3>2. ImportTyped(x)
      BY <2>1 DEF IndexFree, ImportTyped
    <3> QED BY <3>1, <3>2, ImportMoves
  <2>2. CASE ~ IndexFree(i)
    <3>1. ImportAt(i, [at |-> "ended"]) /\ builds' = builds /\ everActive' = everActive
      BY <1>4, <2>2 DEF ActivateBuild
    <3> QED BY <3>1, ImportMoves DEF ImportTyped
  <2> QED BY <2>1, <2>2
<1>5. ASSUME NEW i \in Imports, CommitImport(i) PROVE ImportInv'
  <2>1. /\ import[i].at = "commit" /\ Active \subseteq import[i].retired
        /\ \A j \in Imports \ {i} : import[j].at # "commit"
    BY <1>5 DEF CommitImport, ImportInv, ImportTyped
  <2>2. /\ DOMAIN import' = Imports
        /\ \A j \in Imports : import'[j] = IF j = i THEN [at |-> "ended"] ELSE import[j]
    BY <1>5 DEF CommitImport, ImportAt, ImportInv
  <2>3. /\ DOMAIN builds' = DOMAIN builds \cup {i} /\ builds'[i] = "active"
        /\ \A b \in DOMAIN builds \ {i} :
             builds'[b] = IF b \in import[i].retired THEN "retired" ELSE builds[b]
    BY <1>5 DEF CommitImport
  <2>4. Active' = {i}
    <3>1. \A b \in DOMAIN builds' : builds'[b] = "active" <=> b = i
      BY <2>1, <2>3 DEF Active
    <3> QED BY <2>3, <3>1 DEF Active
  <2>5. DOMAIN builds' \subseteq Imports /\ \A b \in DOMAIN builds' : builds'[b] \in States
    BY <2>3 DEF ImportInv, States
  <2>6. ASSUME NEW j \in Imports
        PROVE  import'[j].at # "commit" /\ ImportTyped(import[j])'
    <3>1. import'[j].at # "commit"
      <4>1. CASE j = i
        BY <2>2, <4>1
      <4>2. CASE j # i
        BY <2>1, <2>2, <4>2
      <4> QED BY <4>1, <4>2
    <3>2. import'[j].at \in {"not run", "load", "retire", "activate", "commit", "ended"}
      <4>1. ImportTyped(import[j])
        BY DEF ImportInv
      <4>2. CASE j = i
        <5>1. import'[j] = [at |-> "ended"]
          BY <2>2, <4>2
        <5>2. import'[j].at = "ended"
          BY <5>1
        <5> QED BY <5>2
      <4>3. CASE j # i
        BY <2>2, <4>1, <4>3 DEF ImportTyped
      <4> QED BY <4>2, <4>3
    <3> QED BY <3>1, <3>2 DEF ImportTyped
  <2>7. everActive' = TRUE
    BY <1>5 DEF CommitImport
  <2> QED BY <2>2, <2>4, <2>5, <2>6, <2>7 DEF ImportInv
<1>6. ASSUME NEW i \in Imports, ImportFails(i) PROVE ImportInv'
  BY <1>6, ImportMoves DEF ImportFails, NotRun, ImportTyped
<1>7. ASSUME NEW r \in Replicas,
             \/ StartReplica(r) \/ LockMigrations(r) \/ PlanMigrations(r) \/ DryRun(r)
             \/ RunMigration(r) \/ CommitMigrations(r) \/ ReplicaEnds(r)
      PROVE  ImportInv'
  BY <1>0, <1>7 DEF StartReplica, LockMigrations, PlanMigrations, DryRun, RunMigration,
                    CommitMigrations, ReplicaEnds
<1>8. CASE UNCHANGED setupVars
  BY <1>0, <1>8 DEF setupVars
<1> QED BY <1>1, <1>2, <1>3, <1>4, <1>5, <1>6, <1>7, <1>8 DEF SetupNext

\* Whatever releases start at once and wherever they are cut off, a migration
\* runs once and after those of lower numbers that its release knew of; and
\* however imports overlap, one build is active once one has been.
THEOREM DatabaseIsPrepared == SetupSpec => []SetupInvariant
<1>1. MigrationInv /\ ImportInv => SetupInvariant
  <2> SUFFICES ASSUME MigrationInv, ImportInv PROVE SetupInvariant
    OBVIOUS
  <2>1. SetupTypeOK
    BY DEF MigrationInv, ImportInv, SetupTypeOK, ReplicaTyped, ImportTyped, LockOk
  <2>2. OneActiveBuild
    <3>1. Cardinality({}) = 0 /\ \A b : Cardinality({b}) = 1
      BY FS_EmptySet, FS_Singleton
    <3> QED BY <3>1 DEF ImportInv, OneActiveBuild
  <2> QED BY <2>1, <2>2, MigrationInvIsEnough DEF SetupInvariant
<1> QED
  BY <1>1, InitMigrations, StepMigrations, InitImports, StepImports, PTL DEF SetupSpec

-----------------------------------------------------------------------------
(* Login                                                                   *)

Exchanging == [pc : {"exchange"}, by : Txns, subject : Subjects]
Asked    == [pc : {"find", "account"}, by : Sources, subject : Subjects]
Creating == [pc : {"identity"}, by : Sources, subject : Subjects, account : Accounts]
Saving   == [pc : {"grant"}, by : Txns, subject : Subjects, account : Accounts]
Issuing  == [pc : {"issue", "session"}, by : Sources, for : Parties, account : Accounts]
Storing  == [pc : {"device"}, by : Sources, number : 1..MaxSessions]
Flows    == {Free} \cup Exchanging \cup Asked \cup Creating \cup Saving \cup Issuing \cup Storing

Running(h) == flow[h].pc # "free"

Map(f) == f = [j \in DOMAIN f |-> f[j]]

SessionShape ==
    [number : 1..MaxSessions, by : Sources, for : Parties, live : BOOLEAN, account : Accounts]

LoginShapes ==
    /\ echoes \in BOOLEAN /\ unverified \in BOOLEAN
    /\ Map(records) /\ DOMAIN records \subseteq Txns
    /\ \A t \in DOMAIN records :
          records[t] \in [kind : {"browser", "native"}, expired : BOOLEAN,
                          code : Subjects \cup {"none"}]
    /\ cookie \in Txns \cup {NoTxn}
    /\ Map(challenges) /\ DOMAIN challenges \subseteq Challenges
    /\ \A c \in DOMAIN challenges :
          challenges[c] \in [for : Parties, state : {"open", "gone"}]
    /\ Map(accounts) /\ DOMAIN accounts \subseteq Accounts
    /\ Map(identities) /\ DOMAIN identities \subseteq Subjects
    /\ grants \subseteq Accounts /\ scheduled \subseteq grants
    /\ logins \subseteq SessionShape
    /\ IsFiniteSet(logins)
    /\ flow \in [LoginHandlers -> Flows]
    /\ loginFaults \in 0..MaxLoginFaults

\* A transaction or a challenge that was taken.
Taken(b, txns, chals) == /\ b \in Txns => b \notin DOMAIN txns
                         /\ b \in Challenges => b \in DOMAIN chals /\ chals[b].state = "gone"

\* What logs in was taken, by one request, and has made no session unless the
\* request that took it is at the device.
TakenOnce ==
    /\ \A h \in LoginHandlers : Running(h) => Taken(flow[h].by, records, challenges)
    /\ \A l \in logins : Taken(l.by, records, challenges)
    /\ \A g, h \in LoginHandlers : Running(g) /\ Running(h) /\ flow[g].by = flow[h].by => g = h
    /\ \A h \in LoginHandlers, l \in logins :
          Running(h) /\ flow[h].pc # "device" => l.by # flow[h].by
    /\ \A k, l \in logins : k.by = l.by => k = l

\* An account without an identity is one request's alone.
OneIdentityEach ==
    /\ \A s \in DOMAIN identities : identities[s] \in DOMAIN accounts
    /\ \A s, u \in DOMAIN identities : identities[s] = identities[u] => s = u
    /\ \A h \in LoginHandlers : In(h, "identity") =>
          /\ flow[h].account \in DOMAIN accounts
          /\ \A s \in DOMAIN identities : identities[s] # flow[h].account
    /\ \A g, h \in LoginHandlers :
          In(g, "identity") /\ In(h, "identity") /\ flow[g].account = flow[h].account => g = h

\* The account is that of the party, given the identities; the session may be made
\* of it, given the grants.
OfParty(a, p, ids) == IF p \in Subjects THEN p \in DOMAIN ids /\ ids[p] = a ELSE a = p
Allowed(b, a, saved) == a \in saved \/ (unverified /\ b \in Challenges)

Unsaved == {"find", "account", "identity"}

\* What leads to a session has the account of its party, and a saved grant unless
\* it goes back to an unverified challenge.
Entitled ==
    /\ \A h \in LoginHandlers :
          /\ flow[h].pc \in Unsaved /\ flow[h].by \in Challenges => unverified
          /\ flow[h].pc = "grant" => OfParty(flow[h].account, flow[h].subject, identities)
          /\ flow[h].pc \in {"issue", "session"} =>
                /\ OfParty(flow[h].account, flow[h].for, identities)
                /\ Allowed(flow[h].by, flow[h].account, grants)
    /\ \A c \in DOMAIN challenges : unverified \/ challenges[c].for \in grants
    /\ \A l \in logins : /\ OfParty(l.account, l.for, identities)
                         /\ Allowed(l.by, l.account, grants)

\* A live session lacks its device only while its login runs or was cut short.
Settled(l) == \/ l.number \in deviceRows \cup interrupted
              \/ \E h \in LoginHandlers : In(h, "device") /\ flow[h].number = l.number
              \/ ~l.live

LoginInv ==
    LoginShapes /\ TakenOnce /\ OneIdentityEach /\ Entitled /\ \A l \in logins : Settled(l)

LEMMA LoginInvIsEnough == LoginInv => LoginsAreSound
<1> SUFFICES ASSUME LoginInv PROVE LoginsAreSound
  OBVIOUS
<1>1. LoginTypeOK
  <2>1. \A t \in DOMAIN records :
          /\ records[t].kind \in {"browser", "native"}
          /\ records[t].expired \in BOOLEAN
          /\ records[t].code \in Subjects \cup {"none"}
    BY DEF LoginInv, LoginShapes
  <2>2. \A l \in logins : l.number \in 1..MaxSessions /\ l.by \in Sources /\ l.for \in Parties
    BY DEF LoginInv, LoginShapes, SessionShape
  <2>3. \A c \in DOMAIN challenges : challenges[c].for \in Parties
    BY DEF LoginInv, LoginShapes
  <2> QED
    BY <2>1, <2>2, <2>3 DEF LoginInv, LoginShapes, LoginTypeOK
<1>2. \A l \in logins :
          /\ Belongs(l.account, l.for)
          /\ l.account \in grants \/ (unverified /\ l.by \in Challenges)
          /\ \/ l.number \in deviceRows \cup interrupted
             \/ \E h \in LoginHandlers : In(h, "device") /\ flow[h].number = l.number
             \/ ~l.live
  BY DEF LoginInv, Entitled, OfParty, Allowed, Belongs, Settled
<1> QED
  BY <1>1, <1>2 DEF LoginInv, TakenOnce, OneIdentityEach, LoginsAreSound

LEMMA LoginInitially == LoginInit => LoginInv
<1> SUFFICES ASSUME LoginInit PROVE LoginInv
  OBVIOUS
<1> USE DEF LoginInit
<1>1. \A h \in LoginHandlers : flow[h] = Free /\ Free.pc = "free"
  BY DEF Free
<1>2. LoginShapes
  BY LoginConstants, FS_EmptySet DEF LoginShapes, Flows, Map
<1>3. TakenOnce
  BY <1>1 DEF TakenOnce, Running
<1>4. OneIdentityEach
  BY <1>1 DEF OneIdentityEach, In
<1>5. Entitled
  BY <1>1 DEF Entitled, Unsaved
<1> QED
  BY <1>2, <1>3, <1>4, <1>5 DEF LoginInv

\* The parts of a request's record, by where it is.
LEMMA FlowFields ==
  ASSUME LoginInv, NEW h \in LoginHandlers
  PROVE  /\ flow[h] \in Flows
         /\ flow[h].pc = "free" => flow[h] = Free
         /\ flow[h].pc = "exchange" => flow[h] \in Exchanging
         /\ flow[h].pc \in {"find", "account"} => flow[h] \in Asked
         /\ flow[h].pc = "identity" => flow[h] \in Creating
         /\ flow[h].pc = "grant" => flow[h] \in Saving
         /\ flow[h].pc \in {"issue", "session"} => flow[h] \in Issuing
         /\ flow[h].pc = "device" => flow[h] \in Storing
<1>1. flow[h] \in Flows
  BY DEF LoginInv, LoginShapes
<1>2. Free.pc = "free"
  BY DEF Free
<1> QED
  BY <1>1, <1>2 DEF Flows, Exchanging, Asked, Creating, Saving, Issuing, Storing

\* A step of one request that leaves the sessions alone: it takes what nobody had
\* taken, or goes on with what it took.
LEMMA RequestSteps ==
  ASSUME LoginInv, NEW h \in LoginHandlers, NEW r \in Flows, flow' = [flow EXCEPT ![h] = r],
         UNCHANGED <<logins, deviceRows, interrupted>>,
         grants \subseteq grants', LoginShapes', OneIdentityEach',
         \A a, p : OfParty(a, p, identities) => OfParty(a, p, identities'), unverified' = unverified,
         \A b \in Sources : Taken(b, records, challenges) => Taken(b, records', challenges'),
         DOMAIN challenges' = DOMAIN challenges,
         \A c \in DOMAIN challenges : challenges'[c].for = challenges[c].for,
         flow[h].pc # "device", r.pc # "device",
         \/ r.pc = "free"
         \/ Running(h) /\ r.by = flow[h].by
         \/ r.by \in Sources /\ ~Taken(r.by, records, challenges) /\ Taken(r.by, records', challenges'),
         r.pc \in Unsaved /\ r.by \in Challenges => unverified,
         r.pc = "grant" => OfParty(r.account, r.subject, identities'),
         r.pc \in {"issue", "session"} =>
            OfParty(r.account, r.for, identities') /\ Allowed(r.by, r.account, grants')
  PROVE  LoginInv'
<1>1. flow' = [g \in LoginHandlers |-> IF g = h THEN r ELSE flow[g]]
  BY DEF LoginInv, LoginShapes
<1>2. \A g \in LoginHandlers : g # h => flow'[g] = flow[g]
  BY <1>1
<1>3. flow'[h] = r
  BY <1>1
<1>4. \A g \in LoginHandlers : Running(g) => flow[g].by \in Sources
  BY FlowFields DEF Running, Flows, Exchanging, Asked, Creating, Saving, Issuing, Storing, Free,
                    Sources
<1>5. \A l \in logins : l.by \in Sources
  BY DEF LoginInv, LoginShapes, SessionShape
<1>6. ASSUME r.pc # "free" PROVE Taken(r.by, records', challenges')
  BY <1>4, <1>6 DEF LoginInv, TakenOnce
<1>7. ASSUME r.pc # "free", NEW g \in LoginHandlers, g # h, Running(g) PROVE flow[g].by # r.by
  BY <1>7 DEF LoginInv, TakenOnce
<1>8. ASSUME r.pc # "free", NEW l \in logins PROVE l.by # r.by
  BY <1>8 DEF LoginInv, TakenOnce
<1>9. TakenOnce'
  <2>1. \A g \in LoginHandlers : Running(g)' => Taken(flow'[g].by, records', challenges')
    BY <1>2, <1>3, <1>4, <1>6 DEF LoginInv, TakenOnce, Running
  <2>2. \A l \in logins' : Taken(l.by, records', challenges')
    BY <1>5 DEF LoginInv, TakenOnce
  <2>3. \A f, g \in LoginHandlers : Running(f)' /\ Running(g)' /\ flow'[f].by = flow'[g].by => f = g
    BY <1>2, <1>3, <1>7 DEF LoginInv, TakenOnce, Running
  <2>4. \A g \in LoginHandlers, l \in logins' :
           Running(g)' /\ flow'[g].pc # "device" => l.by # flow'[g].by
    BY <1>2, <1>3, <1>8 DEF LoginInv, TakenOnce, Running
  <2> QED
    BY <2>1, <2>2, <2>3, <2>4 DEF LoginInv, TakenOnce
<1>10. Entitled'
  <2>1. \A b, a : Allowed(b, a, grants) => Allowed(b, a, grants')
    BY DEF Allowed
  <2>2. \A g \in LoginHandlers :
          /\ flow'[g].pc \in Unsaved /\ flow'[g].by \in Challenges => unverified
          /\ flow'[g].pc = "grant" => OfParty(flow'[g].account, flow'[g].subject, identities')
          /\ flow'[g].pc \in {"issue", "session"} =>
                /\ OfParty(flow'[g].account, flow'[g].for, identities')
                /\ Allowed(flow'[g].by, flow'[g].account, grants')
    BY <1>2, <1>3, <2>1 DEF LoginInv, Entitled
  <2>3. \A c \in DOMAIN challenges' : unverified \/ challenges'[c].for \in grants'
    BY DEF LoginInv, Entitled
  <2>4. \A l \in logins' : /\ OfParty(l.account, l.for, identities')
                            /\ Allowed(l.by, l.account, grants')
    BY <2>1 DEF LoginInv, Entitled
  <2> QED
    BY <2>2, <2>3, <2>4 DEF Entitled, OfParty, Allowed, Unsaved
<1>11. \A l \in logins' : Settled(l)'
  BY <1>2 DEF LoginInv, Settled, In
<1> QED
  BY <1>9, <1>10, <1>11 DEF LoginInv

\* The same for a step that leaves accounts and identities alone as well.
LEMMA RequestMoves ==
  ASSUME LoginInv, NEW h \in LoginHandlers, NEW r \in Flows, flow' = [flow EXCEPT ![h] = r],
         UNCHANGED <<unverified, accounts, identities, logins, deviceRows, interrupted>>,
         grants \subseteq grants', LoginShapes',
         \A b \in Sources : Taken(b, records, challenges) => Taken(b, records', challenges'),
         DOMAIN challenges' = DOMAIN challenges,
         \A c \in DOMAIN challenges : challenges'[c].for = challenges[c].for,
         flow[h].pc # "device", r.pc \notin {"identity", "device"},
         \/ r.pc = "free"
         \/ Running(h) /\ r.by = flow[h].by
         \/ r.by \in Sources /\ ~Taken(r.by, records, challenges) /\ Taken(r.by, records', challenges'),
         r.pc \in Unsaved /\ r.by \in Challenges => unverified,
         r.pc = "grant" => OfParty(r.account, r.subject, identities),
         r.pc \in {"issue", "session"} =>
            OfParty(r.account, r.for, identities) /\ Allowed(r.by, r.account, grants')
  PROVE  LoginInv'
<1>1. flow' = [g \in LoginHandlers |-> IF g = h THEN r ELSE flow[g]]
  BY DEF LoginInv, LoginShapes
<1>2. OneIdentityEach'
  BY <1>1 DEF LoginInv, OneIdentityEach, In
<1> QED
  BY <1>2, RequestSteps

\* A step that touches neither a request nor what is stored.
LEMMA NobodyMoves ==
  ASSUME LoginInv, UNCHANGED <<unverified, flow, stored>>, LoginShapes',
         \A h \in LoginHandlers : Running(h) => Taken(flow[h].by, records', challenges'),
         \A l \in logins : Taken(l.by, records', challenges'),
         \A c \in DOMAIN challenges' : unverified \/ challenges'[c].for \in grants
  PROVE  LoginInv'
<1>1. TakenOnce'
  BY DEF LoginInv, TakenOnce, Running, stored
<1>2. OneIdentityEach' /\ Entitled'
  BY DEF LoginInv, OneIdentityEach, Entitled, OfParty, Allowed, In, stored
<1>3. \A l \in logins' : Settled(l)'
  BY DEF LoginInv, Settled, In, stored
<1> QED
  BY <1>1, <1>2, <1>3 DEF LoginInv

-----------------------------------------------------------------------------
LEMMA SsoStartKeeps == ASSUME LoginInv, NEW kind \in {"browser", "native"}, SsoStart(kind)
                       PROVE  LoginInv'
<1>1. PICK t \in Txns :
          /\ Unused(t)
          /\ records' = Put(records, t, [kind |-> kind, expired |-> FALSE, code |-> "none"])
          /\ cookie' = IF kind = "browser" THEN t ELSE cookie
  BY DEF SsoStart
<1>2. UNCHANGED <<echoes, unverified, challenges, flow, loginFaults, stored>>
  BY DEF SsoStart
<1>3. LoginShapes'
  <2> DEFINE r == [kind |-> kind, expired |-> FALSE, code |-> "none"]
  <2>1. r \in [kind : {"browser", "native"}, expired : BOOLEAN, code : Subjects \cup {"none"}]
    OBVIOUS
  <2> HIDE DEF r
  <2>2. records' = [j \in DOMAIN records \cup {t} |-> IF j = t THEN r ELSE records[j]]
    BY <1>1 DEF Put, r
  <2>3. /\ Map(records') /\ DOMAIN records' \subseteq Txns
        /\ \A u \in DOMAIN records' :
              records'[u] \in [kind : {"browser", "native"}, expired : BOOLEAN,
                              code : Subjects \cup {"none"}]
    BY <2>1, <2>2 DEF LoginInv, LoginShapes, Map
  <2>4. cookie' \in Txns \cup {NoTxn}
    BY <1>1 DEF LoginInv, LoginShapes
  <2> QED
    BY <1>2, <2>3, <2>4 DEF LoginInv, LoginShapes, stored, Map
<1>4. DOMAIN records' = DOMAIN records \cup {t}
  BY <1>1 DEF Put
<1>5. \A h \in LoginHandlers : Running(h) => Taken(flow[h].by, records', challenges')
  BY <1>1, <1>2, <1>4 DEF LoginInv, TakenOnce, Taken, Unused, Running
<1>6. \A l \in logins : Taken(l.by, records', challenges')
  BY <1>1, <1>2, <1>4 DEF LoginInv, TakenOnce, Taken, Unused
<1> QED
  BY <1>2, <1>3, <1>5, <1>6, NobodyMoves DEF LoginInv, Entitled

\* Changing a pending transaction in place.
LEMMA TransactionChanges ==
  ASSUME LoginInv, NEW t \in DOMAIN records, NEW r,
         r \in [kind : {"browser", "native"}, expired : BOOLEAN, code : Subjects \cup {"none"}],
         records' = [records EXCEPT ![t] = r], cookie' \in Txns \cup {NoTxn},
         UNCHANGED <<echoes, unverified, challenges, flow, loginFaults, stored>>
  PROVE  LoginInv'
<1>1. records' = [j \in DOMAIN records |-> IF j = t THEN r ELSE records[j]]
  BY DEF LoginInv, LoginShapes, Map
<1>2. LoginShapes'
  <2>1. Map(records') /\ DOMAIN records' = DOMAIN records
    BY <1>1 DEF Map
  <2>2. ASSUME NEW u \in DOMAIN records
        PROVE  records'[u] \in [kind : {"browser", "native"}, expired : BOOLEAN,
                               code : Subjects \cup {"none"}]
    <3>1. records'[u] = r \/ records'[u] = records[u]
      BY <1>1
    <3> QED
      BY <3>1 DEF LoginInv, LoginShapes
  <2> QED
    BY <2>1, <2>2 DEF LoginInv, LoginShapes, stored, Map
<1>3. DOMAIN records' = DOMAIN records
  BY <1>1
<1> QED
  BY <1>2, <1>3, NobodyMoves DEF LoginInv, TakenOnce, Taken, Entitled

LEMMA TxnExpiresKeeps == ASSUME LoginInv, NEW t \in Txns, TxnExpires(t) PROVE LoginInv'
<1>1. t \in DOMAIN records /\ records' = [records EXCEPT ![t] = [records[t] EXCEPT !.expired = TRUE]]
  BY DEF TxnExpires
<1>2. [records[t] EXCEPT !.expired = TRUE]
        \in [kind : {"browser", "native"}, expired : BOOLEAN, code : Subjects \cup {"none"}]
  BY <1>1 DEF LoginInv, LoginShapes
<1>3. cookie' \in Txns \cup {NoTxn} /\ UNCHANGED <<echoes, unverified, challenges, flow, loginFaults, stored>>
  BY DEF TxnExpires, LoginInv, LoginShapes
<1> QED
  BY <1>1, <1>2, <1>3, TransactionChanges

LEMMA StageKeeps ==
  ASSUME LoginInv, NEW t \in Txns, NEW s \in Subjects, StageNativeCallback(t, s) PROVE LoginInv'
<1>1. t \in DOMAIN records /\ records' = [records EXCEPT ![t] = [records[t] EXCEPT !.code = s]]
  BY DEF StageNativeCallback, PendingTxn
<1>2. [records[t] EXCEPT !.code = s]
        \in [kind : {"browser", "native"}, expired : BOOLEAN, code : Subjects \cup {"none"}]
  BY <1>1 DEF LoginInv, LoginShapes
<1>3. cookie' \in Txns \cup {NoTxn} /\ UNCHANGED <<echoes, unverified, challenges, flow, loginFaults, stored>>
  BY DEF StageNativeCallback, LoginInv, LoginShapes
<1> QED
  BY <1>1, <1>2, <1>3, TransactionChanges

\* A request takes a pending transaction.
LEMMA ConsumeTransaction ==
  ASSUME LoginInv, NEW h \in LoginHandlers, In(h, "free"), NEW t \in DOMAIN records,
         NEW s \in Subjects, records' = Drop(records, t),
         flow' = [flow EXCEPT ![h] = [pc |-> "exchange", by |-> t, subject |-> s]],
         cookie' \in Txns \cup {NoTxn}, UNCHANGED <<echoes, unverified, challenges, loginFaults, stored>>
  PROVE  LoginInv'
<1> DEFINE r == [pc |-> "exchange", by |-> t, subject |-> s]
<1>1. t \in Txns /\ t \notin Challenges /\ t \in Sources
  BY LoginConstants DEF LoginInv, LoginShapes, Sources
<1>2. r \in Flows /\ r.pc = "exchange" /\ r.by = t /\ r.pc \notin Unsaved
  BY <1>1 DEF Flows, Exchanging, Unsaved
<1> HIDE DEF r
<1>3. records' = [j \in DOMAIN records \ {t} |-> records[j]]
  BY DEF Drop
<1>4. flow' = [flow EXCEPT ![h] = r]
  BY DEF r
<1>5. LoginShapes'
  <2>1. /\ Map(records') /\ DOMAIN records' \subseteq Txns
        /\ \A u \in DOMAIN records' :
              records'[u] \in [kind : {"browser", "native"}, expired : BOOLEAN,
                              code : Subjects \cup {"none"}]
    BY <1>3 DEF LoginInv, LoginShapes, Map
  <2>2. flow' \in [LoginHandlers -> Flows]
    BY <1>2, <1>4 DEF LoginInv, LoginShapes
  <2> QED
    BY <2>1, <2>2 DEF LoginInv, LoginShapes, stored, Map
<1>6. \A b \in Sources : Taken(b, records, challenges) => Taken(b, records', challenges')
  BY <1>3 DEF Taken
<1>7. ~Taken(t, records, challenges) /\ Taken(t, records', challenges')
  BY <1>1, <1>3 DEF Taken
<1> QED
  BY <1>1, <1>2, <1>4, <1>5, <1>6, <1>7, RequestMoves DEF In, stored

LEMMA BrowserCallbackKeeps ==
  ASSUME LoginInv, NEW h \in LoginHandlers, NEW t \in Txns, NEW s \in Subjects,
         BrowserCallback(h, t, s)
  PROVE  LoginInv'
<1>1. /\ In(h, "free") /\ t \in DOMAIN records /\ cookie' \in Txns \cup {NoTxn}
      /\ UNCHANGED <<echoes, unverified, challenges, loginFaults, stored>>
  BY DEF BrowserCallback
<1>2. CASE /\ records' = Drop(records, t)
           /\ flow' = [flow EXCEPT ![h] = [pc |-> "exchange", by |-> t, subject |-> s]]
  BY <1>1, <1>2, ConsumeTransaction
<1>3. CASE UNCHANGED <<records, flow>>
  <2>1. LoginShapes'
    BY <1>1, <1>3 DEF LoginInv, LoginShapes, stored, Map
  <2> QED
    BY <1>1, <1>3, <2>1, NobodyMoves DEF LoginInv, TakenOnce, Entitled
<1> QED
  BY <1>2, <1>3 DEF BrowserCallback

LEMMA CompleteNativeKeeps ==
  ASSUME LoginInv, NEW h \in LoginHandlers, NEW t \in Txns, CompleteNative(h, t) PROVE LoginInv'
<1>1. /\ In(h, "free") /\ t \in DOMAIN records /\ records' = Drop(records, t)
      /\ flow' = [flow EXCEPT ![h] = [pc |-> "exchange", by |-> t, subject |-> records[t].code]]
      /\ records[t].code # "none"
      /\ UNCHANGED <<echoes, unverified, cookie, challenges, loginFaults, stored>>
  BY DEF CompleteNative, PendingTxn
<1>2. records[t].code \in Subjects /\ cookie \in Txns \cup {NoTxn}
  BY <1>1 DEF LoginInv, LoginShapes
<1> QED
  BY <1>1, <1>2, ConsumeTransaction

LEMMA ExchangeDirectKeeps ==
  ASSUME LoginInv, NEW h \in LoginHandlers, NEW t \in Txns, NEW s \in Subjects,
         ExchangeDirect(h, t, s)
  PROVE  LoginInv'
<1>1. /\ In(h, "free") /\ t \in DOMAIN records /\ records' = Drop(records, t)
      /\ flow' = [flow EXCEPT ![h] = [pc |-> "exchange", by |-> t, subject |-> s]]
      /\ UNCHANGED <<echoes, unverified, cookie, challenges, loginFaults, stored>>
  BY DEF ExchangeDirect, PendingTxn
<1>2. cookie \in Txns \cup {NoTxn}
  BY DEF LoginInv, LoginShapes
<1> QED
  BY <1>1, <1>2, ConsumeTransaction

-----------------------------------------------------------------------------
LEMMA DeviceAuthStartKeeps ==
  ASSUME LoginInv, NEW c \in Challenges, DeviceAuthStart(c) PROVE LoginInv'
<1>1. PICK p \in Parties :
        /\ unverified \/ SignedIn(p)
        /\ challenges' = Put(challenges, c, [for |-> p, state |-> "open"])
  BY DEF DeviceAuthStart
<1>2. c \notin DOMAIN challenges /\ UNCHANGED <<echoes, unverified, records, cookie, flow, loginFaults, stored>>
  BY DEF DeviceAuthStart
<1> DEFINE r == [for |-> p, state |-> "open"]
<1>3. r \in [for : Parties, state : {"open", "gone"}] /\ (unverified \/ r.for \in grants)
  <2>1. ~ unverified => p \in grants
    BY <1>1 DEF SignedIn, LoginInv, Entitled, Allowed
  <2> QED
    BY <2>1
<1>4. challenges' = [j \in DOMAIN challenges \cup {c} |-> IF j = c THEN r ELSE challenges[j]]
  BY <1>1 DEF Put
<1> HIDE DEF r
<1>5. \A j \in DOMAIN challenges : challenges'[j] = challenges[j]
  BY <1>2, <1>4
<1>6. DOMAIN challenges' = DOMAIN challenges \cup {c} /\ challenges'[c] = r /\ Map(challenges')
  BY <1>4 DEF Map
<1>7. LoginShapes'
  <2>1. \A j \in DOMAIN challenges' :
           challenges'[j] \in [for : Parties, state : {"open", "gone"}]
    BY <1>3, <1>5, <1>6 DEF LoginInv, LoginShapes
  <2> QED
    BY <1>2, <1>6, <2>1 DEF LoginInv, LoginShapes, stored, Map
<1>8. \A b : Taken(b, records, challenges) => Taken(b, records', challenges')
  BY <1>2, <1>5, <1>6 DEF Taken
<1>9. \A j \in DOMAIN challenges' : unverified \/ challenges'[j].for \in grants
  BY <1>3, <1>5, <1>6 DEF LoginInv, Entitled
<1> QED
  BY <1>2, <1>7, <1>8, <1>9, NobodyMoves DEF LoginInv, TakenOnce

\* A challenge that is gone, whoever took it.
LEMMA ChallengeGoes ==
  ASSUME LoginInv, NEW c \in DOMAIN challenges,
         challenges' = [challenges EXCEPT ![c].state = "gone"], records' = records
  PROVE  /\ Map(challenges') /\ DOMAIN challenges' = DOMAIN challenges
         /\ \A j \in DOMAIN challenges :
               /\ challenges'[j] \in [for : Parties, state : {"open", "gone"}]
               /\ challenges'[j].for = challenges[j].for
         /\ \A b : Taken(b, records, challenges) => Taken(b, records', challenges')
         /\ challenges'[c].state = "gone"
<1> DEFINE r == [challenges[c] EXCEPT !.state = "gone"]
<1>1. /\ r \in [for : Parties, state : {"open", "gone"}]
      /\ r.for = challenges[c].for /\ r.state = "gone"
  BY DEF LoginInv, LoginShapes
<1>2. challenges' = [j \in DOMAIN challenges |-> IF j = c THEN r ELSE challenges[j]]
  BY DEF LoginInv, LoginShapes, Map
<1> HIDE DEF r
<1>3. \A j \in DOMAIN challenges : challenges'[j] = IF j = c THEN r ELSE challenges[j]
  BY <1>2
<1>4. Map(challenges') /\ DOMAIN challenges' = DOMAIN challenges
  BY <1>2 DEF Map
<1>5. \A j \in DOMAIN challenges :
               /\ challenges'[j] \in [for : Parties, state : {"open", "gone"}]
               /\ challenges'[j].for = challenges[j].for
  BY <1>1, <1>3 DEF LoginInv, LoginShapes
<1>6. \A b : Taken(b, records, challenges) => Taken(b, records', challenges')
  BY <1>1, <1>3, <1>4 DEF Taken
<1> QED
  BY <1>1, <1>3, <1>4, <1>5, <1>6

LEMMA ChallengeExpiresKeeps ==
  ASSUME LoginInv, NEW c \in Challenges, ChallengeExpires(c) PROVE LoginInv'
<1>1. /\ c \in DOMAIN challenges /\ challenges' = [challenges EXCEPT ![c].state = "gone"]
      /\ UNCHANGED <<echoes, unverified, records, cookie, flow, loginFaults, stored>>
  BY DEF ChallengeExpires
<1>2. /\ Map(challenges') /\ DOMAIN challenges' = DOMAIN challenges
      /\ \A j \in DOMAIN challenges :
               /\ challenges'[j] \in [for : Parties, state : {"open", "gone"}]
               /\ challenges'[j].for = challenges[j].for
      /\ \A b : Taken(b, records, challenges) => Taken(b, records', challenges')
  BY <1>1, ChallengeGoes
<1>3. LoginShapes'
  BY <1>1, <1>2 DEF LoginInv, LoginShapes, stored, Map
<1> QED
  BY <1>1, <1>2, <1>3, NobodyMoves DEF LoginInv, TakenOnce, Entitled

LEMMA DeviceAuthCompleteKeeps ==
  ASSUME LoginInv, NEW h \in LoginHandlers, NEW c \in Challenges, DeviceAuthComplete(h, c)
  PROVE  LoginInv'
<1> DEFINE p == challenges[c].for
<1>1. /\ In(h, "free") /\ c \in DOMAIN challenges /\ challenges[c].state = "open"
      /\ challenges' = [challenges EXCEPT ![c].state = "gone"]
      /\ UNCHANGED <<echoes, unverified, records, cookie, loginFaults, stored>>
  BY DEF DeviceAuthComplete
<1>2. /\ Map(challenges') /\ DOMAIN challenges' = DOMAIN challenges
      /\ \A j \in DOMAIN challenges :
               /\ challenges'[j] \in [for : Parties, state : {"open", "gone"}]
               /\ challenges'[j].for = challenges[j].for
      /\ \A b : Taken(b, records, challenges) => Taken(b, records', challenges')
      /\ challenges'[c].state = "gone"
  BY <1>1, ChallengeGoes
<1>3. c \notin Txns /\ c \in Sources /\ p \in Parties /\ (unverified \/ p \in grants)
  BY <1>1, LoginConstants DEF LoginInv, LoginShapes, Entitled, Sources
<1>4. ~Taken(c, records, challenges) /\ Taken(c, records', challenges')
  BY <1>1, <1>2, <1>3 DEF Taken
<1>5. \/ p \in Subjects /\ flow' = [flow EXCEPT ![h] = [pc |-> "find", by |-> c, subject |-> p]]
      \/ p \in DOMAIN accounts /\ flow' = [flow EXCEPT ![h] = Issue(c, p, p)]
      \/ UNCHANGED flow
  BY DEF DeviceAuthComplete
<1> HIDE DEF p
<1>6. /\ flow[h].pc = "free" /\ grants \subseteq grants' /\ grants' = grants
      /\ UNCHANGED <<unverified, accounts, identities, logins, deviceRows, interrupted>>
  BY <1>1 DEF In, stored
<1>7. ASSUME NEW r \in Flows, flow' = [flow EXCEPT ![h] = r], r.by = c,
             r.pc \notin {"free", "grant", "identity", "device"},
             r.pc \in Unsaved => unverified,
             r.pc \in {"issue", "session"} =>
                OfParty(r.account, r.for, identities) /\ Allowed(r.by, r.account, grants)
      PROVE  LoginInv'
  <2>1. flow' \in [LoginHandlers -> Flows]
    BY <1>7 DEF LoginInv, LoginShapes
  <2>2. LoginShapes'
    BY <1>1, <1>2, <2>1 DEF LoginInv, LoginShapes, stored, Map
  <2>3. r.by \in Sources /\ ~Taken(r.by, records, challenges) /\ Taken(r.by, records', challenges')
    BY <1>3, <1>4, <1>7
  <2> QED
    BY <1>2, <1>6, <1>7, <2>2, <2>3, RequestMoves
<1>8. CASE p \in Subjects /\ flow' = [flow EXCEPT ![h] = [pc |-> "find", by |-> c, subject |-> p]]
  <2> DEFINE r == [pc |-> "find", by |-> c, subject |-> p]
  <2>1. r \in Flows /\ r.pc = "find" /\ r.by = c
    BY <1>3, <1>8 DEF Flows, Asked
  <2>2. flow' = [flow EXCEPT ![h] = r]
    BY <1>8
  <2> HIDE DEF r
  <2>3. unverified
    BY <1>3, <1>8, LoginConstants DEF LoginInv, LoginShapes
  <2> QED
    BY <1>7, <2>1, <2>2, <2>3
<1>9. CASE p \in DOMAIN accounts /\ flow' = [flow EXCEPT ![h] = Issue(c, p, p)]
  <2> DEFINE r == Issue(c, p, p)
  <2>1. p \in Accounts /\ p \notin Subjects
    BY <1>9, LoginConstants DEF LoginInv, LoginShapes
  <2>2. r \in Flows /\ r.pc = "issue" /\ r.by = c /\ r.for = p /\ r.account = p
    BY <1>3, <2>1 DEF Flows, Issuing, Issue
  <2>3. flow' = [flow EXCEPT ![h] = r]
    BY <1>9
  <2> HIDE DEF r
  <2>4. OfParty(r.account, r.for, identities) /\ Allowed(r.by, r.account, grants)
    BY <1>3, <2>1, <2>2 DEF OfParty, Allowed
  <2> QED
    BY <1>7, <2>2, <2>3, <2>4 DEF Unsaved
<1>10. CASE UNCHANGED flow
  <2>1. LoginShapes'
    BY <1>1, <1>2, <1>10 DEF LoginInv, LoginShapes, stored, Map
  <2> QED
    BY <1>1, <1>2, <1>10, <2>1, NobodyMoves DEF LoginInv, TakenOnce, Entitled
<1> QED
  BY <1>5, <1>8, <1>9, <1>10

-----------------------------------------------------------------------------
\* A running request goes on, or ends, with nothing but grants changed.
LEMMA GoesOn ==
  ASSUME LoginInv, NEW h \in LoginHandlers, NEW r \in Flows, flow' = [flow EXCEPT ![h] = r],
         UNCHANGED <<echoes, unverified, records, cookie, challenges, accounts, identities, logins,
                     deviceRows, interrupted>>,
         grants \subseteq grants', grants' \subseteq Accounts, scheduled' \subseteq grants',
         loginFaults' \in 0..MaxLoginFaults,
         flow[h].pc # "device", r.pc \notin {"identity", "device"},
         r.pc = "free" \/ (Running(h) /\ r.by = flow[h].by),
         r.pc \in Unsaved /\ r.by \in Challenges => unverified,
         r.pc = "grant" => OfParty(r.account, r.subject, identities),
         r.pc \in {"issue", "session"} =>
            OfParty(r.account, r.for, identities) /\ Allowed(r.by, r.account, grants')
  PROVE  LoginInv'
<1>1. flow' \in [LoginHandlers -> Flows]
  BY DEF LoginInv, LoginShapes
<1>2. LoginShapes'
  BY <1>1 DEF LoginInv, LoginShapes, Map
<1> QED
  BY <1>2, RequestMoves

\* A request that is refused, or fails before it makes a session.
LEMMA RefusedKeeps ==
  ASSUME LoginInv, NEW h \in LoginHandlers, Refuse(h), flow[h].pc # "device",
         loginFaults' \in {loginFaults} \/ Fault,
         UNCHANGED <<echoes, unverified, records, cookie, challenges, accounts, identities, grants,
                     scheduled, logins, deviceRows, interrupted>>
  PROVE  LoginInv'
<1> DEFINE r == Free
<1>1. r \in Flows /\ r.pc = "free"
  BY DEF Flows, Free
<1>2. loginFaults' \in 0..MaxLoginFaults
  BY LoginConstants DEF Fault, LoginInv, LoginShapes
<1>3. flow' = [flow EXCEPT ![h] = r]
  BY DEF Refuse
<1>4. grants' \subseteq Accounts /\ scheduled' \subseteq grants' /\ grants \subseteq grants'
  BY DEF LoginInv, LoginShapes
<1> HIDE DEF r
<1>5. flow' \in [LoginHandlers -> Flows]
  BY <1>1, <1>3 DEF LoginInv, LoginShapes
<1>6. LoginShapes'
  BY <1>2, <1>4, <1>5 DEF LoginInv, LoginShapes, Map
<1> QED
  BY <1>1, <1>3, <1>4, <1>6, RequestMoves DEF Running, Unsaved

LEMMA ExchangeIdentityKeeps ==
  ASSUME LoginInv, NEW h \in LoginHandlers, ExchangeIdentity(h) PROVE LoginInv'
<1>1. flow[h].pc = "exchange" /\ UNCHANGED <<echoes, unverified, records, cookie, challenges, stored>>
  BY DEF ExchangeIdentity, In
<1>2. CASE To(h, "find") /\ UNCHANGED loginFaults
  <2> DEFINE r == [flow[h] EXCEPT !.pc = "find"]
  <2>1. r \in Flows /\ r.pc = "find" /\ r.by = flow[h].by /\ r.by \notin Challenges
    <3>1. flow[h] \in Exchanging
      BY <1>1, FlowFields
    <3> QED
      BY <3>1, LoginConstants DEF Flows, Exchanging, Asked, Sources
  <2>2. flow' = [flow EXCEPT ![h] = r]
    BY <1>2 DEF To
  <2> HIDE DEF r
  <2>3. /\ grants' \subseteq Accounts /\ scheduled' \subseteq grants' /\ grants \subseteq grants'
        /\ loginFaults' \in 0..MaxLoginFaults
        /\ UNCHANGED <<echoes, unverified, records, cookie, challenges, accounts, identities, logins,
                       deviceRows, interrupted>>
    BY <1>1, <1>2 DEF stored, LoginInv, LoginShapes
  <2> QED
    BY <1>1, <2>1, <2>2, <2>3, GoesOn DEF Running
<1>3. CASE Fault /\ Refuse(h)
  BY <1>1, <1>3, RefusedKeeps DEF stored
<1> QED
  BY <1>2, <1>3 DEF ExchangeIdentity

\* A request that has its account goes on to the grant, or to the session.
LEMMA AccountFound ==
  ASSUME LoginInv, NEW h \in LoginHandlers, flow[h].pc \in Unsaved,
         NEW s \in Subjects, NEW a \in Accounts, NEW r, r = WithAccount(flow[h].by, s, a)
  PROVE  /\ r \in Flows /\ r.by = flow[h].by /\ r.account = a
         /\ \/ r.pc = "grant" /\ r.subject = s
            \/ r.pc = "issue" /\ r.for = s /\ Allowed(r.by, a, grants)
<1>1. flow[h].by \in Sources
  BY FlowFields DEF Unsaved, Asked, Creating
<1>2. CASE flow[h].by \in Txns
  <2>1. r = [pc |-> "grant", by |-> flow[h].by, subject |-> s, account |-> a]
    BY <1>2 DEF WithAccount
  <2> QED
    BY <1>2, <2>1 DEF Flows, Saving
<1>3. CASE flow[h].by \notin Txns
  <2>1. r = [pc |-> "issue", by |-> flow[h].by, for |-> s, account |-> a]
    BY <1>3 DEF WithAccount, Issue
  <2>2. r \in Issuing
    BY <1>1, <2>1 DEF Issuing, Parties
  <2>3. flow[h].by \in Challenges /\ unverified
    BY <1>1, <1>3 DEF Sources, LoginInv, Entitled
  <2> QED
    BY <2>1, <2>2, <2>3 DEF Flows, Allowed
<1> QED
  BY <1>2, <1>3

LEMMA FindIdentityKeeps ==
  ASSUME LoginInv, NEW h \in LoginHandlers, FindIdentity(h) PROVE LoginInv'
<1>1. flow[h].pc = "find" /\ UNCHANGED <<echoes, unverified, records, cookie, challenges, loginFaults, stored>>
  BY DEF FindIdentity, In
<1>2. flow[h] \in Asked
  BY <1>1, FlowFields
<1>3. /\ grants' \subseteq Accounts /\ scheduled' \subseteq grants' /\ grants \subseteq grants'
      /\ loginFaults' \in 0..MaxLoginFaults
      /\ UNCHANGED <<echoes, unverified, records, cookie, challenges, accounts, identities, logins,
                     deviceRows, interrupted>>
  BY <1>1 DEF stored, LoginInv, LoginShapes
<1>4. CASE flow[h].subject \in DOMAIN identities
  <2> DEFINE s == flow[h].subject
             a == identities[s]
             r == WithAccount(flow[h].by, s, a)
  <2>1. flow' = [flow EXCEPT ![h] = r]
    BY <1>4 DEF FindIdentity
  <2>2. s \in Subjects /\ a \in Accounts /\ OfParty(a, s, identities)
    BY <1>2, <1>4 DEF Asked, LoginInv, LoginShapes, OneIdentityEach, OfParty
  <2> HIDE DEF a, s, r
  <2>3. /\ r \in Flows /\ r.by = flow[h].by /\ r.account = a
        /\ \/ r.pc = "grant" /\ r.subject = s
           \/ r.pc = "issue" /\ r.for = s /\ Allowed(r.by, a, grants)
    BY <1>1, <2>2, AccountFound DEF Unsaved, r
  <2>4. Allowed(r.by, a, grants) => Allowed(r.by, a, grants')
    BY <1>3 DEF Allowed
  <2>5. /\ r.pc \notin {"identity", "device"} /\ r.pc \notin Unsaved
        /\ r.pc = "grant" => OfParty(r.account, r.subject, identities)
        /\ r.pc \in {"issue", "session"} =>
              OfParty(r.account, r.for, identities) /\ Allowed(r.by, r.account, grants')
    BY <2>2, <2>3, <2>4 DEF Unsaved
  <2> QED
    BY <1>1, <1>3, <2>1, <2>3, <2>5, GoesOn DEF Running
<1>5. CASE flow[h].subject \notin DOMAIN identities
  <2> DEFINE r == [flow[h] EXCEPT !.pc = "account"]
  <2>1. r \in Flows /\ r.pc = "account" /\ r.by = flow[h].by
    BY <1>2 DEF Flows, Asked
  <2>2. flow' = [flow EXCEPT ![h] = r]
    BY <1>5 DEF FindIdentity, To
  <2> HIDE DEF r
  <2>3. r.by \in Challenges => unverified
    BY <1>1, <2>1 DEF LoginInv, Entitled, Unsaved
  <2> QED
    BY <1>1, <1>3, <2>1, <2>2, <2>3, GoesOn DEF Running
<1> QED
  BY <1>4, <1>5

LEMMA SaveGrantKeeps ==
  ASSUME LoginInv, NEW h \in LoginHandlers, SaveGrant(h) PROVE LoginInv'
<1>1. /\ flow[h].pc = "grant"
      /\ UNCHANGED <<echoes, unverified, records, cookie, challenges, accounts, identities, logins,
                     deviceRows, interrupted>>
  BY DEF SaveGrant, In
<1>2. flow[h] \in Saving
  BY <1>1, FlowFields
<1>3. CASE /\ grants' = grants \cup {flow[h].account}
           /\ scheduled' \in {scheduled, scheduled \cup {flow[h].account}}
           /\ flow' = [flow EXCEPT ![h] = Issue(flow[h].by, flow[h].subject, flow[h].account)]
           /\ UNCHANGED loginFaults
  <2> DEFINE r == Issue(flow[h].by, flow[h].subject, flow[h].account)
  <2>1. /\ r \in Flows /\ r.pc = "issue" /\ r.by = flow[h].by
        /\ r.account = flow[h].account /\ r.for = flow[h].subject
    BY <1>2 DEF Flows, Saving, Issuing, Sources, Parties, Issue
  <2>2. flow' = [flow EXCEPT ![h] = r]
    BY <1>3
  <2> HIDE DEF r
  <2>3. flow[h].account \in Accounts
    BY <1>2 DEF Saving
  <2>4. /\ grants' \subseteq Accounts /\ scheduled' \subseteq grants' /\ grants \subseteq grants'
        /\ loginFaults' \in 0..MaxLoginFaults
    BY <1>3, <2>3 DEF LoginInv, LoginShapes
  <2>5. OfParty(r.account, r.for, identities) /\ Allowed(r.by, r.account, grants')
    BY <1>1, <1>3, <2>1 DEF LoginInv, Entitled, Allowed
  <2>6. r.pc \notin Unsaved
    BY <2>1 DEF Unsaved
  <2> QED
    BY <1>1, <1>3, <2>1, <2>2, <2>4, <2>5, <2>6, GoesOn DEF Running
<1>4. CASE Fault /\ Refuse(h) /\ UNCHANGED <<grants, scheduled>>
  BY <1>1, <1>4, RefusedKeeps DEF stored
<1> QED
  BY <1>3, <1>4 DEF SaveGrant

LEMMA IssueSessionKeeps ==
  ASSUME LoginInv, NEW h \in LoginHandlers, IssueSession(h) PROVE LoginInv'
<1>1. flow[h].pc = "issue" /\ UNCHANGED <<echoes, unverified, records, cookie, challenges, loginFaults, stored>>
  BY DEF IssueSession, In
<1>2. flow[h] \in Issuing
  BY <1>1, FlowFields
<1>3. CASE To(h, "session")
  <2> DEFINE r == [flow[h] EXCEPT !.pc = "session"]
  <2>1. /\ r \in Flows /\ r.pc = "session" /\ r.by = flow[h].by
        /\ r.account = flow[h].account /\ r.for = flow[h].for
    BY <1>2 DEF Flows, Issuing
  <2>2. flow' = [flow EXCEPT ![h] = r]
    BY <1>3 DEF To
  <2> HIDE DEF r
  <2>3. /\ grants' \subseteq Accounts /\ scheduled' \subseteq grants' /\ grants \subseteq grants'
        /\ loginFaults' \in 0..MaxLoginFaults
        /\ UNCHANGED <<echoes, unverified, records, cookie, challenges, accounts, identities, logins,
                       deviceRows, interrupted>>
    BY <1>1 DEF stored, LoginInv, LoginShapes
  <2>4. OfParty(r.account, r.for, identities) /\ Allowed(r.by, r.account, grants')
    BY <1>1, <2>1, <2>3 DEF LoginInv, Entitled, Allowed
  <2>5. r.pc \notin Unsaved
    BY <2>1 DEF Unsaved
  <2> QED
    BY <1>1, <2>1, <2>2, <2>3, <2>4, <2>5, GoesOn DEF Running
<1>4. CASE Refuse(h)
  BY <1>1, <1>4, RefusedKeeps DEF stored
<1> QED
  BY <1>3, <1>4 DEF IssueSession

-----------------------------------------------------------------------------
LEMMA CreateAccountKeeps ==
  ASSUME LoginInv, NEW h \in LoginHandlers, CreateAccount(h) PROVE LoginInv'
<1>1. /\ flow[h].pc = "account"
      /\ UNCHANGED <<echoes, unverified, records, cookie, challenges, loginFaults, identities, grants,
                     scheduled, logins, deviceRows, interrupted>>
  BY DEF CreateAccount, In
<1>2. flow[h] \in Asked
  BY <1>1, FlowFields
<1>3. PICK a \in Accounts \ DOMAIN accounts :
          /\ accounts' = Put(accounts, a, "active")
          /\ flow' = [flow EXCEPT ![h] = [pc |-> "identity", by |-> flow[h].by,
                                          subject |-> flow[h].subject, account |-> a]]
  BY DEF CreateAccount
<1> DEFINE r == [pc |-> "identity", by |-> flow[h].by, subject |-> flow[h].subject, account |-> a]
<1>4. r \in Flows /\ r.pc = "identity" /\ r.by = flow[h].by /\ r.account = a
  BY <1>2 DEF Flows, Creating, Asked
<1>5. flow' = [flow EXCEPT ![h] = r]
  BY <1>3
<1> HIDE DEF r
<1>6. flow' = [g \in LoginHandlers |-> IF g = h THEN r ELSE flow[g]]
  BY <1>5 DEF LoginInv, LoginShapes
<1>7. Map(accounts') /\ DOMAIN accounts' = DOMAIN accounts \cup {a}
  BY <1>3 DEF Put, Map
<1>8. LoginShapes'
  <2>1. flow' \in [LoginHandlers -> Flows]
    BY <1>4, <1>5 DEF LoginInv, LoginShapes
  <2> QED
    BY <1>1, <1>7, <2>1 DEF LoginInv, LoginShapes, Map
<1>9. OneIdentityEach'
  <2>1. \A g \in LoginHandlers : g # h => flow'[g] = flow[g]
    BY <1>6
  <2>2. flow'[h] = r
    BY <1>6
  <2>3. \A s \in DOMAIN identities : identities[s] \in DOMAIN accounts
    BY DEF LoginInv, OneIdentityEach
  <2>4. \A g \in LoginHandlers : In(g, "identity") => flow[g].account \in DOMAIN accounts
    BY DEF LoginInv, OneIdentityEach
  <2>5. a \notin DOMAIN accounts
    BY <1>3
  <2>6. \A g \in LoginHandlers : In(g, "identity")' =>
          /\ flow'[g].account \in DOMAIN accounts'
          /\ \A s \in DOMAIN identities : identities[s] # flow'[g].account
    BY <1>4, <1>7, <2>1, <2>2, <2>3, <2>4, <2>5 DEF LoginInv, OneIdentityEach, In
  <2>7. \A f, g \in LoginHandlers :
          In(f, "identity")' /\ In(g, "identity")' /\ flow'[f].account = flow'[g].account => f = g
    BY <1>4, <2>1, <2>2, <2>4, <2>5 DEF LoginInv, OneIdentityEach, In
  <2> QED
    BY <1>1, <1>7, <2>3, <2>6, <2>7 DEF LoginInv, OneIdentityEach
<1>10. r.by \in Challenges => unverified
  BY <1>1, <1>4 DEF LoginInv, Entitled, Unsaved
<1> QED
  BY <1>1, <1>4, <1>5, <1>8, <1>9, <1>10, RequestSteps DEF Running

LEMMA CreateIdentityKeeps ==
  ASSUME LoginInv, NEW h \in LoginHandlers, CreateIdentity(h) PROVE LoginInv'
<1>1. /\ flow[h].pc = "identity"
      /\ UNCHANGED <<echoes, unverified, records, cookie, challenges, loginFaults, accounts, grants,
                     scheduled, logins, deviceRows, interrupted>>
  BY DEF CreateIdentity, In
<1>2. flow[h] \in Creating
  BY <1>1, FlowFields
<1> DEFINE s == flow[h].subject
           mine == IF s \in DOMAIN identities THEN identities[s] ELSE flow[h].account
           r == WithAccount(flow[h].by, s, mine)
<1>3. identities' = Put(identities, s, mine) /\ flow' = [flow EXCEPT ![h] = r]
  BY DEF CreateIdentity
<1>4. /\ s \in Subjects /\ mine \in DOMAIN accounts
      /\ mine = IF s \in DOMAIN identities THEN identities[s] ELSE flow[h].account
  BY <1>1, <1>2 DEF Creating, LoginInv, OneIdentityEach, In
<1> HIDE DEF s, mine
<1>5. mine \in Accounts
  BY <1>4 DEF LoginInv, LoginShapes
<1> HIDE DEF r
<1>6. /\ r \in Flows /\ r.by = flow[h].by /\ r.account = mine
      /\ \/ r.pc = "grant" /\ r.subject = s
         \/ r.pc = "issue" /\ r.for = s /\ Allowed(r.by, mine, grants)
  BY <1>1, <1>4, <1>5, AccountFound DEF Unsaved, r
<1>7. flow' = [g \in LoginHandlers |-> IF g = h THEN r ELSE flow[g]]
  BY <1>3 DEF LoginInv, LoginShapes
<1>8. identities' = [j \in DOMAIN identities \cup {s} |-> IF j = s THEN mine ELSE identities[j]]
  BY <1>3 DEF Put
<1>9. /\ Map(identities') /\ DOMAIN identities' = DOMAIN identities \cup {s}
      /\ identities'[s] = mine /\ \A j \in DOMAIN identities : identities'[j] = identities[j]
  BY <1>4, <1>8 DEF Map
<1>10. LoginShapes'
  <2>1. flow' \in [LoginHandlers -> Flows]
    BY <1>3, <1>6 DEF LoginInv, LoginShapes
  <2> QED
    BY <1>1, <1>4, <1>9, <2>1 DEF LoginInv, LoginShapes, Map
<1>11. OneIdentityEach'
  <2>1. \A g \in LoginHandlers : g # h => flow'[g] = flow[g]
    BY <1>7
  <2>2. flow'[h].pc # "identity"
    BY <1>6, <1>7
  <2>3. \A j \in DOMAIN identities' : identities'[j] \in DOMAIN accounts'
    BY <1>1, <1>4, <1>9 DEF LoginInv, OneIdentityEach
  <2>4. \A j, k \in DOMAIN identities' : identities'[j] = identities'[k] => j = k
    <3>1. s \notin DOMAIN identities => \A j \in DOMAIN identities : identities[j] # mine
      BY <1>1, <1>4 DEF LoginInv, OneIdentityEach, In
    <3> QED
      BY <1>9, <3>1 DEF LoginInv, OneIdentityEach
  <2>5. \A g \in LoginHandlers : In(g, "identity")' =>
          /\ flow'[g].account \in DOMAIN accounts'
          /\ \A j \in DOMAIN identities' : identities'[j] # flow'[g].account
    <3> SUFFICES ASSUME NEW g \in LoginHandlers, flow'[g].pc = "identity"
                 PROVE  /\ flow'[g].account \in DOMAIN accounts'
                        /\ \A j \in DOMAIN identities' : identities'[j] # flow'[g].account
      BY DEF In
    <3>1. g # h /\ flow'[g] = flow[g]
      BY <2>1, <2>2
    <3>2. /\ flow[g].account \in DOMAIN accounts
          /\ \A j \in DOMAIN identities : identities[j] # flow[g].account
          /\ flow[g].account # flow[h].account
      BY <1>1, <3>1 DEF LoginInv, OneIdentityEach, In
    <3>3. mine # flow[g].account
      BY <1>4, <3>2
    <3> QED
      BY <1>1, <1>9, <3>1, <3>2, <3>3
  <2>6. \A f, g \in LoginHandlers :
          In(f, "identity")' /\ In(g, "identity")' /\ flow'[f].account = flow'[g].account => f = g
    BY <2>1, <2>2 DEF LoginInv, OneIdentityEach, In
  <2> QED
    BY <2>3, <2>4, <2>5, <2>6 DEF OneIdentityEach
<1>12. \A a, p : OfParty(a, p, identities) => OfParty(a, p, identities')
  BY <1>9 DEF OfParty
<1>13. OfParty(mine, s, identities')
  BY <1>4, <1>9 DEF OfParty
<1>14. /\ r.pc \notin Unsaved /\ r.pc # "device"
       /\ r.pc = "grant" => OfParty(r.account, r.subject, identities')
       /\ r.pc \in {"issue", "session"} =>
             OfParty(r.account, r.for, identities') /\ Allowed(r.by, r.account, grants')
  BY <1>1, <1>6, <1>13 DEF Unsaved
<1> QED
  BY <1>1, <1>3, <1>6, <1>10, <1>11, <1>12, <1>14, RequestSteps DEF Running

LEMMA MakeSessionKeeps ==
  ASSUME LoginInv, NEW h \in LoginHandlers, MakeSession(h) PROVE LoginInv'
<1> DEFINE n == Cardinality(logins) + 1
           l == [number |-> n, by |-> flow[h].by, for |-> flow[h].for, live |-> TRUE,
                 account |-> flow[h].account]
           r == [pc |-> "device", by |-> flow[h].by, number |-> n]
<1>1. /\ flow[h].pc = "session" /\ Cardinality(logins) < MaxSessions
      /\ logins' = logins \cup {l} /\ flow' = [flow EXCEPT ![h] = r]
      /\ UNCHANGED <<echoes, unverified, records, cookie, challenges, loginFaults, accounts, identities,
                     grants, scheduled, deviceRows, interrupted>>
  BY DEF MakeSession, In
<1>2. flow[h] \in Issuing
  BY <1>1, FlowFields
<1>3. IsFiniteSet(logins')
  <2>1. IsFiniteSet(logins)
    BY DEF LoginInv, LoginShapes
  <2> HIDE DEF l
  <2>2. IsFiniteSet(logins \cup {l})
    BY <2>1, FS_AddElement
  <2> QED
    BY <1>1, <2>2
<1>4. n \in 1..MaxSessions
  <2>1. Cardinality(logins) \in Nat
    BY FS_CardinalityType DEF LoginInv, LoginShapes
  <2> QED
    BY <1>1, <2>1, LoginConstants
<1> HIDE DEF n
<1>5. r \in Flows /\ r.pc = "device" /\ r.by = flow[h].by /\ r.number = n
  BY <1>2, <1>4 DEF Flows, Storing, Issuing
<1>6. /\ l \in SessionShape /\ l.by = flow[h].by /\ l.for = flow[h].for
      /\ l.number = n /\ l.account = flow[h].account
  BY <1>2, <1>4 DEF Issuing, SessionShape
<1> HIDE DEF r, l
<1>7. flow' = [g \in LoginHandlers |-> IF g = h THEN r ELSE flow[g]]
  BY <1>1 DEF LoginInv, LoginShapes
<1>8. flow'[h] = r /\ \A g \in LoginHandlers : g # h => flow'[g] = flow[g]
  BY <1>7
<1>9. LoginShapes'
  <2>1. flow' \in [LoginHandlers -> Flows]
    BY <1>1, <1>5 DEF LoginInv, LoginShapes
  <2> QED
    BY <1>1, <1>3, <1>6, <2>1 DEF LoginInv, LoginShapes, Map
<1>10. /\ Taken(flow[h].by, records, challenges)
       /\ \A g \in LoginHandlers : g # h /\ Running(g) => flow[g].by # flow[h].by
       /\ \A k \in logins : k.by # flow[h].by
  BY <1>1 DEF LoginInv, TakenOnce, Running
<1>11. TakenOnce'
  <2>1. \A g \in LoginHandlers : Running(g)' => Taken(flow'[g].by, records', challenges')
    BY <1>1, <1>5, <1>8, <1>10 DEF LoginInv, TakenOnce, Running
  <2>2. \A k \in logins' : Taken(k.by, records', challenges')
    BY <1>1, <1>6, <1>10 DEF LoginInv, TakenOnce
  <2>3. \A f, g \in LoginHandlers : Running(f)' /\ Running(g)' /\ flow'[f].by = flow'[g].by => f = g
    BY <1>5, <1>8, <1>10 DEF LoginInv, TakenOnce, Running
  <2>4. \A g \in LoginHandlers, k \in logins' :
           Running(g)' /\ flow'[g].pc # "device" => k.by # flow'[g].by
    BY <1>1, <1>5, <1>6, <1>8, <1>10 DEF LoginInv, TakenOnce, Running
  <2>5. \A j, k \in logins' : j.by = k.by => j = k
    BY <1>1, <1>6, <1>10 DEF LoginInv, TakenOnce
  <2> QED
    BY <2>1, <2>2, <2>3, <2>4, <2>5 DEF TakenOnce
<1>12. OneIdentityEach'
  BY <1>1, <1>5, <1>8 DEF LoginInv, OneIdentityEach, In
<1>13. Entitled'
  <2>1. /\ OfParty(flow[h].account, flow[h].for, identities)
        /\ Allowed(flow[h].by, flow[h].account, grants)
    BY <1>1 DEF LoginInv, Entitled
  <2> QED
    BY <1>1, <1>5, <1>6, <1>8, <2>1 DEF LoginInv, Entitled, OfParty, Allowed, Unsaved
<1>14. \A k \in logins' : Settled(k)'
  <2> SUFFICES ASSUME NEW k \in logins'
               PROVE  \/ k.number \in deviceRows \cup interrupted
                      \/ \E g \in LoginHandlers : flow'[g].pc = "device" /\ flow'[g].number = k.number
                      \/ ~k.live
    BY <1>1 DEF Settled, In
  <2>1. CASE k = l
    BY <1>5, <1>6, <1>8, <2>1
  <2>2. CASE k \in logins
    <3>1. Settled(k)
      BY <2>2 DEF LoginInv
    <3>2. \A g \in LoginHandlers : In(g, "device") => g # h
      BY <1>1 DEF In
    <3> QED
      BY <1>8, <3>1, <3>2 DEF Settled, In
  <2> QED
    BY <1>1, <2>1, <2>2
<1> QED
  BY <1>9, <1>11, <1>12, <1>13, <1>14 DEF LoginInv

\* Sessions that end: each is as it was, or no longer live.
LEMMA SessionsEnd ==
  ASSUME LoginInv, NEW S, S \subseteq logins,
         logins' = {IF l \in S THEN [l EXCEPT !.live = FALSE] ELSE l : l \in logins}
  PROVE  /\ \A k \in logins' : \E l \in logins :
               /\ k.by = l.by /\ k.for = l.for /\ k.number = l.number /\ k.account = l.account
               /\ k.live => l.live /\ l \notin S
               /\ k = IF l \in S THEN [l EXCEPT !.live = FALSE] ELSE l
         /\ \A k \in logins' : k \in SessionShape
         /\ IsFiniteSet(logins')
         /\ \A j, k \in logins' : j.by = k.by => j = k
<1> DEFINE AfterEnd(l) == IF l \in S THEN [l EXCEPT !.live = FALSE] ELSE l
<1>1. \A l \in logins : l \in SessionShape
  BY DEF LoginInv, LoginShapes
<1>2. ASSUME NEW l \in logins
      PROVE  /\ AfterEnd(l) \in SessionShape /\ AfterEnd(l).by = l.by /\ AfterEnd(l).number = l.number
             /\ AfterEnd(l).account = l.account /\ AfterEnd(l).for = l.for
             /\ AfterEnd(l).live => l.live /\ l \notin S
  <2>1. CASE l \in S
    <3> DEFINE e == [l EXCEPT !.live = FALSE]
    <3>1. /\ e \in SessionShape /\ e.by = l.by /\ e.for = l.for /\ e.number = l.number
          /\ e.account = l.account /\ e.live = FALSE
      BY <1>1 DEF SessionShape
    <3>2. AfterEnd(l) = e
      BY <2>1
    <3> HIDE DEF e, AfterEnd
    <3> QED
      BY <3>1, <3>2
  <2>2. CASE l \notin S
    <3>1. AfterEnd(l) = l
      BY <2>2
    <3> HIDE DEF AfterEnd
    <3> QED
      BY <1>1, <2>2, <3>1
  <2> QED
    BY <2>1, <2>2
<1>3. logins' = {AfterEnd(l) : l \in logins}
  OBVIOUS
<1>4. IsFiniteSet(logins')
  <2>1. IsFiniteSet(logins)
    BY DEF LoginInv, LoginShapes
  <2> DEFINE f == [l \in logins |-> AfterEnd(l)]
  <2>2. f \in Surjection(logins, logins')
    BY <1>3 DEF Surjection
  <2> QED
    BY <2>1, <2>2, FS_Surjection
<1>5. \A k \in logins' : \E l \in logins : k = AfterEnd(l)
  BY <1>3
<1>6. \A j, k \in logins' : j.by = k.by => j = k
  <2> HIDE DEF AfterEnd
  <2> SUFFICES ASSUME NEW j \in logins', NEW k \in logins', j.by = k.by PROVE j = k
    OBVIOUS
  <2>1. PICK a \in logins : j = AfterEnd(a)
    BY <1>5
  <2>2. PICK b \in logins : k = AfterEnd(b)
    BY <1>5
  <2>3. a.by = b.by
    BY <1>2, <2>1, <2>2
  <2>4. a = b
    BY <2>3 DEF LoginInv, TakenOnce
  <2> QED
    BY <2>1, <2>2, <2>4
<1>7. \A k \in logins' : \E l \in logins :
               /\ k.by = l.by /\ k.for = l.for /\ k.number = l.number /\ k.account = l.account
               /\ k.live => l.live /\ l \notin S
               /\ k = IF l \in S THEN [l EXCEPT !.live = FALSE] ELSE l
  <2> SUFFICES ASSUME NEW k \in logins'
               PROVE  \E l \in logins : 
                        /\ k.by = l.by /\ k.for = l.for /\ k.number = l.number /\ k.account = l.account
                        /\ k.live => l.live /\ l \notin S
                        /\ k = AfterEnd(l)
    OBVIOUS
  <2> HIDE DEF AfterEnd
  <2> QED
    BY <1>2, <1>5
<1>8. \A k \in logins' : k \in SessionShape
  <2> HIDE DEF AfterEnd
  <2> QED
    BY <1>2, <1>5
<1> QED
  BY <1>4, <1>6, <1>7, <1>8

\* Sessions that end disturb nothing else.
LEMMA EndingKeeps ==
  ASSUME LoginInv, NEW S, S \subseteq logins,
         logins' = {IF l \in S THEN [l EXCEPT !.live = FALSE] ELSE l : l \in logins},
         UNCHANGED <<echoes, unverified, records, cookie, challenges, identities, grants, scheduled>>,
         Map(accounts'), DOMAIN accounts' = DOMAIN accounts,
         loginFaults' \in 0..MaxLoginFaults,
         flow' \in [LoginHandlers -> Flows],
         \A h \in LoginHandlers :
            flow'[h] = flow[h] \/ flow'[h].pc = "free",
         deviceRows \subseteq deviceRows', interrupted \subseteq interrupted',
         \A h \in LoginHandlers, l \in logins :
            flow[h].pc = "device" /\ flow[h].number = l.number /\ l \notin S /\ flow'[h] # flow[h]
               => l.number \in deviceRows' \cup interrupted'
  PROVE  LoginInv'
<1>1. /\ \A k \in logins' : \E l \in logins :
               /\ k.by = l.by /\ k.for = l.for /\ k.number = l.number /\ k.account = l.account
               /\ k.live => l.live /\ l \notin S
      /\ \A k \in logins' : k \in SessionShape
      /\ IsFiniteSet(logins')
      /\ \A j, k \in logins' : j.by = k.by => j = k
  BY SessionsEnd
<1>2. LoginShapes'
  BY <1>1 DEF LoginInv, LoginShapes, Map
<1>3. TakenOnce'
  <2>1. \A h \in LoginHandlers : Running(h)' => Taken(flow'[h].by, records', challenges')
    BY DEF LoginInv, TakenOnce, Running
  <2>2. \A k \in logins' : Taken(k.by, records', challenges')
    BY <1>1 DEF LoginInv, TakenOnce
  <2>3. \A g, h \in LoginHandlers : Running(g)' /\ Running(h)' /\ flow'[g].by = flow'[h].by => g = h
    BY DEF LoginInv, TakenOnce, Running
  <2>4. \A h \in LoginHandlers, k \in logins' :
           Running(h)' /\ flow'[h].pc # "device" => k.by # flow'[h].by
    BY <1>1 DEF LoginInv, TakenOnce, Running
  <2> QED
    BY <1>1, <2>1, <2>2, <2>3, <2>4 DEF TakenOnce
<1>4. OneIdentityEach'
  BY DEF LoginInv, OneIdentityEach, In
<1>5. Entitled'
  <2>1. \A h \in LoginHandlers :
          /\ flow'[h].pc \in Unsaved /\ flow'[h].by \in Challenges => unverified
          /\ flow'[h].pc = "grant" => OfParty(flow'[h].account, flow'[h].subject, identities)
          /\ flow'[h].pc \in {"issue", "session"} =>
                /\ OfParty(flow'[h].account, flow'[h].for, identities)
                /\ Allowed(flow'[h].by, flow'[h].account, grants)
    BY DEF LoginInv, Entitled, Unsaved
  <2>2. \A k \in logins' : /\ OfParty(k.account, k.for, identities)
                            /\ Allowed(k.by, k.account, grants)
    BY <1>1 DEF LoginInv, Entitled
  <2> QED
    BY <2>1, <2>2 DEF LoginInv, Entitled, OfParty, Allowed
<1>6. \A k \in logins' : Settled(k)'
  <2> SUFFICES ASSUME NEW k \in logins', k.live
               PROVE  \/ k.number \in deviceRows' \cup interrupted'
                      \/ \E g \in LoginHandlers : flow'[g].pc = "device" /\ flow'[g].number = k.number
    BY DEF Settled, In
  <2>1. PICK l \in logins : k.number = l.number /\ l.live /\ l \notin S
    BY <1>1
  <2>2. Settled(l)
    BY DEF LoginInv
  <2> QED
    BY <2>1, <2>2 DEF Settled, In
<1> QED
  BY <1>2, <1>3, <1>4, <1>5, <1>6 DEF LoginInv

\* Requests that end, with the sessions as they are.
LEMMA StoppingKeeps ==
  ASSUME LoginInv, UNCHANGED <<echoes, unverified, cookie, challenges, accounts, identities, grants,
                               scheduled, logins>>,
         records' = records \/ records' = << >>,
         loginFaults' \in 0..MaxLoginFaults,
         flow' \in [LoginHandlers -> Flows],
         \A h \in LoginHandlers : flow'[h] = flow[h] \/ flow'[h].pc = "free",
         deviceRows \subseteq deviceRows', interrupted \subseteq interrupted',
         \A h \in LoginHandlers :
            flow[h].pc = "device" /\ flow'[h] # flow[h]
               => flow[h].number \in deviceRows' \cup interrupted'
  PROVE  LoginInv'
<1>1. /\ Map(records') /\ DOMAIN records' \subseteq DOMAIN records
      /\ \A t \in DOMAIN records' :
            records'[t] \in [kind : {"browser", "native"}, expired : BOOLEAN,
                            code : Subjects \cup {"none"}]
  <2>1. CASE records' = records
    BY <2>1 DEF LoginInv, LoginShapes, Map
  <2>2. CASE records' = << >>
    <3>1. DOMAIN records' = {}
      BY <2>2
    <3> QED
      BY <2>2, <3>1 DEF Map
  <2> QED
    BY <2>1, <2>2
<1>2. LoginShapes'
  BY <1>1 DEF LoginInv, LoginShapes, Map
<1>3. \A b : Taken(b, records, challenges) => Taken(b, records', challenges')
  BY <1>1 DEF Taken
<1>4. TakenOnce'
  BY <1>3 DEF LoginInv, TakenOnce, Running
<1>5. OneIdentityEach' /\ Entitled'
  BY DEF LoginInv, OneIdentityEach, Entitled, OfParty, Allowed, Unsaved, In
<1>6. \A l \in logins' : Settled(l)'
  BY DEF LoginInv, Settled, In
<1> QED
  BY <1>2, <1>4, <1>5, <1>6 DEF LoginInv

LEMMA StoreDeviceKeeps ==
  ASSUME LoginInv, NEW h \in LoginHandlers, StoreDevice(h) PROVE LoginInv'
<1>1. /\ flow[h].pc = "device" /\ flow' = [flow EXCEPT ![h] = Free]
      /\ UNCHANGED <<echoes, unverified, records, cookie, challenges, accounts, identities, grants, scheduled>>
  BY DEF StoreDevice, Refuse, In
<1>2. Free \in Flows /\ Free.pc = "free"
  BY DEF Flows, Free
<1>3. /\ flow' \in [LoginHandlers -> Flows]
      /\ flow'[h].pc = "free"
      /\ \A g \in LoginHandlers : g # h => flow'[g] = flow[g]
  BY <1>1, <1>2 DEF LoginInv, LoginShapes
<1> DEFINE n == flow[h].number
<1>4. CASE /\ deviceRows' = deviceRows \cup {n}
           /\ UNCHANGED <<logins, loginFaults, interrupted>>
  <2>1. loginFaults' \in 0..MaxLoginFaults
    BY <1>4 DEF LoginInv, LoginShapes
  <2>2. \A g \in LoginHandlers :
            flow[g].pc = "device" /\ flow'[g] # flow[g]
               => flow[g].number \in deviceRows' \cup interrupted'
    BY <1>3, <1>4
  <2> QED
    BY <1>1, <1>3, <1>4, <2>1, <2>2, StoppingKeeps
<1>5. CASE Fault /\ logins' = Ended(n) /\ UNCHANGED <<deviceRows, interrupted>>
  <2> DEFINE S == {l \in logins : l.number = n}
  <2>1. loginFaults' \in 0..MaxLoginFaults
    BY <1>5, LoginConstants DEF Fault, LoginInv, LoginShapes
  <2>2. logins' = {IF l \in S THEN [l EXCEPT !.live = FALSE] ELSE l : l \in logins} /\ S \subseteq logins
    BY <1>5 DEF Ended
  <2>3. \A l \in logins : l.number = n => l \in S
    OBVIOUS
  <2> HIDE DEF S
  <2>4. \A g \in LoginHandlers, l \in logins :
            flow[g].pc = "device" /\ flow[g].number = l.number /\ l \notin S /\ flow'[g] # flow[g]
               => l.number \in deviceRows' \cup interrupted'
    <3> SUFFICES ASSUME NEW g \in LoginHandlers, NEW l \in logins,
                        flow[g].number = l.number, l \notin S, flow'[g] # flow[g]
                 PROVE  FALSE
      OBVIOUS
    <3>1. g = h
      BY <1>3
    <3> QED
      BY <2>3, <3>1
  <2>5. Map(accounts') /\ DOMAIN accounts' = DOMAIN accounts
    BY <1>1 DEF LoginInv, LoginShapes, Map
  <2> QED
    BY <1>1, <1>3, <1>5, <2>1, <2>2, <2>4, <2>5, EndingKeeps
<1>6. CASE /\ Fault /\ interrupted' = interrupted \cup {n}
           /\ UNCHANGED <<deviceRows, logins>>
  <2>1. loginFaults' \in 0..MaxLoginFaults
    BY <1>6, LoginConstants DEF Fault, LoginInv, LoginShapes
  <2>2. \A g \in LoginHandlers :
            flow[g].pc = "device" /\ flow'[g] # flow[g]
               => flow[g].number \in deviceRows' \cup interrupted'
    BY <1>3, <1>6
  <2> QED
    BY <1>1, <1>3, <1>6, <2>1, <2>2, StoppingKeeps
<1> QED
  BY <1>4, <1>5, <1>6 DEF StoreDevice

LEMMA AccountRevokedKeeps == ASSUME LoginInv, AccountRevoked PROVE LoginInv'
<1>1. PICK a \in DOMAIN accounts :
          /\ accounts' = [accounts EXCEPT ![a] = "revoked"]
          /\ logins' = {IF l.account = a THEN [l EXCEPT !.live = FALSE] ELSE l : l \in logins}
  BY DEF AccountRevoked
<1>2. UNCHANGED <<echoes, unverified, records, cookie, challenges, identities, grants, scheduled,
                   deviceRows, flow, interrupted>>
  BY DEF AccountRevoked
<1>3. loginFaults' \in 0..MaxLoginFaults
  BY LoginConstants DEF AccountRevoked, Fault, LoginInv, LoginShapes
<1>4. Map(accounts') /\ DOMAIN accounts' = DOMAIN accounts
  <2>1. accounts' = [j \in DOMAIN accounts |-> IF j = a THEN "revoked" ELSE accounts[j]]
    BY <1>1 DEF LoginInv, LoginShapes, Map
  <2> QED
    BY <2>1 DEF Map
<1> DEFINE S == {l \in logins : l.account = a}
<1>5. logins' = {IF l \in S THEN [l EXCEPT !.live = FALSE] ELSE l : l \in logins} /\ S \subseteq logins
  BY <1>1
<1> HIDE DEF S
<1>6. flow' \in [LoginHandlers -> Flows]
  BY <1>2 DEF LoginInv, LoginShapes
<1>7. \A h \in LoginHandlers : flow'[h] = flow[h]
  BY <1>2
<1>8. /\ deviceRows \subseteq deviceRows' /\ interrupted \subseteq interrupted'
      /\ UNCHANGED <<echoes, unverified, records, cookie, challenges, identities, grants, scheduled>>
  BY <1>2
<1> QED
  BY <1>3, <1>4, <1>5, <1>6, <1>7, <1>8, EndingKeeps

LEMMA LoginCrashKeeps == ASSUME LoginInv, LoginCrash PROVE LoginInv'
<1>1. /\ flow' = [h \in LoginHandlers |-> Free]
      /\ interrupted' = interrupted \cup {flow[h].number : h \in {g \in LoginHandlers : In(g, "device")}}
      /\ records' = << >>
      /\ UNCHANGED <<echoes, unverified, cookie, challenges, accounts, identities, grants, scheduled, logins,
                     deviceRows>>
  BY DEF LoginCrash
<1>2. Free \in Flows /\ Free.pc = "free"
  BY DEF Flows, Free
<1>3. loginFaults' \in 0..MaxLoginFaults
  BY LoginConstants DEF LoginCrash, Fault, LoginInv, LoginShapes
<1>4. flow' \in [LoginHandlers -> Flows] /\ \A h \in LoginHandlers : flow'[h].pc = "free"
  BY <1>1, <1>2
<1>5. \A h \in LoginHandlers : flow[h].pc = "device" => flow[h].number \in interrupted'
  BY <1>1 DEF In
<1> QED
  BY <1>1, <1>3, <1>4, <1>5, StoppingKeeps

LEMMA LoginInductive == LoginInv /\ [LoginNext]_loginVars => LoginInv'
<1> SUFFICES ASSUME LoginInv, [LoginNext]_loginVars PROVE LoginInv'
  OBVIOUS
<1>1. CASE AccountRevoked \/ LoginCrash
  BY <1>1, AccountRevokedKeeps, LoginCrashKeeps
<1>2. ASSUME NEW kind \in {"browser", "native"}, SsoStart(kind) PROVE LoginInv'
  BY <1>2, SsoStartKeeps
<1>3. ASSUME NEW c \in Challenges, DeviceAuthStart(c) \/ ChallengeExpires(c) PROVE LoginInv'
  BY <1>3, DeviceAuthStartKeeps, ChallengeExpiresKeeps
<1>4. ASSUME NEW t \in Txns, TxnExpires(t) \/ \E s \in Subjects : StageNativeCallback(t, s)
      PROVE  LoginInv'
  BY <1>4, TxnExpiresKeeps, StageKeeps
<1>5. ASSUME NEW h \in LoginHandlers,
             \/ ExchangeIdentity(h) \/ FindIdentity(h) \/ CreateAccount(h) \/ CreateIdentity(h)
             \/ SaveGrant(h) \/ IssueSession(h) \/ MakeSession(h) \/ StoreDevice(h)
      PROVE  LoginInv'
  BY <1>5, ExchangeIdentityKeeps, FindIdentityKeeps, CreateAccountKeeps, CreateIdentityKeeps,
     SaveGrantKeeps, IssueSessionKeeps, MakeSessionKeeps, StoreDeviceKeeps
<1>6. ASSUME NEW h \in LoginHandlers, NEW c \in Challenges, DeviceAuthComplete(h, c)
      PROVE  LoginInv'
  BY <1>6, DeviceAuthCompleteKeeps
<1>7. ASSUME NEW h \in LoginHandlers, NEW t \in Txns,
             \/ CompleteNative(h, t)
             \/ \E s \in Subjects : BrowserCallback(h, t, s) \/ ExchangeDirect(h, t, s)
      PROVE  LoginInv'
  BY <1>7, CompleteNativeKeeps, BrowserCallbackKeeps, ExchangeDirectKeeps
<1>8. CASE UNCHANGED loginVars
  <2>1. LoginShapes'
    BY <1>8 DEF loginVars, LoginInv, LoginShapes, Map
  <2>2. UNCHANGED <<unverified, flow, stored>> /\ UNCHANGED <<records, challenges, grants>>
    BY <1>8 DEF loginVars, stored
  <2> QED
    BY <2>1, <2>2, NobodyMoves DEF LoginInv, TakenOnce, Entitled
<1> QED
  BY <1>1, <1>2, <1>3, <1>4, <1>5, <1>6, <1>7, <1>8 DEF LoginNext

\* However callbacks, polls, races for an identity, revocations and restarts of any
\* number of requests interleave: a transaction or a challenge makes one session
\* at most, each identity has an account of its own, a session is of the account
\* of the character that signed in, or that the challenge was made for, and has
\* its grant unless it is of a challenge and the operator opted in to unverified
\* ones, and a live session has its device unless its login still runs or was cut
\* short.
THEOREM LoginsStaySound == LoginSpec => []LoginsAreSound
<1>1. LoginSpec => []LoginInv
  BY LoginInitially, LoginInductive, PTL DEF LoginSpec
<1> QED
  BY <1>1, LoginInvIsEnough, PTL

-----------------------------------------------------------------------------
(* Routes: the search. *)

\* What the search has met is a tree of passable systems around its start.
Tree(v, q, s) ==
    /\ s.depth \in [Met(s) -> Nat] /\ DOMAIN s.prev \subseteq Met(s)
    /\ q.from \in Met(s) /\ s.depth[q.from] = 0
    /\ \A n \in Met(s) : Passable(v, q, n) /\ s.depth[n] <= q.jumps
    /\ \A n \in Met(s) \ {q.from} :
          /\ n \in DOMAIN s.prev /\ s.prev[n] \in Met(s)
          /\ n \in Neighbors(v, s.prev[n]) /\ s.depth[n] = s.depth[s.prev[n]] + 1

\* The queue is in the order of depth, nothing is deeper than the next level, and
\* what has left the queue has met its neighbours, unless it is as deep as allowed.
Frontier(v, q, s) ==
    /\ s.queue \in Seq(Met(s))
    /\ \A i, j \in 1 .. Len(s.queue) : i <= j => s.depth[s.queue[i]] <= s.depth[s.queue[j]]
    /\ s.queue # << >> => \A n \in Met(s) : s.depth[n] <= s.depth[s.queue[1]] + 1
    /\ \A n \in Met(s) : \/ \E i \in 1 .. Len(s.queue) : s.queue[i] = n
                         \/ s.depth[n] >= q.jumps
                         \/ \A m \in Neighbors(v, n) :
                               Passable(v, q, m) => m \in Met(s) /\ s.depth[m] <= s.depth[n] + 1

SearchSound(v, q, s) == Tree(v, q, s) /\ Frontier(v, q, s) /\ q.to \notin Met(s) /\ q.jumps \in Nat

LEMMA SearchStarts ==
    ASSUME NEW v, NEW q, Passable(v, q, q.from), q.from # q.to, q.jumps \in Nat
    PROVE  SearchSound(v, q, SearchFrom(q.from))
<1>1. PICK s : s = SearchFrom(q.from)
  OBVIOUS
<1>2. /\ s.queue = <<q.from>> /\ s.depth = [m \in {q.from} |-> 0] /\ s.prev = << >>
  BY <1>1 DEF SearchFrom
<1>3. /\ Met(s) = {q.from} /\ s.depth[q.from] = 0 /\ DOMAIN s.prev = {} /\ s.queue \in Seq(Met(s))
      /\ Len(s.queue) = 1 /\ s.queue[1] = q.from
  BY <1>2 DEF Met
<1>4. Tree(v, q, s)
  BY <1>2, <1>3 DEF Tree
<1>5. Frontier(v, q, s)
  BY <1>2, <1>3 DEF Frontier
<1> QED BY <1>1, <1>3, <1>4, <1>5 DEF SearchSound

\* As far as the search has come, what can be reached was met: no way of k jumps leads
\* to the destination.
LEMMA NoShorterWay ==
    ASSUME NEW v, NEW q, NEW s, SearchSound(v, q, s), NEW k \in Nat, k <= q.jumps,
           s.queue # << >> => k <= s.depth[s.queue[1]]
    PROVE  WaysOf(v, q, k) = {}
<1> SUFFICES ASSUME NEW w \in WaysOf(v, q, k) PROVE FALSE
  OBVIOUS
<1>1. /\ w[0] = q.from /\ w[k] = q.to /\ \A i \in 0 .. k : Passable(v, q, w[i])
      /\ \A i \in 1 .. k : w[i] \in Neighbors(v, w[i - 1])
  BY DEF WaysOf
<1>2. Tree(v, q, s) /\ Frontier(v, q, s) /\ q.to \notin Met(s) /\ q.jumps \in Nat
  BY DEF SearchSound
<1>3. s.depth \in [Met(s) -> Nat] /\ q.from \in Met(s) /\ s.depth[q.from] = 0
  BY <1>2 DEF Tree
<1> DEFINE S == {i \in 0 .. k : w[i] \in Met(s) /\ s.depth[w[i]] <= i}
<1>4. 0 \in S
  BY <1>1, <1>3
<1>5. ASSUME NEW i \in 0 .. k, i \in S, i < k PROVE i + 1 \in S
  <2>1. w[i] \in Met(s) /\ s.depth[w[i]] <= i /\ s.depth[w[i]] \in Nat
    BY <1>3, <1>5
  <2>2. i + 1 \in 1 .. k /\ i + 1 \in 0 .. k /\ (i + 1) - 1 = i
    BY <1>5
  <2>3. w[i + 1] \in Neighbors(v, w[i]) /\ Passable(v, q, w[i + 1])
    BY <1>1, <2>2
  <2>4. \A j \in 1 .. Len(s.queue) : s.queue[j] # w[i]
    <3> SUFFICES ASSUME NEW j \in 1 .. Len(s.queue), s.queue[j] = w[i] PROVE FALSE
      OBVIOUS
    <3>1. s.queue # << >> /\ s.queue \in Seq(Met(s)) /\ Len(s.queue) \in Nat
      BY <1>2 DEF Frontier
    <3>2. 1 \in 1 .. Len(s.queue) /\ 1 <= j
      BY <3>1
    <3>3. s.depth[s.queue[1]] <= s.depth[w[i]]
      BY <1>2, <3>2 DEF Frontier
    <3>4. s.queue[1] \in Met(s) /\ s.depth[s.queue[1]] \in Nat
      BY <1>3, <3>1, <3>2
    <3>5. k <= s.depth[s.queue[1]]
      BY <3>1
    <3> QED BY <1>5, <2>1, <3>3, <3>4, <3>5
  <2>5. ~ (s.depth[w[i]] >= q.jumps)
    BY <1>2, <1>5, <2>1
  <2>6. w[i + 1] \in Met(s) /\ s.depth[w[i + 1]] <= s.depth[w[i]] + 1
    BY <1>2, <2>1, <2>3, <2>4, <2>5 DEF Frontier
  <2>7. s.depth[w[i + 1]] \in Nat
    BY <1>3, <2>6
  <2>8. s.depth[w[i + 1]] <= i + 1
    BY <2>1, <2>6, <2>7
  <2> QED BY <2>2, <2>6, <2>8
<1>6. \A i \in 0 .. k : i \in S
  <2> HIDE DEF S
  <2> QED BY <1>4, <1>5, CountUp
<1>7. k \in S
  BY <1>6
<1> QED BY <1>1, <1>2, <1>7

\* The fields of a search that has expanded the first of its queue.
LEMMA ExpandedIs ==
    ASSUME NEW v, NEW q, NEW s, SearchSound(v, q, s), s.queue # << >>,
           NEW U, U = Unmet(v, q, s), IsFiniteSet(U),
           NEW new \in Bijection(1 .. Cardinality(U), U),
           NEW t, t = Expanded(s, new), NEW h, h = s.queue[1]
    PROVE  /\ new \in Seq(U) /\ Range(new) = U
           /\ h \in Met(s) /\ Head(s.queue) = h
           /\ t.queue = Tail(s.queue) \o new
           /\ Met(t) = Met(s) \cup U
           /\ \A m \in Met(s) : t.depth[m] = s.depth[m]
           /\ \A m \in U : m \notin Met(s) /\ t.depth[m] = s.depth[h] + 1 /\ t.prev[m] = h
           /\ DOMAIN t.prev = DOMAIN s.prev \cup U
           /\ \A m \in DOMAIN s.prev : t.prev[m] = s.prev[m]
           /\ U # {} => s.depth[h] < q.jumps
           /\ \A m \in U : m \in Neighbors(v, h) /\ Passable(v, q, m)
<1>1. Tree(v, q, s) /\ Frontier(v, q, s)
  BY DEF SearchSound
<1>2. s.queue \in Seq(Met(s)) /\ s.queue # << >> /\ DOMAIN s.prev \subseteq Met(s)
  BY <1>1 DEF Tree, Frontier
<1>3. h \in Met(s) /\ Head(s.queue) = h
  BY <1>2
<1>4. Cardinality(U) \in Nat
  BY FS_CardinalityType
<1>5. new \in [1 .. Cardinality(U) -> U] /\ \A u \in U : \E i \in 1 .. Cardinality(U) : new[i] = u
  BY DEF Bijection, Injection, Surjection
<1>6. new \in Seq(U)
  BY <1>4, <1>5, SeqDef
<1>7. Range(new) = U
  BY <1>5 DEF Range
<1>8. \A m \in U : /\ m \notin Met(s) /\ m \in Neighbors(v, h) /\ Passable(v, q, m)
                   /\ s.depth[h] < q.jumps
  BY <1>3 DEF Unmet
<1>9. /\ t.queue = Tail(s.queue) \o new
      /\ t.prev = [m \in DOMAIN s.prev \cup U |-> IF m \in DOMAIN s.prev THEN s.prev[m] ELSE h]
      /\ t.depth = [m \in Met(s) \cup U |-> IF m \in Met(s) THEN s.depth[m] ELSE s.depth[h] + 1]
  BY <1>3, <1>7 DEF Expanded
<1>10. Met(t) = Met(s) \cup U /\ DOMAIN t.prev = DOMAIN s.prev \cup U
  BY <1>9 DEF Met
<1>11. \A m \in Met(s) : t.depth[m] = s.depth[m]
  BY <1>9
<1>12. \A m \in U : t.depth[m] = s.depth[h] + 1 /\ t.prev[m] = h
  BY <1>2, <1>8, <1>9
<1>13. \A m \in DOMAIN s.prev : t.prev[m] = s.prev[m]
  BY <1>9
<1> QED BY <1>3, <1>6, <1>7, <1>8, <1>9, <1>10, <1>11, <1>12, <1>13

LEMMA TreeGrows ==
    ASSUME NEW v, NEW q, NEW s, SearchSound(v, q, s), s.queue # << >>,
           NEW U, U = Unmet(v, q, s), IsFiniteSet(U),
           NEW new \in Bijection(1 .. Cardinality(U), U),
           NEW t, t = Expanded(s, new)
    PROVE  Tree(v, q, t)
<1>1. PICK h : h = s.queue[1]
  OBVIOUS
<1>2. /\ h \in Met(s) /\ Met(t) = Met(s) \cup U
      /\ \A m \in Met(s) : t.depth[m] = s.depth[m]
      /\ \A m \in U : m \notin Met(s) /\ t.depth[m] = s.depth[h] + 1 /\ t.prev[m] = h
      /\ DOMAIN t.prev = DOMAIN s.prev \cup U
      /\ \A m \in DOMAIN s.prev : t.prev[m] = s.prev[m]
      /\ U # {} => s.depth[h] < q.jumps
      /\ \A m \in U : m \in Neighbors(v, h) /\ Passable(v, q, m)
  BY <1>1, ExpandedIs
<1>3. Tree(v, q, s) /\ q.jumps \in Nat
  BY DEF SearchSound
<1>4. /\ s.depth \in [Met(s) -> Nat] /\ DOMAIN s.prev \subseteq Met(s)
      /\ q.from \in Met(s) /\ s.depth[q.from] = 0
      /\ \A n \in Met(s) : Passable(v, q, n) /\ s.depth[n] <= q.jumps
      /\ \A n \in Met(s) \ {q.from} :
            /\ n \in DOMAIN s.prev /\ s.prev[n] \in Met(s)
            /\ n \in Neighbors(v, s.prev[n]) /\ s.depth[n] = s.depth[s.prev[n]] + 1
  BY <1>3 DEF Tree
<1>5. s.depth[h] \in Nat
  BY <1>2, <1>4
<1>6. \A m \in Met(t) : t.depth[m] \in Nat
  BY <1>2, <1>4, <1>5
<1>7. t.depth \in [Met(t) -> Nat]
  <2>1. t.depth = [m \in Met(t) |-> t.depth[m]]
    BY DEF Expanded, Met
  <2> QED BY <1>6, <2>1
<1>8. DOMAIN t.prev \subseteq Met(t) /\ q.from \in Met(t) /\ t.depth[q.from] = 0
  BY <1>2, <1>4
<1>9. \A n \in Met(t) : Passable(v, q, n)
  BY <1>2, <1>4
<1>10. \A n \in Met(t) : t.depth[n] <= q.jumps
  <2>1. \A n \in U : s.depth[h] + 1 <= q.jumps
    BY <1>2, <1>3, <1>5
  <2> QED BY <1>2, <1>4, <2>1
<1>11. ASSUME NEW n \in Met(t) \ {q.from}
       PROVE  /\ n \in DOMAIN t.prev /\ t.prev[n] \in Met(t)
              /\ n \in Neighbors(v, t.prev[n]) /\ t.depth[n] = t.depth[t.prev[n]] + 1
  <2>1. CASE n \in U
    BY <1>2, <2>1
  <2>2. CASE n \in Met(s)
    <3>1. /\ n \in DOMAIN s.prev /\ s.prev[n] \in Met(s) /\ n \in Neighbors(v, s.prev[n])
          /\ s.depth[n] = s.depth[s.prev[n]] + 1
      BY <1>4, <1>11, <2>2
    <3>2. t.prev[n] = s.prev[n] /\ t.depth[n] = s.depth[n] /\ t.depth[s.prev[n]] = s.depth[s.prev[n]]
      BY <1>2, <2>2, <3>1
    <3> QED BY <1>2, <3>1, <3>2
  <2> QED BY <1>2, <2>1, <2>2
<1> QED BY <1>7, <1>8, <1>9, <1>10, <1>11 DEF Tree

LEMMA FrontierMoves ==
    ASSUME NEW v, NEW q, NEW s, SearchSound(v, q, s), s.queue # << >>,
           NEW U, U = Unmet(v, q, s), IsFiniteSet(U),
           NEW new \in Bijection(1 .. Cardinality(U), U),
           NEW t, t = Expanded(s, new)
    PROVE  Frontier(v, q, t)
<1>1. PICK h : h = s.queue[1]
  OBVIOUS
<1>2. /\ new \in Seq(U) /\ Range(new) = U /\ h \in Met(s) /\ Head(s.queue) = h
      /\ t.queue = Tail(s.queue) \o new /\ Met(t) = Met(s) \cup U
      /\ \A m \in Met(s) : t.depth[m] = s.depth[m]
      /\ \A m \in U : m \notin Met(s) /\ t.depth[m] = s.depth[h] + 1
  BY <1>1, ExpandedIs
<1>3. Tree(v, q, s) /\ Frontier(v, q, s) /\ q.jumps \in Nat
  BY DEF SearchSound
<1>4. /\ s.depth \in [Met(s) -> Nat] /\ s.queue \in Seq(Met(s)) /\ s.queue # << >>
      /\ \A i, j \in 1 .. Len(s.queue) : i <= j => s.depth[s.queue[i]] <= s.depth[s.queue[j]]
      /\ \A n \in Met(s) : s.depth[n] <= s.depth[h] + 1
      /\ s.depth[h] \in Nat
  BY <1>1, <1>2, <1>3 DEF Tree, Frontier
<1>5. PICK a \in Nat, b \in Nat : a + 1 = Len(s.queue) /\ b = Len(new)
  <2>1. Len(s.queue) \in Nat \ {0} /\ Len(new) \in Nat
    BY <1>2, <1>4
  <2>2. Len(s.queue) - 1 \in Nat /\ (Len(s.queue) - 1) + 1 = Len(s.queue)
    BY <2>1
  <2> QED BY <2>1, <2>2
<1>6. /\ t.queue \in Seq(Met(t)) /\ Len(t.queue) = a + b
      /\ \A i \in 1 .. a : t.queue[i] = s.queue[i + 1]
      /\ \A i \in 1 .. b : t.queue[a + i] = new[i]
  <2>1. Tail(s.queue) \in Seq(Met(t)) /\ new \in Seq(Met(t))
    BY <1>2, <1>4
  <2>2. Len(Tail(s.queue)) = a /\ \A i \in 1 .. a : Tail(s.queue)[i] = s.queue[i + 1]
    BY <1>4, <1>5
  <2>3. Tail(s.queue) \o new \in Seq(Met(t))
    BY <2>1
  <2>4. Len(Tail(s.queue) \o new) = a + b
    BY <1>5, <2>1, <2>2
  <2>5. \A i \in 1 .. a : (Tail(s.queue) \o new)[i] = s.queue[i + 1]
    BY <1>5, <2>1, <2>2
  <2>6. ASSUME NEW i \in 1 .. b PROVE (Tail(s.queue) \o new)[a + i] = new[i]
    <3>1. PICK T \in Seq(Met(t)) : T = Tail(s.queue) /\ Len(T) = a
      BY <2>1, <2>2
    <3>2. a + i \in 1 .. a + b /\ ~ (a + i <= a) /\ (a + i) - a = i
      BY <1>5
    <3>3. PICK j : j = a + i
      OBVIOUS
    <3>4. (T \o new)[j] = new[j - a]
      <4>1. j \in 1 .. Len(T) + Len(new) /\ ~ (j <= Len(T))
        BY <1>5, <3>1, <3>2, <3>3
      <4>2. (T \o new)[j] = IF j <= Len(T) THEN T[j] ELSE new[j - Len(T)]
        BY <2>1, <3>1, <4>1, ConcatProperties
      <4> QED BY <3>1, <4>1, <4>2
    <3> QED BY <3>1, <3>2, <3>3, <3>4
  <2> QED BY <1>2, <2>3, <2>4, <2>5, <2>6
\* The old part keeps its depths, the new part is one level below the first.
<1>7. /\ \A i \in 1 .. a : /\ s.queue[i + 1] \in Met(s)
                           /\ t.depth[t.queue[i]] = s.depth[s.queue[i + 1]]
                           /\ s.depth[s.queue[i + 1]] \in s.depth[h] .. s.depth[h] + 1
      /\ \A i \in 1 .. b : t.depth[t.queue[a + i]] = s.depth[h] + 1
  <2>1. ASSUME NEW i \in 1 .. a
        PROVE  /\ s.queue[i + 1] \in Met(s) /\ t.depth[t.queue[i]] = s.depth[s.queue[i + 1]]
               /\ s.depth[s.queue[i + 1]] \in s.depth[h] .. s.depth[h] + 1
    <3>1. i + 1 \in 1 .. Len(s.queue) /\ 1 \in 1 .. Len(s.queue) /\ 1 <= i + 1
      BY <1>5
    <3>2. s.queue[i + 1] \in Met(s)
      BY <1>4, <3>1
    <3>3. s.depth[h] <= s.depth[s.queue[i + 1]] /\ s.depth[s.queue[i + 1]] <= s.depth[h] + 1
      BY <1>1, <1>4, <3>1, <3>2
    <3>4. s.depth[s.queue[i + 1]] \in Nat
      BY <1>4, <3>2
    <3>5. t.depth[t.queue[i]] = s.depth[s.queue[i + 1]]
      BY <1>2, <1>6, <3>2
    <3>6. PICK x \in Nat, y \in Nat : x = s.depth[h] /\ y = s.depth[s.queue[i + 1]]
      BY <1>4, <3>4
    <3>7. y \in x .. x + 1
      BY <3>3, <3>6
    <3> QED BY <3>2, <3>5, <3>6, <3>7
  <2>2. ASSUME NEW i \in 1 .. b PROVE t.depth[t.queue[a + i]] = s.depth[h] + 1
    <3>1. new[i] \in U
      BY <1>2, <1>5
    <3> QED BY <1>2, <1>6, <3>1
  <2> QED BY <2>1, <2>2
<1>8. ASSUME NEW i \in 1 .. Len(t.queue) PROVE i \in 1 .. a \/ \E k \in 1 .. b : i = a + k
  <2>1. i \in 1 .. a \/ (i - a \in 1 .. b /\ i = a + (i - a))
    BY <1>6
  <2> QED BY <2>1
<1>9. ASSUME NEW i \in 1 .. Len(t.queue), NEW j \in 1 .. Len(t.queue), i <= j
      PROVE  t.depth[t.queue[i]] <= t.depth[t.queue[j]]
  <2>1. CASE i \in 1 .. a /\ j \in 1 .. a
    <3>1. i + 1 \in 1 .. Len(s.queue) /\ j + 1 \in 1 .. Len(s.queue) /\ i + 1 <= j + 1
      BY <1>5, <1>9, <2>1
    <3>2. s.depth[s.queue[i + 1]] <= s.depth[s.queue[j + 1]]
      BY <1>4, <3>1
    <3> QED BY <1>7, <2>1, <3>2
  <2>2. CASE i \in 1 .. a /\ \E k \in 1 .. b : j = a + k
    <3>1. t.depth[t.queue[i]] \in s.depth[h] .. s.depth[h] + 1 /\ t.depth[t.queue[j]] = s.depth[h] + 1
      BY <1>7, <2>2
    <3> QED BY <1>4, <3>1
  <2>3. CASE \E k \in 1 .. b : i = a + k
    <3>1. \E k \in 1 .. b : j = a + k
      BY <1>8, <1>9, <2>3
    <3>2. t.depth[t.queue[i]] = s.depth[h] + 1 /\ t.depth[t.queue[j]] = s.depth[h] + 1
      BY <1>7, <2>3, <3>1
    <3> QED BY <1>4, <3>2
  <2> QED BY <1>8, <2>1, <2>2, <2>3
<1>10. ASSUME t.queue # << >>, NEW n \in Met(t) PROVE t.depth[n] <= t.depth[t.queue[1]] + 1
  <2>1. 1 \in 1 .. Len(t.queue)
    BY <1>6, <1>10
  <2>2. PICK x \in Nat : x = s.depth[h]
    BY <1>4
  <2>3. x <= t.depth[t.queue[1]] /\ t.depth[t.queue[1]] \in Nat
    <3>1. CASE 1 \in 1 .. a
      BY <1>7, <2>2, <3>1
    <3>2. CASE \E k \in 1 .. b : 1 = a + k
      BY <1>7, <2>2, <3>2
    <3> QED BY <1>8, <2>1, <3>1, <3>2
  <2>4. t.depth[n] \in Nat /\ t.depth[n] <= x + 1
    <3>1. CASE n \in Met(s)
      BY <1>2, <1>4, <2>2, <3>1
    <3>2. CASE n \in U
      BY <1>2, <2>2, <3>2
    <3> QED BY <1>2, <1>10, <3>1, <3>2
  <2> QED BY <2>2, <2>3, <2>4
<1>11. ASSUME NEW n \in Met(t)
       PROVE  \/ \E i \in 1 .. Len(t.queue) : t.queue[i] = n
              \/ t.depth[n] >= q.jumps
              \/ \A m \in Neighbors(v, n) :
                    Passable(v, q, m) => m \in Met(t) /\ t.depth[m] <= t.depth[n] + 1
  <2>1. CASE n \in U
    <3>1. PICK i \in DOMAIN new : new[i] = n
      BY <1>2, <2>1 DEF Range
    <3>2. i \in 1 .. b
      BY <1>2, <1>5, <3>1
    <3>3. a + i \in 1 .. Len(t.queue) /\ t.queue[a + i] = n
      BY <1>6, <3>1, <3>2
    <3> QED BY <3>3
  <2>2. CASE n = h
    <3> SUFFICES ASSUME ~ (t.depth[h] >= q.jumps), NEW m \in Neighbors(v, h), Passable(v, q, m)
                 PROVE  m \in Met(t) /\ t.depth[m] <= t.depth[h] + 1
      BY <2>2
    <3>1. t.depth[h] = s.depth[h] /\ s.depth[h] < q.jumps
      BY <1>2, <1>3, <1>4
    <3>2. CASE m \in Met(s)
      BY <1>2, <1>4, <3>1, <3>2
    <3>3. CASE m \notin Met(s)
      <4>1. m \in U
        BY <1>2, <3>1, <3>3 DEF Unmet
      <4>2. t.depth[m] = s.depth[h] + 1 /\ s.depth[h] + 1 <= s.depth[h] + 1
        BY <1>2, <1>4, <4>1
      <4> QED BY <1>2, <3>1, <4>1, <4>2
    <3> QED BY <3>2, <3>3
  <2>3. CASE n \in Met(s) /\ n # h
    <3>1. t.depth[n] = s.depth[n]
      BY <1>2, <2>3
    <3>2. CASE \E i \in 1 .. Len(s.queue) : s.queue[i] = n
      <4>1. PICK i \in 1 .. Len(s.queue) : s.queue[i] = n
        BY <3>2
      <4>2. i # 1
        BY <1>1, <2>3, <4>1
      <4>3. i - 1 \in 1 .. a /\ i - 1 \in 1 .. Len(t.queue) /\ (i - 1) + 1 = i
        BY <1>5, <1>6, <4>1, <4>2
      <4>4. t.queue[i - 1] = n
        BY <1>6, <4>1, <4>3
      <4> QED BY <4>3, <4>4
    <3>3. CASE s.depth[n] >= q.jumps
      BY <3>1, <3>3
    <3>4. CASE \A m \in Neighbors(v, n) :
                  Passable(v, q, m) => m \in Met(s) /\ s.depth[m] <= s.depth[n] + 1
      BY <1>2, <3>1, <3>4
    <3> QED BY <1>3, <2>3, <3>2, <3>3, <3>4 DEF Frontier
  <2> QED BY <1>2, <2>1, <2>2, <2>3
<1> QED BY <1>6, <1>9, <1>10, <1>11 DEF Frontier

\* The systems back from one that was met are what the recursion says.
LEMMA BackIs ==
    ASSUME NEW s, NEW n, NEW d \in Nat, d = s.depth[n]
    PROVE  /\ Back(s, n)[0] = n
           /\ \A k \in 1 .. d : Back(s, n)[k] = s.prev[Back(s, n)[k - 1]]
<1> DEFINE Is(g, k) == g = [j \in 0 .. k |-> IF j = 0 THEN n ELSE s.prev[g[j - 1]]]
           S == {k \in 0 .. d : \E g : Is(g, k)}
<1>1. 0 \in S
  <2> DEFINE g == [j \in 0 .. 0 |-> n]
  <2>1. Is(g, 0)
    OBVIOUS
  <2> HIDE DEF g
  <2> QED BY <2>1
<1>2. ASSUME NEW k \in 0 .. d, k \in S, k < d PROVE k + 1 \in S
  <2>1. PICK g : Is(g, k)
    BY <1>2
  <2> DEFINE h == [j \in 0 .. k + 1 |-> IF j = k + 1 THEN s.prev[g[k]] ELSE g[j]]
  <2>2. ASSUME NEW j \in 0 .. k + 1
        PROVE  h[j] = IF j = 0 THEN n ELSE s.prev[h[j - 1]]
    <3>1. CASE j = 0
      BY <2>1, <3>1
    <3>2. CASE j = k + 1
      <4>1. h[j - 1] = g[k]
        BY <3>2
      <4> QED BY <3>2, <4>1
    <3>3. CASE j \in 1 .. k
      <4>1. h[j - 1] = g[j - 1] /\ h[j] = g[j]
        BY <3>3
      <4>2. j \in 0 .. k /\ j # 0
        BY <3>3
      <4>3. g[j] = IF j = 0 THEN n ELSE s.prev[g[j - 1]]
        BY <2>1, <4>2
      <4>4. g[j] = s.prev[g[j - 1]]
        BY <4>2, <4>3
      <4> HIDE DEF h
      <4> QED BY <4>1, <4>2, <4>4
    <3> QED BY <3>1, <3>2, <3>3
  <2>3. h = [j \in 0 .. k + 1 |-> IF j = 0 THEN n ELSE s.prev[h[j - 1]]]
    <3>1. h = [j \in 0 .. k + 1 |-> h[j]]
      OBVIOUS
    <3> HIDE DEF h
    <3> QED BY <2>2, <3>1
  <2> HIDE DEF h
  <2>4. Is(h, k + 1)
    BY <2>3
  <2> QED BY <2>4, <1>2
<1>3. \E g : Is(g, d)
  <2> HIDE DEF Is
  <2>1. \A k \in 0 .. d : k \in S
    <3> HIDE DEF S
    <3> QED BY <1>1, <1>2, CountUp
  <2> QED BY <2>1
<1>4. Is(Back(s, n), d)
  <2>1. Back(s, n) = CHOOSE g : Is(g, d)
    BY DEF Back
  <2> HIDE DEF Is
  <2> QED BY <1>3, <2>1
<1> QED BY <1>4

\* Going back from what was met leads to the start, in as many jumps as it is deep.
LEMMA PathIsWay ==
    ASSUME NEW v, NEW q, NEW s, Tree(v, q, s), q.to \in Met(s), NEW d, d = s.depth[q.to]
    PROVE  /\ d \in Nat /\ d <= q.jumps /\ Len(PathTo(s, q.to)) = d + 1
           /\ [i \in 0 .. d |-> PathTo(s, q.to)[i + 1]] \in WaysOf(v, q, d)
<1>1. /\ s.depth \in [Met(s) -> Nat] /\ s.depth[q.from] = 0
      /\ \A n \in Met(s) : Passable(v, q, n) /\ s.depth[n] <= q.jumps
      /\ \A n \in Met(s) \ {q.from} :
            /\ s.prev[n] \in Met(s)
            /\ n \in Neighbors(v, s.prev[n]) /\ s.depth[n] = s.depth[s.prev[n]] + 1
  BY DEF Tree
<1>2. d \in Nat /\ d <= q.jumps
  BY <1>1
<1>3. PICK back : back = Back(s, q.to)
  OBVIOUS
<1>4. back[0] = q.to /\ \A k \in 1 .. d : back[k] = s.prev[back[k - 1]]
  BY <1>2, <1>3, BackIs
<1> DEFINE S == {k \in 0 .. d : back[k] \in Met(s) /\ s.depth[back[k]] = d - k}
<1>5. 0 \in S
  BY <1>2, <1>4
<1>6. ASSUME NEW k \in 0 .. d, k \in S, k < d
      PROVE  /\ k + 1 \in S /\ back[k] # q.from /\ back[k + 1] = s.prev[back[k]]
  <2>1. back[k] \in Met(s) /\ s.depth[back[k]] = d - k
    BY <1>6
  <2>2. k + 1 \in 1 .. d /\ k + 1 \in 0 .. d /\ (k + 1) - 1 = k /\ d - k # 0
    BY <1>2, <1>6
  <2>3. back[k] # q.from
    BY <1>1, <2>1, <2>2
  <2>4. back[k + 1] = s.prev[back[k]]
    BY <1>4, <2>2
  <2>5. back[k + 1] \in Met(s) /\ s.depth[back[k]] = s.depth[back[k + 1]] + 1
    BY <1>1, <2>1, <2>3, <2>4
  <2>6. s.depth[back[k + 1]] \in Nat
    BY <1>1, <2>5
  <2>7. s.depth[back[k + 1]] = d - (k + 1)
    BY <1>2, <2>1, <2>5, <2>6
  <2> QED BY <2>2, <2>3, <2>4, <2>5, <2>7
<1>7. \A k \in 0 .. d : k \in S
  <2>1. \A k \in 0 .. d : k \in S /\ k < d => k + 1 \in S
    BY <1>6
  <2> HIDE DEF S
  <2> QED BY <1>2, <1>5, <2>1, CountUp
<1>8. back[d] = q.from
  <2>1. back[d] \in Met(s) /\ s.depth[back[d]] = 0
    BY <1>2, <1>7
  <2>2. ASSUME back[d] # q.from PROVE FALSE
    <3>1. s.prev[back[d]] \in Met(s) /\ 0 = s.depth[s.prev[back[d]]] + 1
      BY <1>1, <2>1, <2>2
    <3>2. s.depth[s.prev[back[d]]] \in Nat
      BY <1>1, <3>1
    <3> QED BY <3>1, <3>2
  <2> QED BY <2>2
<1>9. PICK p : p = PathTo(s, q.to)
  OBVIOUS
<1>10. p = [i \in 1 .. d + 1 |-> back[d + 1 - i]]
  BY <1>3, <1>9 DEF PathTo
<1>11. Len(p) = d + 1
  BY <1>2, <1>10
<1>12. PICK w : w = [i \in 0 .. d |-> p[i + 1]]
  OBVIOUS
<1>13. ASSUME NEW i \in 0 .. d PROVE w[i] = back[d - i] /\ d - i \in 0 .. d
  <2>1. i + 1 \in 1 .. d + 1 /\ (d + 1) - (i + 1) = d - i /\ d - i \in 0 .. d
    BY <1>2
  <2>2. w[i] = p[i + 1]
    BY <1>12
  <2>3. p[i + 1] = back[(d + 1) - (i + 1)]
    <3>1. PICK j : j = i + 1
      OBVIOUS
    <3>2. j \in 1 .. d + 1 /\ j \in Nat
      BY <2>1, <3>1
    <3>3. p[j] = back[(d + 1) - j]
      BY <1>2, <1>10, <3>2
    <3> QED BY <3>1, <3>3
  <2> QED BY <2>1, <2>2, <2>3
<1>14. \A i \in 0 .. d : w[i] \in Met(s) /\ Passable(v, q, w[i])
  BY <1>1, <1>7, <1>13
<1>15. w \in [0 .. d -> Systems(v)]
  BY <1>12, <1>14 DEF Passable
<1>16. w[0] = q.from /\ w[d] = q.to
  BY <1>2, <1>4, <1>8, <1>13
<1>17. ASSUME NEW i \in 1 .. d PROVE w[i] \in Neighbors(v, w[i - 1])
  <2>1. /\ i \in 0 .. d /\ i - 1 \in 0 .. d /\ d - i \in 0 .. d /\ d - i < d
        /\ d - (i - 1) = (d - i) + 1
    BY <1>2
  <2>2. w[i] = back[d - i] /\ w[i - 1] = back[(d - i) + 1]
    BY <1>13, <2>1
  <2>3. back[d - i] # q.from /\ back[(d - i) + 1] = s.prev[back[d - i]] /\ back[d - i] \in Met(s)
    BY <1>6, <1>7, <2>1
  <2> QED BY <1>1, <2>2, <2>3
<1>18. w \in WaysOf(v, q, d)
  BY <1>14, <1>15, <1>16, <1>17 DEF WaysOf
<1> QED BY <1>2, <1>9, <1>11, <1>12, <1>18

-----------------------------------------------------------------------------
(* The results of a search. *)

LEMMA EmptyQueueIsRight ==
    ASSUME NEW v, NEW q, NEW s, SearchSound(v, q, s), s.queue = << >>
    PROVE  RightAnswer(v, q, NoRoute)
<1>1. q.jumps \in Nat
  BY DEF SearchSound
<1>2. \A k \in 0 .. q.jumps : WaysOf(v, q, k) = {}
  BY <1>1, NoShorterWay
<1> QED BY <1>2 DEF RightAnswer, NoRoute

LEMMA FoundIsRight ==
    ASSUME NEW v, NEW q, NEW s, SearchSound(v, q, s), s.queue # << >>,
           NEW U, U = Unmet(v, q, s), IsFiniteSet(U), q.to \in U,
           NEW new \in Bijection(1 .. Cardinality(U), U)
    PROVE  RightAnswer(v, q, Ready(v, PathTo(Expanded(s, new), q.to)))
<1>1. PICK t : t = Expanded(s, new)
  OBVIOUS
<1>2. PICK h : h = s.queue[1]
  OBVIOUS
<1>3. /\ h \in Met(s) /\ q.to \in Met(t) /\ t.depth[q.to] = s.depth[h] + 1 /\ s.depth[h] < q.jumps
  BY <1>1, <1>2, ExpandedIs
<1>4. s.depth[h] \in Nat /\ q.jumps \in Nat
  BY <1>3 DEF SearchSound, Tree
<1>5. PICK d \in Nat : d = s.depth[h]
  BY <1>4
<1>6. Tree(v, q, t)
  BY <1>1, TreeGrows
<1>7. PICK p : p = PathTo(t, q.to)
  OBVIOUS
<1>8. /\ d + 1 = t.depth[q.to] /\ d + 1 <= q.jumps /\ Len(p) = (d + 1) + 1
      /\ [i \in 0 .. d + 1 |-> p[i + 1]] \in WaysOf(v, q, d + 1)
  BY <1>3, <1>5, <1>6, <1>7, PathIsWay
<1>9. PICK a : a = Ready(v, p)
  OBVIOUS
<1>10. a.status = "ready" /\ a.version = v /\ a.jumps = Len(p) - 1 /\ a.systems = p
  BY <1>9 DEF Ready
<1>11. a.jumps = d + 1 /\ a.jumps \in 0 .. q.jumps /\ Len(a.systems) = a.jumps + 1
  BY <1>4, <1>8, <1>10
<1>12. [i \in 0 .. a.jumps |-> a.systems[i + 1]] \in WaysOf(v, q, a.jumps)
  BY <1>8, <1>10, <1>11
<1>13. ASSUME NEW k \in 0 .. (a.jumps - 1) PROVE WaysOf(v, q, k) = {}
  <2>1. k \in Nat /\ k <= d /\ k <= q.jumps
    BY <1>4, <1>8, <1>11
  <2> QED BY <1>2, <1>5, <2>1, NoShorterWay
<1>14. RightAnswer(v, q, a)
  BY <1>10, <1>11, <1>12, <1>13 DEF RightAnswer
<1> QED BY <1>1, <1>7, <1>9, <1>14

LEMMA NowhereIsRight ==
    ASSUME NEW v, NEW q, q.jumps \in Nat, ~ Passable(v, q, q.from) \/ q.to \notin Systems(v)
    PROVE  RightAnswer(v, q, NoRoute)
<1>1. ASSUME NEW k \in 0 .. q.jumps, NEW w \in WaysOf(v, q, k) PROVE FALSE
  <2>1. k \in 0 .. k /\ 0 \in 0 .. k
    OBVIOUS
  <2> QED BY <2>1 DEF WaysOf
<1> QED BY <1>1 DEF RightAnswer, NoRoute

LEMMA HereIsRight ==
    ASSUME NEW v, NEW q, q.jumps \in Nat, Passable(v, q, q.from), q.from = q.to
    PROVE  RightAnswer(v, q, Ready(v, <<q.from>>))
<1>1. PICK a : a = Ready(v, <<q.from>>)
  OBVIOUS
<1>2. a.status = "ready" /\ a.version = v /\ a.jumps = 0 /\ a.systems = <<q.from>>
  BY <1>1 DEF Ready
<1>3. [i \in 0 .. 0 |-> <<q.from>>[i + 1]] \in WaysOf(v, q, 0)
  BY DEF WaysOf, Passable
<1>4. a.jumps \in 0 .. q.jumps /\ Len(a.systems) = a.jumps + 1 /\ 0 .. (a.jumps - 1) = {}
  BY <1>2
<1>5. RightAnswer(v, q, a)
  BY <1>2, <1>3, <1>4 DEF RightAnswer
<1> QED BY <1>1, <1>5

-----------------------------------------------------------------------------
(* The callers. *)

RouteSteps == {"idle", "version", "load", "loading", "lookup", "search", "store", "done"}
WithBuild == {"load", "loading", "lookup", "search", "store"}

\* What a call has is of a build that was active since it was asked.
CallSound(r) ==
    /\ r.pc \in RouteSteps
    /\ r.pc # "idle" => r.asked \in 1 .. activeBuild
    /\ r.pc \in WithBuild \cup {"version"} => r.query.jumps \in Nat
    /\ r.pc \in WithBuild => r.version \in r.asked .. activeBuild
    /\ r.pc = "search" => SearchSound(r.version, r.query, r.search)
    /\ r.pc = "store" => RightAnswer(r.version, r.query, r.found)
    /\ r.pc = "done" => \E v \in r.asked .. activeBuild : RightAnswer(v, r.query, r.answer)

CallsSound == \A c \in RouteCallers : CallSound(routeCall[c])

\* A cached answer is the right one of the build of its key.
CacheSound ==
    /\ IsFiniteSet(DOMAIN routeCache)
    /\ \A k \in DOMAIN routeCache : RightAnswer(k.version, k.query, routeCache[k].answer)

RouteInv == RouteTypeOK /\ CallsSound /\ CacheSound

LEMMA RouteStarts == RouteInit => RouteInv
<1> SUFFICES ASSUME RouteInit PROVE RouteInv
  OBVIOUS
<1>1. DOMAIN << >> = {} /\ IsFiniteSet({}) /\ Cardinality({}) = 0
  BY FS_EmptySet
<1>2. \A c \in RouteCallers : routeCall[c].pc = "idle"
  BY DEF RouteInit, NoCall
<1>3. RouteTypeOK
  BY <1>1, RouteAssumption DEF RouteInit, RouteTypeOK
<1>4. CallsSound
  BY <1>2 DEF CallsSound, CallSound, RouteSteps, WithBuild
<1>5. CacheSound
  BY <1>1 DEF RouteInit, CacheSound
<1> QED BY <1>3, <1>4, <1>5 DEF RouteInv

\* One call goes on.
LEMMA CallSet ==
    ASSUME RouteInv, NEW c \in RouteCallers, NEW r, SetCall(c, r), CallSound(r),
           activeBuild' = activeBuild
    PROVE  DOMAIN routeCall' = RouteCallers /\ CallsSound'
<1>1. /\ DOMAIN routeCall' = RouteCallers /\ routeCall'[c] = r
      /\ \A d \in RouteCallers : d # c => routeCall'[d] = routeCall[d]
  BY DEF RouteInv, RouteTypeOK, SetCall
<1>2. ASSUME NEW d \in RouteCallers PROVE CallSound(routeCall'[d])
  BY <1>1 DEF RouteInv, CallsSound
<1>3. \A x : CallSound(x)' <=> CallSound(x)
  BY DEF CallSound
<1> QED BY <1>1, <1>2 DEF CallsSound, CallSound

\* Where neither the build nor a call changes, the calls stay as they are.
LEMMA CallsStay ==
    ASSUME RouteInv, UNCHANGED <<activeBuild, routeCall>>
    PROVE  DOMAIN routeCall' = RouteCallers /\ CallsSound'
BY DEF RouteInv, RouteTypeOK, CallsSound, CallSound

LEMMA CacheStays ==
    ASSUME RouteInv, UNCHANGED routeCache
    PROVE  CacheSound'
BY DEF RouteInv, CacheSound

\* What a call is that has read its build.
LEMMA HasBuild ==
    ASSUME RouteInv, NEW c \in RouteCallers, routeCall[c].pc \in WithBuild
    PROVE  /\ routeCall[c].version \in DOMAIN Builds /\ routeCall[c].query.jumps \in Nat
           /\ routeCall[c].asked \in 1 .. activeBuild
           /\ routeCall[c].version \in routeCall[c].asked .. activeBuild
           /\ activeBuild \in Nat
<1>1. /\ CallSound(routeCall[c]) /\ activeBuild \in DOMAIN Builds
      /\ Len(Builds) \in Nat /\ DOMAIN Builds = 1 .. Len(Builds)
  BY RouteAssumption DEF RouteInv, RouteTypeOK, CallsSound
<1>2. /\ routeCall[c].query.jumps \in Nat /\ routeCall[c].asked \in 1 .. activeBuild
      /\ routeCall[c].version \in routeCall[c].asked .. activeBuild
  BY <1>1 DEF CallSound, WithBuild
<1> QED BY <1>1, <1>2

\* It goes on, ends with a result of its build, or with an answer for it.
LEMMA ProceedSound ==
    ASSUME RouteInv, NEW c \in RouteCallers, routeCall[c].pc \in WithBuild,
           NEW pc \in {"load", "loading", "lookup"}, Proceed(c, pc), activeBuild' = activeBuild
    PROVE  DOMAIN routeCall' = RouteCallers /\ CallsSound'
<1>1. PICK r : r = [pc |-> pc, query |-> routeCall[c].query, asked |-> routeCall[c].asked,
                    version |-> routeCall[c].version]
  OBVIOUS
<1>2. /\ r.pc = pc /\ r.query = routeCall[c].query /\ r.asked = routeCall[c].asked
      /\ r.version = routeCall[c].version
  BY <1>1
<1>3. CallSound(r)
  BY <1>2, HasBuild DEF CallSound, RouteSteps, WithBuild
<1> QED BY <1>1, <1>3, CallSet DEF Proceed

LEMMA SearchOnSound ==
    ASSUME RouteInv, NEW c \in RouteCallers, routeCall[c].pc \in WithBuild, NEW s,
           SearchSound(routeCall[c].version, routeCall[c].query, s), SearchOn(c, s),
           activeBuild' = activeBuild
    PROVE  DOMAIN routeCall' = RouteCallers /\ CallsSound'
<1>1. PICK r : r = [pc |-> "search", query |-> routeCall[c].query, asked |-> routeCall[c].asked,
                    version |-> routeCall[c].version, search |-> s]
  OBVIOUS
<1>2. /\ r.pc = "search" /\ r.query = routeCall[c].query /\ r.asked = routeCall[c].asked
      /\ r.version = routeCall[c].version /\ r.search = s
  BY <1>1
<1>3. CallSound(r)
  BY <1>2, HasBuild DEF CallSound, RouteSteps, WithBuild
<1> QED BY <1>1, <1>3, CallSet DEF SearchOn

LEMMA ResultSound ==
    ASSUME RouteInv, NEW c \in RouteCallers, routeCall[c].pc \in WithBuild, NEW a,
           RightAnswer(routeCall[c].version, routeCall[c].query, a), Result(c, a),
           activeBuild' = activeBuild
    PROVE  DOMAIN routeCall' = RouteCallers /\ CallsSound'
<1>1. PICK r : r = [pc |-> "store", query |-> routeCall[c].query, asked |-> routeCall[c].asked,
                    version |-> routeCall[c].version, found |-> a]
  OBVIOUS
<1>2. /\ r.pc = "store" /\ r.query = routeCall[c].query /\ r.asked = routeCall[c].asked
      /\ r.version = routeCall[c].version /\ r.found = a
  BY <1>1
<1>3. CallSound(r)
  BY <1>2, HasBuild DEF CallSound, RouteSteps, WithBuild
<1> QED BY <1>1, <1>3, CallSet DEF Result

LEMMA AnswerSound ==
    ASSUME RouteInv, NEW c \in RouteCallers, NEW a, routeCall[c].asked \in 1 .. activeBuild,
           NEW v \in routeCall[c].asked .. activeBuild,
           RightAnswer(v, routeCall[c].query, a), AnswerRoute(c, a), activeBuild' = activeBuild
    PROVE  DOMAIN routeCall' = RouteCallers /\ CallsSound'
<1>1. PICK r : r = [pc |-> "done", query |-> routeCall[c].query, asked |-> routeCall[c].asked,
                    answer |-> a]
  OBVIOUS
<1>2. /\ r.pc = "done" /\ r.query = routeCall[c].query /\ r.asked = routeCall[c].asked
      /\ r.answer = a
  BY <1>1
<1>3. CallSound(r)
  BY <1>2 DEF CallSound, RouteSteps, WithBuild
<1> QED BY <1>1, <1>3, CallSet DEF AnswerRoute

-----------------------------------------------------------------------------
(* The steps. *)

LEMMA AskRouteKeeps ==
    ASSUME RouteInv, NEW c \in RouteCallers, AskRoute(c)
    PROVE  RouteInv'
<1>1. PICK q \in Routes :
         SetCall(c, IF ValidQuery(q)
                    THEN [pc |-> "version", query |-> NormalizedQuery(q), asked |-> activeBuild]
                    ELSE [pc |-> "done", query |-> q, asked |-> activeBuild, answer |-> InvalidQuery])
  BY DEF AskRoute
<1>2. /\ RouteTypeOK /\ UNCHANGED <<activeBuild, graph, loadMu, routeCache, leaving>>
  BY DEF AskRoute, RouteInv
<1>3. activeBuild \in 1 .. activeBuild /\ activeBuild \in activeBuild .. activeBuild
  BY <1>2, RouteAssumption DEF RouteTypeOK
<1>4. DOMAIN routeCall' = RouteCallers /\ CallsSound'
  <2>1. CASE ValidQuery(q)
    <3>1. PICK r : r = [pc |-> "version", query |-> NormalizedQuery(q), asked |-> activeBuild]
      OBVIOUS
    <3>2. r.pc = "version" /\ r.query = NormalizedQuery(q) /\ r.asked = activeBuild
      BY <3>1
    <3>3. q \in [from : Int, to : Int, security : Int, jumps : Int] /\ q.jumps \in Nat /\ MaxJumps \in Nat
      BY <2>1, RouteAssumption DEF ValidQuery
    <3>4. NormalizedQuery(q).jumps \in Nat
      BY <3>3 DEF NormalizedQuery
    <3>5. CallSound(r)
      BY <1>3, <3>2, <3>4 DEF CallSound, RouteSteps, WithBuild
    <3> QED BY <1>1, <1>2, <2>1, <3>1, <3>5, CallSet
  <2>2. CASE ~ ValidQuery(q)
    <3>1. PICK r : r = [pc |-> "done", query |-> q, asked |-> activeBuild, answer |-> InvalidQuery]
      OBVIOUS
    <3>2. r.pc = "done" /\ r.query = q /\ r.asked = activeBuild /\ r.answer = InvalidQuery
      BY <3>1
    <3>3. \A v : RightAnswer(v, q, InvalidQuery)
      BY DEF RightAnswer, InvalidQuery
    <3>4. CallSound(r)
      BY <1>3, <3>2, <3>3 DEF CallSound, RouteSteps, WithBuild
    <3> QED BY <1>1, <1>2, <2>2, <3>1, <3>4, CallSet
  <2> QED BY <2>1, <2>2
<1>5. RouteTypeOK'
  BY <1>2, <1>4 DEF RouteTypeOK
<1> QED BY <1>2, <1>4, <1>5, CacheStays DEF RouteInv

LEMMA LoadingKeeps ==
    ASSUME RouteInv, NEW c \in RouteCallers,
           ReadVersion(c) \/ LockLoad(c) \/ LoadGraph(c) \/ LoadFails(c)
    PROVE  RouteInv'
<1>1. RouteTypeOK /\ CacheSound /\ activeBuild' = activeBuild /\ leaving' = leaving
  BY DEF RouteInv, ReadVersion, LockLoad, LoadGraph, LoadFails
<1>2. /\ activeBuild \in DOMAIN Builds /\ DOMAIN Builds = 1 .. Len(Builds) /\ Len(Builds) \in Nat
  BY <1>1, RouteAssumption DEF RouteTypeOK
<1>3. CASE ReadVersion(c)
  <2>1. PICK pc \in {"lookup", "load"} :
           SetCall(c, [pc |-> pc, query |-> routeCall[c].query, asked |-> routeCall[c].asked,
                       version |-> activeBuild])
    BY <1>3 DEF ReadVersion
  <2>2. PICK r : r = [pc |-> pc, query |-> routeCall[c].query, asked |-> routeCall[c].asked,
                      version |-> activeBuild]
    OBVIOUS
  <2>3. /\ r.pc = pc /\ r.query = routeCall[c].query /\ r.asked = routeCall[c].asked
        /\ r.version = activeBuild
    BY <2>2
  <2>4. routeCall[c].asked \in 1 .. activeBuild /\ routeCall[c].query.jumps \in Nat
    BY <1>3 DEF ReadVersion, CallAt, RouteInv, CallsSound, CallSound
  <2>5. CallSound(r)
    BY <1>2, <2>3, <2>4 DEF CallSound, RouteSteps, WithBuild
  <2>6. DOMAIN routeCall' = RouteCallers /\ CallsSound'
    BY <1>1, <2>1, <2>2, <2>5, CallSet
  <2>7. UNCHANGED <<graph, loadMu, routeCache>>
    BY <1>3 DEF ReadVersion
  <2> QED BY <1>1, <2>6, <2>7, CacheStays DEF RouteInv, RouteTypeOK
<1>4. CASE LockLoad(c)
  <2>1. routeCall[c].pc = "load" /\ UNCHANGED <<graph, routeCache>> /\ loadMu' \in {loadMu, c}
    BY <1>4 DEF LockLoad, CallAt
  <2>2. PICK pc \in {"load", "loading", "lookup"} : Proceed(c, pc)
    BY <1>4 DEF LockLoad
  <2>3. DOMAIN routeCall' = RouteCallers /\ CallsSound'
    BY <1>1, <2>1, <2>2, ProceedSound DEF WithBuild
  <2> QED BY <1>1, <2>1, <2>3, CacheStays DEF RouteInv, RouteTypeOK
<1>5. CASE LoadGraph(c)
  <2>1. /\ routeCall[c].pc = "loading" /\ graph' = routeCall[c].version /\ routeCache' = << >>
        /\ loadMu' = NoCaller /\ Proceed(c, "lookup")
    BY <1>5 DEF LoadGraph, CallAt
  <2>2. DOMAIN routeCall' = RouteCallers /\ CallsSound'
    BY <1>1, <2>1, ProceedSound DEF WithBuild
  <2>3. graph' \in 0 .. Len(Builds)
    BY <1>2, <2>1, HasBuild DEF WithBuild
  <2>4. DOMAIN routeCache' = {} /\ IsFiniteSet(DOMAIN routeCache') /\ Cardinality(DOMAIN routeCache') = 0
    BY <2>1, FS_EmptySet
  <2>5. RouteTypeOK'
    BY <1>1, <2>1, <2>2, <2>3, <2>4, RouteAssumption DEF RouteTypeOK
  <2>6. CacheSound'
    BY <2>4 DEF CacheSound
  <2> QED BY <2>2, <2>5, <2>6 DEF RouteInv
<1>6. CASE LoadFails(c)
  <2>1. /\ routeCall[c].pc \in {"version", "loading"} /\ AnswerRoute(c, RouteFailed)
        /\ loadMu' \in {loadMu, NoCaller} /\ UNCHANGED <<graph, routeCache>>
    BY <1>6 DEF LoadFails, CallAt
  <2>2. routeCall[c].asked \in 1 .. activeBuild
    BY <2>1 DEF RouteInv, CallsSound, CallSound
  <2>3. activeBuild \in routeCall[c].asked .. activeBuild
    BY <1>2, <2>2
  <2>4. RightAnswer(activeBuild, routeCall[c].query, RouteFailed)
    BY DEF RightAnswer, RouteFailed
  <2>5. DOMAIN routeCall' = RouteCallers /\ CallsSound'
    BY <1>1, <2>1, <2>2, <2>3, <2>4, AnswerSound
  <2> QED BY <1>1, <2>1, <2>5, CacheStays DEF RouteInv, RouteTypeOK
<1> QED BY <1>3, <1>4, <1>5, <1>6

LEMMA LookupRouteKeeps ==
    ASSUME RouteInv, NEW c \in RouteCallers, LookupRoute(c)
    PROVE  RouteInv'
<1>1. PICK v : v = routeCall[c].version
  OBVIOUS
<1>2. PICK q : q = routeCall[c].query
  OBVIOUS
<1>3. /\ RouteTypeOK /\ CacheSound /\ routeCall[c].pc = "lookup"
      /\ UNCHANGED <<activeBuild, graph, loadMu, routeCache, leaving>>
  BY DEF LookupRoute, CallAt, RouteInv
<1>4. /\ q.jumps \in Nat /\ routeCall[c].asked \in 1 .. activeBuild
      /\ v \in routeCall[c].asked .. activeBuild
  BY <1>1, <1>2, <1>3, HasBuild DEF WithBuild
<1>5. \/ RouteKey(c) \in DOMAIN routeCache /\ AnswerRoute(c, routeCache[RouteKey(c)].answer)
      \/ (~ Passable(v, q, q.from) \/ q.to \notin Systems(v)) /\ Result(c, NoRoute)
      \/ Passable(v, q, q.from) /\ q.from = q.to /\ Result(c, Ready(v, <<q.from>>))
      \/ Passable(v, q, q.from) /\ q.from # q.to /\ SearchOn(c, SearchFrom(q.from))
  BY <1>1, <1>2 DEF LookupRoute
<1>6. DOMAIN routeCall' = RouteCallers /\ CallsSound'
  <2>1. CASE RouteKey(c) \in DOMAIN routeCache /\ AnswerRoute(c, routeCache[RouteKey(c)].answer)
    <3>1. RouteKey(c).version = v /\ RouteKey(c).query = q
      BY <1>1, <1>2 DEF RouteKey
    <3>2. RightAnswer(v, q, routeCache[RouteKey(c)].answer)
      BY <1>3, <2>1, <3>1 DEF CacheSound
    <3> QED BY <1>2, <1>3, <1>4, <2>1, <3>2, AnswerSound
  <2>2. CASE (~ Passable(v, q, q.from) \/ q.to \notin Systems(v)) /\ Result(c, NoRoute)
    <3>1. RightAnswer(v, q, NoRoute)
      BY <1>4, <2>2, NowhereIsRight
    <3> QED BY <1>1, <1>2, <1>3, <2>2, <3>1, ResultSound DEF WithBuild
  <2>3. CASE Passable(v, q, q.from) /\ q.from = q.to /\ Result(c, Ready(v, <<q.from>>))
    <3>1. RightAnswer(v, q, Ready(v, <<q.from>>))
      BY <1>4, <2>3, HereIsRight
    <3> QED BY <1>1, <1>2, <1>3, <2>3, <3>1, ResultSound DEF WithBuild
  <2>4. CASE Passable(v, q, q.from) /\ q.from # q.to /\ SearchOn(c, SearchFrom(q.from))
    <3>1. SearchSound(v, q, SearchFrom(q.from))
      BY <1>4, <2>4, SearchStarts
    <3> QED BY <1>1, <1>2, <1>3, <2>4, <3>1, SearchOnSound DEF WithBuild
  <2> QED BY <1>5, <2>1, <2>2, <2>3, <2>4
<1> QED BY <1>3, <1>6, CacheStays DEF RouteInv, RouteTypeOK

LEMMA SearchRouteKeeps ==
    ASSUME RouteInv, NEW c \in RouteCallers, SearchRoute(c) \/ SearchEnds(c)
    PROVE  RouteInv'
<1>1. PICK v : v = routeCall[c].version
  OBVIOUS
<1>2. PICK q : q = routeCall[c].query
  OBVIOUS
<1>3. PICK s : s = routeCall[c].search
  OBVIOUS
<1>4. /\ RouteTypeOK /\ CacheSound /\ routeCall[c].pc = "search"
      /\ UNCHANGED <<activeBuild, graph, loadMu, routeCache, leaving>>
  BY DEF SearchRoute, SearchEnds, CallAt, RouteInv
<1>5. SearchSound(v, q, s)
  BY <1>1, <1>2, <1>3, <1>4 DEF RouteInv, CallsSound, CallSound
<1>6. v \in DOMAIN Builds
  BY <1>1, <1>4, HasBuild DEF WithBuild
<1>7. CASE SearchRoute(c)
  <2>1. PICK U : U = Unmet(v, q, s)
    OBVIOUS
  <2>2. s.queue # << >>
    BY <1>3, <1>7 DEF SearchRoute
  <2>3. PICK new \in Bijection(1 .. Cardinality(U), U) :
           IF q.to \in U THEN Result(c, Ready(v, PathTo(Expanded(s, new), q.to)))
           ELSE SearchOn(c, Expanded(s, new))
    BY <1>1, <1>2, <1>3, <1>7, <2>1 DEF SearchRoute
  <2>4. IsFiniteSet(U)
    <3>1. s.queue \in Seq(Met(s))
      BY <1>5 DEF SearchSound, Frontier
    <3>2. Head(s.queue) \in Met(s)
      BY <2>2, <3>1
    <3>3. Head(s.queue) \in Systems(v)
      BY <1>5, <3>2 DEF SearchSound, Tree, Passable
    <3>4. IsFiniteSet(Neighbors(v, Head(s.queue)))
      BY <1>6, <3>3, RouteAssumption
    <3>5. U \subseteq Neighbors(v, Head(s.queue))
      BY <2>1 DEF Unmet
    <3> QED BY <3>4, <3>5, FS_Subset
  <2>5. CASE q.to \in U
    <3>1. RightAnswer(v, q, Ready(v, PathTo(Expanded(s, new), q.to)))
      BY <1>5, <2>1, <2>2, <2>4, <2>5, FoundIsRight
    <3>2. DOMAIN routeCall' = RouteCallers /\ CallsSound'
      BY <1>1, <1>2, <1>4, <2>3, <2>5, <3>1, ResultSound DEF WithBuild
    <3> QED BY <1>4, <3>2, CacheStays DEF RouteInv, RouteTypeOK
  <2>6. CASE q.to \notin U
    <3>1. PICK t : t = Expanded(s, new)
      OBVIOUS
    <3>2. Met(t) = Met(s) \cup U
      BY <1>5, <2>1, <2>2, <2>4, <3>1, ExpandedIs
    <3>3. Tree(v, q, t) /\ Frontier(v, q, t)
      BY <1>5, <2>1, <2>2, <2>4, <3>1, TreeGrows, FrontierMoves
    <3>4. SearchSound(v, q, t)
      BY <1>5, <2>6, <3>2, <3>3 DEF SearchSound
    <3>5. DOMAIN routeCall' = RouteCallers /\ CallsSound'
      BY <1>1, <1>2, <1>4, <2>3, <2>6, <3>1, <3>4, SearchOnSound DEF WithBuild
    <3> QED BY <1>4, <3>5, CacheStays DEF RouteInv, RouteTypeOK
  <2> QED BY <2>5, <2>6
<1>8. CASE SearchEnds(c)
  <2>1. PICK a : RightAnswer(v, q, a) /\ Result(c, a)
    <3>1. CASE s.queue = << >> /\ Result(c, NoRoute)
      BY <1>5, <3>1, EmptyQueueIsRight
    <3>2. CASE Result(c, RouteFailed)
      BY <3>2 DEF RightAnswer, RouteFailed
    <3> QED BY <1>3, <1>8, <3>1, <3>2 DEF SearchEnds
  <2>2. DOMAIN routeCall' = RouteCallers /\ CallsSound'
    BY <1>1, <1>2, <1>4, <2>1, ResultSound DEF WithBuild
  <2> QED BY <1>4, <2>2, CacheStays DEF RouteInv, RouteTypeOK
<1> QED BY <1>7, <1>8

\* What a full cache keeps leaves room for one entry.
LEMMA KeptLeavesRoom ==
    ASSUME RouteInv, NEW S \in Kept
    PROVE  S \subseteq DOMAIN routeCache /\ IsFiniteSet(S) /\ Cardinality(S) < MaxEntries
<1>1. PICK D : D = DOMAIN routeCache
  OBVIOUS
<1>2. PICK C : C = {k \in DOMAIN routeCache : ~routeCache[k].expired}
  OBVIOUS
<1>3. IsFiniteSet(D) /\ Cardinality(D) <= MaxEntries /\ MaxEntries \in Nat \ {0}
  BY <1>1, RouteAssumption DEF RouteInv, CacheSound, RouteTypeOK
<1>4. C \subseteq D
  BY <1>1, <1>2
<1>5. /\ IsFiniteSet(C) /\ Cardinality(C) <= Cardinality(D)
      /\ Cardinality(C) \in Nat /\ Cardinality(D) \in Nat
  BY <1>3, <1>4, FS_Subset, FS_CardinalityType
<1>6. \/ S = D /\ ~ (Cardinality(D) >= MaxEntries)
      \/ S = C /\ ~ (Cardinality(C) >= MaxEntries)
      \/ \E k \in C : S = C \ {k}
  BY <1>1, <1>2 DEF Kept
<1>7. CASE S = D /\ ~ (Cardinality(D) >= MaxEntries)
  BY <1>1, <1>3, <1>5, <1>7
<1>8. CASE S = C /\ ~ (Cardinality(C) >= MaxEntries)
  BY <1>1, <1>3, <1>4, <1>5, <1>8
<1>9. CASE \E k \in C : S = C \ {k}
  <2>1. PICK k \in C : S = C \ {k}
    BY <1>9
  <2>2. IsFiniteSet(S) /\ Cardinality(S) = Cardinality(C) - 1
    BY <1>5, <2>1, FS_RemoveElement
  <2> QED BY <1>1, <1>3, <1>4, <1>5, <2>1, <2>2
<1> QED BY <1>6, <1>7, <1>8, <1>9

LEMMA StoreRouteKeeps ==
    ASSUME RouteInv, NEW c \in RouteCallers, StoreRoute(c)
    PROVE  RouteInv'
<1>1. PICK entry : entry = [answer |-> routeCall[c].found, expired |-> FALSE]
  OBVIOUS
<1>2. PICK key : key = RouteKey(c)
  OBVIOUS
<1>3. PICK S \in Kept :
         routeCache' = [k \in S \cup {key} |-> IF k = key THEN entry ELSE routeCache[k]]
  BY <1>1, <1>2 DEF StoreRoute
<1>4. /\ RouteTypeOK /\ CacheSound /\ routeCall[c].pc = "store"
      /\ AnswerRoute(c, routeCall[c].found)
      /\ UNCHANGED <<activeBuild, graph, loadMu, leaving>>
  BY DEF StoreRoute, CallAt, RouteInv
<1>5. /\ routeCall[c].version \in DOMAIN Builds /\ routeCall[c].asked \in 1 .. activeBuild
      /\ routeCall[c].version \in routeCall[c].asked .. activeBuild
  BY <1>4, HasBuild DEF WithBuild
<1>6. RightAnswer(routeCall[c].version, routeCall[c].query, routeCall[c].found)
  BY <1>4 DEF RouteInv, CallsSound, CallSound
<1>7. DOMAIN routeCall' = RouteCallers /\ CallsSound'
  BY <1>4, <1>5, <1>6, AnswerSound
<1>8. S \subseteq DOMAIN routeCache /\ IsFiniteSet(S) /\ Cardinality(S) < MaxEntries
  BY KeptLeavesRoom
<1>9. key.version = routeCall[c].version /\ key.query = routeCall[c].query
  BY <1>2 DEF RouteKey
<1>10. entry.answer = routeCall[c].found /\ entry.expired = FALSE
  BY <1>1
<1>11. /\ DOMAIN routeCache' = S \cup {key} /\ routeCache'[key] = entry
       /\ \A k \in S : k # key => routeCache'[k] = routeCache[k]
  BY <1>3
<1>12. IsFiniteSet(DOMAIN routeCache') /\ Cardinality(DOMAIN routeCache') <= MaxEntries
  <2>1. PICK n \in Nat, m \in Nat : n = Cardinality(S) /\ m = MaxEntries
    BY <1>8, FS_CardinalityType, RouteAssumption
  <2>2. IsFiniteSet(S \cup {key}) /\ Cardinality(S \cup {key}) \in {n, n + 1}
    BY <1>8, <2>1, FS_AddElement
  <2> QED BY <1>8, <1>11, <2>1, <2>2
<1>13. ASSUME NEW k \in DOMAIN routeCache'
       PROVE  /\ k.version \in DOMAIN Builds /\ routeCache'[k].expired \in BOOLEAN
              /\ RightAnswer(k.version, k.query, routeCache'[k].answer)
  <2>1. CASE k = key
    BY <1>5, <1>6, <1>9, <1>10, <1>11, <2>1
  <2>2. CASE k # key
    BY <1>4, <1>8, <1>11, <2>2 DEF RouteTypeOK, CacheSound
  <2> QED BY <2>1, <2>2
<1>14. RouteTypeOK'
  BY <1>4, <1>7, <1>12, <1>13 DEF RouteTypeOK
<1>15. CacheSound'
  BY <1>12, <1>13 DEF CacheSound, RightAnswer, WaysOf
<1> QED BY <1>7, <1>14, <1>15 DEF RouteInv

LEMMA ReturnKeeps ==
    ASSUME RouteInv, NEW c \in RouteCallers, LeaveRoute(c) \/ ReturnRoute(c)
    PROVE  RouteInv'
<1>1. /\ RouteTypeOK /\ leaving' \subseteq RouteCallers
      /\ UNCHANGED <<activeBuild, graph, loadMu, routeCache>>
  BY DEF LeaveRoute, ReturnRoute, RouteInv, RouteTypeOK
<1>2. DOMAIN routeCall' = RouteCallers /\ CallsSound'
  <2>1. CASE LeaveRoute(c)
    BY <1>1, <2>1, CallsStay DEF LeaveRoute
  <2>2. CASE ReturnRoute(c)
    <3>1. CallSound(NoCall)
      BY DEF CallSound, NoCall, RouteSteps, WithBuild
    <3> QED BY <1>1, <2>2, <3>1, CallSet DEF ReturnRoute
  <2> QED BY <2>1, <2>2
<1> QED BY <1>1, <1>2, CacheStays DEF RouteInv, RouteTypeOK

LEMMA ExpireAnswerKeeps ==
    ASSUME RouteInv, ExpireAnswer
    PROVE  RouteInv'
<1>1. PICK key \in DOMAIN routeCache :
         routeCache' = [routeCache EXCEPT ![key] =
                          [answer |-> routeCache[key].answer, expired |-> TRUE]]
  BY DEF ExpireAnswer
<1>2. PICK entry : entry = [answer |-> routeCache[key].answer, expired |-> TRUE]
  OBVIOUS
<1>3. entry.answer = routeCache[key].answer /\ entry.expired = TRUE
  BY <1>2
<1>4. /\ DOMAIN routeCache' = DOMAIN routeCache /\ routeCache'[key] = entry
      /\ \A k \in DOMAIN routeCache : k # key => routeCache'[k] = routeCache[k]
  BY <1>1, <1>2
<1>5. RouteTypeOK /\ CacheSound /\ UNCHANGED <<activeBuild, graph, loadMu, routeCall, leaving>>
  BY DEF ExpireAnswer, RouteInv
<1>6. \A k \in DOMAIN routeCache' : /\ k \in DOMAIN routeCache
                                    /\ routeCache'[k].expired \in BOOLEAN
                                    /\ routeCache'[k].answer = routeCache[k].answer
  BY <1>3, <1>4, <1>5 DEF RouteTypeOK
<1>7. RouteTypeOK'
  BY <1>4, <1>5, <1>6 DEF RouteTypeOK
<1>8. CacheSound'
  BY <1>4, <1>5, <1>6 DEF CacheSound
<1> QED BY <1>5, <1>7, <1>8, CallsStay DEF RouteInv

\* What a caller may be answered with grows with the builds that were active.
LEMMA NewBuildKeeps ==
    ASSUME RouteInv, NewBuild
    PROVE  RouteInv'
<1>1. /\ RouteTypeOK /\ CallsSound /\ activeBuild' = activeBuild + 1 /\ activeBuild < Len(Builds)
      /\ UNCHANGED <<graph, loadMu, routeCache, routeCall, leaving>>
  BY DEF NewBuild, RouteInv
<1>2. /\ activeBuild \in Nat /\ Len(Builds) \in Nat /\ DOMAIN Builds = 1 .. Len(Builds)
      /\ activeBuild' \in DOMAIN Builds /\ activeBuild' \in Nat
  BY <1>1, RouteAssumption DEF RouteTypeOK
<1>3. RouteTypeOK'
  BY <1>1, <1>2 DEF RouteTypeOK
<1>4. ASSUME NEW x \in 1 .. activeBuild
      PROVE  x \in 1 .. activeBuild' /\ x .. activeBuild \subseteq x .. activeBuild'
  BY <1>1, <1>2
<1>5. ASSUME NEW c \in RouteCallers PROVE CallSound(routeCall[c])'
  <2>1. PICK r : r = routeCall[c]
    OBVIOUS
  <2>2. CallSound(r)
    BY <1>1, <2>1 DEF CallsSound
  <2>3. r.pc # "idle" => /\ r.asked \in 1 .. activeBuild /\ r.asked \in 1 .. activeBuild'
                         /\ r.asked .. activeBuild \subseteq r.asked .. activeBuild'
    BY <1>4, <2>2 DEF CallSound
  <2>4. r.pc \in WithBuild \cup {"done"} => r.pc # "idle"
    BY DEF WithBuild
  <2>5. CallSound(r)'
    BY <2>2, <2>3, <2>4 DEF CallSound
  <2> QED BY <1>1, <2>1, <2>5 DEF CallSound
<1>6. CallsSound'
  BY <1>1, <1>5 DEF CallsSound
<1> QED BY <1>1, <1>3, <1>6, CacheStays DEF RouteInv

LEMMA RouteStepKeeps == RouteInv /\ [RouteNext]_routeVars => RouteInv'
<1> SUFFICES ASSUME RouteInv, [RouteNext]_routeVars PROVE RouteInv'
  OBVIOUS
<1>1. CASE ExpireAnswer
  BY <1>1, ExpireAnswerKeeps
<1>2. CASE NewBuild
  BY <1>2, NewBuildKeeps
<1>3. ASSUME NEW c \in RouteCallers,
             \/ AskRoute(c) \/ ReadVersion(c) \/ LockLoad(c) \/ LoadGraph(c) \/ LoadFails(c)
             \/ LookupRoute(c) \/ SearchRoute(c) \/ SearchEnds(c) \/ StoreRoute(c)
             \/ LeaveRoute(c) \/ ReturnRoute(c)
      PROVE  RouteInv'
  BY <1>3, AskRouteKeeps, LoadingKeeps, LookupRouteKeeps, SearchRouteKeeps, StoreRouteKeeps,
     ReturnKeeps
<1>4. CASE UNCHANGED routeVars
  <2>1. UNCHANGED <<activeBuild, graph, loadMu, routeCache, routeCall, leaving>>
    BY <1>4 DEF routeVars
  <2>2. RouteTypeOK'
    BY <2>1 DEF RouteInv, RouteTypeOK
  <2> QED BY <2>1, <2>2, CallsStay, CacheStays DEF RouteInv
<1> QED BY <1>1, <1>2, <1>3, <1>4 DEF RouteNext

LEMMA RouteInvariant == RouteSpec => []RouteInv
BY RouteStarts, RouteStepKeeps, PTL DEF RouteSpec

\* Route answers with a shortest way of a build that was active while its caller
\* waited, or with none where there is none within the limits: for every map, every
\* set of queries and callers, whatever is loaded, cached, evicted, expired or
\* cancelled meanwhile, and in whatever order the links of a system are followed.
THEOREM RoutesStayShortest == RouteSpec => []RoutesAreShortest
<1>1. RouteInv => RoutesAreShortest
  BY DEF RouteInv, CallsSound, CallSound, RoutesAreShortest, CallAt, RouteSteps, WithBuild
<1> QED BY <1>1, RouteInvariant, PTL
====
