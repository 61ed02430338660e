---------------------------- MODULE DesktopProofs ----------------------------
(***************************************************************************)
(* Proofs about the desktop application: that its outbox loses no message, *)
(* that the selected map database is never closed, that every line of a    *)
(* log file is stored once, that the events of the server reach the UI     *)
(* once, in order and without a gap that it is not known to leave, and     *)
(* that no refresh token is used twice; for any number of messages,        *)
(* passes, databases, calls, files, budgets, loops, events, requests,      *)
(* devices, faults and restarts.                                           *)
(*                                                                         *)
(* What makes them inductive: a pass that holds an ACK for its current row *)
(* holds it because the relay has taken the message; a handle is open just *)
(* when it is the selected one or one a call holds, and no two hold the    *)
(* same; a scan's buffer is what stands in its file at the cursor, and the *)
(* cursor of a file is where a line ends; the loop that runs is never      *)
(* behind the stored cursor, and each event up to its own cursor, or up to *)
(* the one it was sent last, is handed over, in hand or known as dropped;  *)
(* and what is in memory or in the vault is the latest refresh token of    *)
(* its device but while the renewal that replaced it is being saved.       *)
(***************************************************************************)
EXTENDS DesktopOutbox, SdeIndex, LogTail, DesktopRealtime, DesktopSession, OrderLemmas, TLAPS

(* The outbox                                                              *)

\* What a pass is, but for the types of its rows.
PassRecord(r) == r = [at |-> r.at, items |-> r.items, answer |-> r.answer]

AckIsTrue(p) == pass[p].at = "settle" /\ IsAck(p) => Current(p).id \in accepted

QueueInv == /\ QueuedUntilAccepted
       /\ DOMAIN pass = Passes
       /\ \A p \in Passes : PassRecord(pass[p]) /\ AckIsTrue(p)

LEMMA RestingPass == PassRecord(Resting) /\ Resting.at = "rest"
BY DEF PassRecord, Resting

\* A pass that goes on or ends has no answer yet.
LEMMA OnwardsPass ==
    ASSUME NEW p \in Passes
    PROVE  PassRecord(Onwards(p)) /\ Onwards(p).at # "settle"
BY RestingPass DEF Onwards, PassRecord

\* A pass that moves to a step without an answer disturbs nothing, as long as
\* what the relay has taken stays taken.
LEMMA PassMoves ==
    ASSUME QueueInv, NEW p \in Passes, NEW r, PassRecord(r), r.at # "settle",
           pass' = [pass EXCEPT ![p] = r], accepted' = accepted
    PROVE  DOMAIN pass' = Passes /\ \A q \in Passes : PassRecord(pass'[q]) /\ AckIsTrue(q)'
<1>1. DOMAIN pass' = Passes /\ pass'[p] = r
  BY DEF QueueInv
<1>2. ASSUME NEW q \in Passes
      PROVE  PassRecord(pass'[q]) /\ AckIsTrue(q)'
  <2>1. CASE q = p
    BY <1>1, <2>1 DEF AckIsTrue
  <2>2. CASE q # p
    <3>1. pass'[q] = pass[q]
      BY <2>2 DEF QueueInv
    <3> QED BY <3>1 DEF QueueInv, AckIsTrue, IsAck, Current
  <2> QED BY <2>1, <2>2
<1> QED BY <1>1, <1>2

LEMMA InitOutbox == OutboxInit => QueueInv
BY RestingPass DEF OutboxInit, QueueInv, QueuedUntilAccepted, AckIsTrue

\* Passes that stay as they are.
LEMMA PassesStay ==
    ASSUME QueueInv, pass' = pass, accepted' = accepted, QueuedUntilAccepted'
    PROVE  QueueInv'
BY DEF QueueInv, AckIsTrue, IsAck, Current

LEMMA StepOutbox == QueueInv /\ [OutboxNext]_outboxVars => QueueInv'
<1> SUFFICES ASSUME QueueInv, [OutboxNext]_outboxVars
             PROVE  QueueInv'
  OBVIOUS
<1>q. enqueued \subseteq DOMAIN outbox \cup accepted
  BY DEF QueueInv, QueuedUntilAccepted
<1>1. ASSUME NEW m \in Messages, Enqueue(m)
      PROVE  QueueInv'
  <2>1. QueuedUntilAccepted'
    BY <1>q, <1>1 DEF Enqueue, QueuedUntilAccepted
  <2> QED BY <1>1, <2>1, PassesStay DEF Enqueue
<1>2. ASSUME NEW p \in Passes, ReadPending(p)
      PROVE  QueueInv'
  <2>1. PICK s \in Pending :
           pass' = [pass EXCEPT ![p] =
                      [at |-> "post", answer |-> NoAnswer,
                       items |-> [i \in DOMAIN s |->
                                    [id |-> s[i], attempts |-> outbox[s[i]].attempts]]]]
    BY <1>2 DEF ReadPending
  <2> DEFINE r == [at |-> "post", answer |-> NoAnswer,
                   items |-> [i \in DOMAIN s |->
                                [id |-> s[i], attempts |-> outbox[s[i]].attempts]]]
  <2>2. PassRecord(r) /\ r.at # "settle"
    BY DEF PassRecord
  <2>3. pass' = [pass EXCEPT ![p] = r]
    BY <2>1
  <2>4. QueuedUntilAccepted' /\ accepted' = accepted
    BY <1>q, <1>2 DEF ReadPending, QueuedUntilAccepted
  <2> HIDE DEF r
  <2> QED BY <2>2, <2>3, <2>4, PassMoves DEF QueueInv
<1>3. ASSUME NEW p \in Passes, PostEnvelope(p)
      PROVE  QueueInv'
  <2>1. PICK reached \in BOOLEAN, a \in {NoAnswer, [success |-> TRUE, id |-> "none"],
                                         [success |-> TRUE, id |-> Current(p).id],
                                         [success |-> FALSE, id |-> Current(p).id]} :
          /\ a.success /\ a.id = Current(p).id => reached
          /\ accepted' = IF reached THEN accepted \cup {Current(p).id} ELSE accepted
          /\ pass' = [pass EXCEPT ![p].at = "settle", ![p].answer = a]
    BY <1>3 DEF PostEnvelope
  <2>2. PassRecord(pass[p]) /\ DOMAIN pass = Passes
    BY DEF QueueInv
  <2>3. /\ DOMAIN pass' = Passes
        /\ pass'[p] = [at |-> "settle", items |-> pass[p].items, answer |-> a]
        /\ \A q \in Passes : q # p => pass'[q] = pass[q]
    BY <2>1, <2>2 DEF PassRecord
  <2>4. accepted \subseteq accepted'
    BY <2>1
  <2>5. QueuedUntilAccepted'
    BY <1>q, <1>3, <2>4 DEF PostEnvelope, QueuedUntilAccepted
  <2>6. ASSUME NEW q \in Passes
        PROVE  PassRecord(pass'[q]) /\ AckIsTrue(q)'
    <3>1. CASE q # p
      <4>1. pass'[q] = pass[q] /\ PassRecord(pass[q]) /\ AckIsTrue(q)
        BY <2>3, <3>1 DEF QueueInv
      <4> QED BY <2>4, <4>1 DEF AckIsTrue, IsAck, Current
    <3>2. CASE q = p
      <4>1. PassRecord(pass'[p]) /\ pass'[p].answer = a /\ pass'[p].items = pass[p].items
        BY <2>3 DEF PassRecord
      <4>2. Head(pass'[p].items) = Current(p)
        BY <4>1 DEF Current
      <4>3. a.success /\ a.id = Current(p).id => Current(p).id \in accepted'
        BY <2>1
      <4> QED BY <3>2, <4>1, <4>2, <4>3 DEF AckIsTrue, IsAck, Current
    <3> QED BY <3>1, <3>2
  <2> QED BY <2>3, <2>5, <2>6 DEF QueueInv
<1>4. ASSUME NEW p \in Passes, AckRow(p)
      PROVE  QueueInv'
  <2>1. Current(p).id \in accepted
    BY <1>4 DEF AckRow, QueueInv, AckIsTrue
  <2>2. CASE /\ outbox' = [m \in DOMAIN outbox \ {Current(p).id} |-> outbox[m]]
             /\ pass' = [pass EXCEPT ![p] = Onwards(p)]
    <3>1. QueuedUntilAccepted'
      BY <1>q, <1>4, <2>1, <2>2 DEF AckRow, QueuedUntilAccepted
    <3>2. accepted' = accepted
      BY <1>4 DEF AckRow
    <3>3. DOMAIN pass' = Passes /\ \A q \in Passes : PassRecord(pass'[q]) /\ AckIsTrue(q)'
      BY <2>2, <3>2, OnwardsPass, PassMoves
    <3> QED BY <3>1, <3>3 DEF QueueInv
  <2>3. CASE outbox' = outbox /\ pass' = [pass EXCEPT ![p] = Resting]
    <3>1. QueuedUntilAccepted'
      BY <1>q, <1>4, <2>3 DEF AckRow, QueuedUntilAccepted
    <3>2. accepted' = accepted
      BY <1>4 DEF AckRow
    <3>3. DOMAIN pass' = Passes /\ \A q \in Passes : PassRecord(pass'[q]) /\ AckIsTrue(q)'
      BY <2>3, <3>2, RestingPass, PassMoves
    <3> QED BY <3>1, <3>3 DEF QueueInv
  <2> QED BY <1>4, <2>2, <2>3 DEF AckRow
<1>5. ASSUME NEW p \in Passes, ScheduleRetry(p)
      PROVE  QueueInv'
  <2>1. DOMAIN outbox' = DOMAIN outbox /\ accepted' = accepted /\ enqueued' = enqueued
    BY <1>5 DEF ScheduleRetry
  <2>2. pass' = [pass EXCEPT ![p] = Onwards(p)] \/ pass' = [pass EXCEPT ![p] = Resting]
    BY <1>5 DEF ScheduleRetry
  <2>3. QueuedUntilAccepted'
    BY <1>q, <2>1 DEF QueuedUntilAccepted
  <2> QED BY <2>1, <2>2, <2>3, OnwardsPass, RestingPass, PassMoves DEF QueueInv
<1>6. CASE TickOutbox
  <2>1. QueuedUntilAccepted'
    BY <1>q, <1>6 DEF TickOutbox, QueuedUntilAccepted
  <2> QED BY <1>6, <2>1, PassesStay DEF TickOutbox
<1>7. CASE RestartOutbox
  BY <1>7, <1>q, RestingPass DEF RestartOutbox, QueueInv, QueuedUntilAccepted, AckIsTrue
<1>8. CASE UNCHANGED outboxVars
  <2>1. QueuedUntilAccepted'
    BY <1>q, <1>8 DEF outboxVars, QueuedUntilAccepted
  <2> QED BY <1>8, <2>1, PassesStay DEF outboxVars
<1> QED BY <1>1, <1>2, <1>3, <1>4, <1>5, <1>6, <1>7, <1>8 DEF OutboxNext

\* The types of the rows and of the passes.
Row == [attempts : Nat, next : Int]

PassTyped(r) ==
    /\ r.at \in {"rest", "post", "settle"} /\ r.items \in Seq(Items)
    /\ r.at # "rest" => r.items # << >>

OutboxTyped ==
    /\ DOMAIN outbox \subseteq Messages /\ \A m \in DOMAIN outbox : outbox[m] \in Row
    /\ now \in Nat /\ attemptLimit \in AttemptLimits
    /\ \A p \in Passes : PassTyped(pass[p])
    /\ accepted \subseteq Messages /\ enqueued \subseteq Messages

LEMMA RestingTyped == PassTyped(Resting)
BY EmptySeq DEF PassTyped, Resting

\* The row a pass is busy with is a row, and so are those after it.
LEMMA CurrentTyped ==
    ASSUME QueueInv, OutboxTyped, NEW p \in Passes, pass[p].at # "rest"
    PROVE  Current(p) \in Items /\ PassTyped(Onwards(p))
<1> DEFINE s == pass[p].items
<1>1. s \in Seq(Items) /\ s # << >>
  BY DEF OutboxTyped, PassTyped
<1>2. Current(p) \in Items
  <2>1. Len(s) \in Nat \ {0}
    BY <1>1, EmptySeq
  <2>2. s[1] \in Items
    BY <1>1, <2>1, ElementOfSeq
  <2> HIDE DEF s
  <2>3. Head(s) = s[1]
    BY <1>1
  <2> QED BY <2>2, <2>3 DEF Current, s
<1>3. PassTyped(Onwards(p))
  <2>1. CASE Len(s) = 1
    BY <2>1, RestingTyped DEF Onwards
  <2>2. CASE Len(s) # 1
    <3>1. Tail(s) \in Seq(Items) /\ Len(Tail(s)) = Len(s) - 1 /\ Len(s) \in Nat \ {0}
      BY <1>1, HeadTailProperties, EmptySeq
    <3>2. Len(Tail(s)) # 0 /\ Len(<< >>) = 0
      <4> HIDE DEF s
      <4> QED BY <2>2, <3>1, EmptySeq
    <3>3. Tail(s) # << >>
      BY <3>2
    <3> QED BY <2>2, <3>1, <3>3 DEF Onwards, PassTyped
  <2> QED BY <2>1, <2>2
<1> QED BY <1>2, <1>3

\* One pass moves to a step of its type.
LEMMA TypedPasses ==
    ASSUME QueueInv, OutboxTyped, NEW p \in Passes, NEW r, PassTyped(r), pass' = [pass EXCEPT ![p] = r]
    PROVE  \A q \in Passes : PassTyped(pass'[q])
BY DEF QueueInv, OutboxTyped

LEMMA TypedOutbox ==
    ASSUME QueueInv, OutboxTyped, [OutboxNext]_outboxVars
    PROVE  OutboxTyped'
<1>1. ASSUME NEW m \in Messages, Enqueue(m)
      PROVE  OutboxTyped'
  <2>1. [attempts |-> 0, next |-> now] \in Row
    BY DEF OutboxTyped, Row
  <2>2. /\ DOMAIN outbox' = DOMAIN outbox \cup {m} /\ outbox'[m] = [attempts |-> 0, next |-> now]
        /\ \A k \in DOMAIN outbox : k # m => outbox'[k] = outbox[k]
    BY <1>1 DEF Enqueue
  <2>3. DOMAIN outbox' \subseteq Messages /\ \A k \in DOMAIN outbox' : outbox'[k] \in Row
    BY <2>1, <2>2 DEF OutboxTyped
  <2>4. enqueued' \subseteq Messages
    BY <1>1 DEF Enqueue, OutboxTyped
  <2> QED BY <1>1, <2>3, <2>4 DEF Enqueue, OutboxTyped
<1>2. ASSUME NEW p \in Passes, ReadPending(p)
      PROVE  OutboxTyped'
  <2>0. UNCHANGED <<outbox, now, attemptLimit, accepted, enqueued>>
    BY <1>2 DEF ReadPending
  <2>1. PICK s \in Pending :
           pass' = [pass EXCEPT ![p] =
                      [at |-> "post", answer |-> NoAnswer,
                       items |-> [i \in DOMAIN s |->
                                    [id |-> s[i], attempts |-> outbox[s[i]].attempts]]]]
    BY <1>2 DEF ReadPending
  <2>2. PICK n \in 1..Limit : s \in [1..n -> Due]
    BY DEF Pending
  <2> DEFINE items == [i \in DOMAIN s |-> [id |-> s[i], attempts |-> outbox[s[i]].attempts]]
             r == [at |-> "post", answer |-> NoAnswer, items |-> items]
  <2>3. \A i \in 1..n : s[i] \in DOMAIN outbox
    BY <2>2 DEF Due
  <2>4. \A i \in 1..n : [id |-> s[i], attempts |-> outbox[s[i]].attempts] \in Items
    BY <2>3 DEF OutboxTyped, Row, Items
  <2>5. items = [i \in 1..n |-> items[i]] /\ \A i \in 1..n : items[i] \in Items
    BY <2>2, <2>4
  <2>6. n \in Nat \ {0}
    BY DesktopOutboxAssumption
  <2>7. r.items = items /\ r.at = "post" /\ pass' = [pass EXCEPT ![p] = r]
    BY <2>1
  <2> HIDE DEF items, r
  <2>8. items \in Seq(Items) /\ Len(items) = n
    BY <2>5, <2>6
  <2>9. items # << >>
    BY <2>6, <2>8, EmptySeq
  <2>10. PassTyped(r)
    BY <2>7, <2>8, <2>9 DEF PassTyped
  <2> QED BY <2>0, <2>7, <2>10, TypedPasses DEF OutboxTyped
<1>3. ASSUME NEW p \in Passes, PostEnvelope(p)
      PROVE  OutboxTyped'
  <2>1. PICK a : pass' = [pass EXCEPT ![p].at = "settle", ![p].answer = a]
    BY <1>3 DEF PostEnvelope
  <2>2. pass[p].at = "post" /\ PassTyped(pass[p]) /\ PassRecord(pass[p])
    BY <1>3 DEF PostEnvelope, OutboxTyped, QueueInv
  <2> DEFINE r == [at |-> "settle", items |-> pass[p].items, answer |-> a]
  <2>3. pass'[p] = r /\ \A q \in Passes : q # p => pass'[q] = pass[q]
    BY <2>1, <2>2 DEF PassRecord, QueueInv
  <2>4. PassTyped(r)
    BY <2>2 DEF PassTyped
  <2> HIDE DEF r
  <2>5. Current(p).id \in Messages
    BY <2>2, CurrentTyped DEF Items
  <2>6. accepted' \subseteq Messages
    BY <1>3, <2>5 DEF PostEnvelope, OutboxTyped
  <2>7. UNCHANGED <<outbox, now, attemptLimit, enqueued>>
    BY <1>3 DEF PostEnvelope
  <2> QED BY <2>3, <2>4, <2>6, <2>7 DEF OutboxTyped
<1>4. ASSUME NEW p \in Passes, AckRow(p)
      PROVE  OutboxTyped'
  <2>1. pass[p].at # "rest" /\ UNCHANGED <<now, attemptLimit, accepted, enqueued>>
    BY <1>4 DEF AckRow
  <2>2. pass' = [pass EXCEPT ![p] = Onwards(p)] \/ pass' = [pass EXCEPT ![p] = Resting]
    BY <1>4 DEF AckRow
  <2>3. \A q \in Passes : PassTyped(pass'[q])
    BY <2>1, <2>2, CurrentTyped, RestingTyped, TypedPasses
  <2>4. DOMAIN outbox' \subseteq DOMAIN outbox /\ \A m \in DOMAIN outbox' : outbox'[m] = outbox[m]
    BY <1>4 DEF AckRow
  <2> QED BY <2>1, <2>3, <2>4 DEF OutboxTyped
<1>5. ASSUME NEW p \in Passes, ScheduleRetry(p)
      PROVE  OutboxTyped'
  <2>1. pass[p].at # "rest" /\ UNCHANGED <<now, attemptLimit, accepted, enqueued>>
    BY <1>5 DEF ScheduleRetry
  <2>2. pass' = [pass EXCEPT ![p] = Onwards(p)] \/ pass' = [pass EXCEPT ![p] = Resting]
    BY <1>5 DEF ScheduleRetry
  <2>3. \A q \in Passes : PassTyped(pass'[q])
    BY <2>1, <2>2, CurrentTyped, RestingTyped, TypedPasses
  <2> DEFINE attempt == Current(p).attempts + 1
             tried == [attempts |-> attempt, next |-> now + Delay(attempt)]
  <2>4. attempt \in Nat /\ attempt - 1 \in Nat
    BY <2>1, CurrentTyped DEF Items
  <2>5. Delay(attempt) \in Int
    <3>1. 2^(attempt - 1) \in Int
      <4> HIDE DEF attempt
      <4> QED BY <2>4
    <3> DEFINE d == 2^(attempt - 1)
    <3> HIDE DEF d
    <3>2. BaseDelay * d \in Int
      BY <3>1, DesktopOutboxAssumption DEF d
    <3> QED BY <3>2, DesktopOutboxAssumption DEF Delay, LeastOf, d
  <2>6. tried \in Row
    BY <2>4, <2>5 DEF Row, OutboxTyped
  <2>7. \/ outbox' = outbox
        \/ outbox' = [k \in DOMAIN outbox |-> IF k = Current(p).id THEN tried ELSE outbox[k]]
    BY <1>5 DEF ScheduleRetry
  <2> HIDE DEF tried
  <2>8. DOMAIN outbox' = DOMAIN outbox /\ \A m \in DOMAIN outbox : outbox'[m] \in Row
    BY <2>6, <2>7 DEF OutboxTyped
  <2> QED BY <2>1, <2>3, <2>8 DEF OutboxTyped
<1>6. CASE TickOutbox
  BY <1>6 DEF TickOutbox, OutboxTyped
<1>7. CASE RestartOutbox
  BY <1>7, RestingTyped DEF RestartOutbox, OutboxTyped
<1>8. CASE UNCHANGED outboxVars
  BY <1>8 DEF outboxVars, OutboxTyped
<1> QED BY <1>1, <1>2, <1>3, <1>4, <1>5, <1>6, <1>7, <1>8 DEF OutboxNext

LEMMA InitOutboxTyped == OutboxInit => OutboxTyped
<1>1. DOMAIN << >> = {}
  OBVIOUS
<1> QED BY <1>1, RestingTyped DEF OutboxInit, OutboxTyped

\* A message that was put into the outbox is there or has been taken by the
\* relay, however passes overlap (outbox_sender.go SendPending).
THEOREM NothingLost == OutboxSpec => []QueueInvariant
<1>1. OutboxInit => QueueInv /\ OutboxTyped
  BY InitOutbox, InitOutboxTyped
<1>2. QueueInv /\ OutboxTyped /\ [OutboxNext]_outboxVars => (QueueInv /\ OutboxTyped)'
  BY StepOutbox, TypedOutbox
<1>3. QueueInv /\ OutboxTyped => QueueInvariant
  BY DEF QueueInv, OutboxTyped, OutboxTypeOK, QueueInvariant, PassTyped, Row
<1> QED BY <1>1, <1>2, <1>3, PTL DEF OutboxSpec
-----------------------------------------------------------------------------
(* The map database                                                        *)

IndexRecord(x) == x = [repo |-> x.repo, path |-> x.path, imported |-> x.imported,
                       status |-> x.status, entries |-> x.entries]

Holding == {"validate", "close"}

\* The open handles are the selected one and those a call is to install or close.
OpenIsHeld ==
    \A h : h \in DOMAIN open <=> \/ h = index.repo /\ h # NoHandle
                                 \/ \E c \in Calls : h \in HeldBy(c)

\* No handle is held twice.
HeldOnce ==
    \A c \in Calls : /\ HeldBy(c) \subseteq Handles
                     /\ index.repo \notin HeldBy(c)
                     /\ \A d \in Calls \ {c} : HeldBy(c) \cap HeldBy(d) = {}

\* While a query reads, nothing is switched: it reads the selected database.
ReadersReadSelected ==
    \A c \in Calls : Doing(c, "reading") => task[c].handle = index.repo

StatusIsOfSelected ==
    index.repo # NoHandle /\ ~index.entries => index.status = open[index.repo]

SdeInv ==
    /\ DOMAIN task = Calls
    /\ IndexRecord(index) /\ index.repo \in Handles \cup {NoHandle}
    /\ OpenIsHeld /\ HeldOnce /\ ReadersReadSelected /\ StatusIsOfSelected

LEMMA SdeInvIsEnough == SdeInv => SelectedDatabaseIsOpen
BY DEF SdeInv, OpenIsHeld, HeldOnce, ReadersReadSelected, StatusIsOfSelected,
       SelectedDatabaseIsOpen

LEMMA NothingOpen == DOMAIN << >> = {}
OBVIOUS

LEMMA InitSde == SdeInit => SdeInv
BY NothingOpen DEF SdeInit, SdeInv, NoIndex, NoTask, IndexRecord, OpenIsHeld, HeldOnce,
       ReadersReadSelected, StatusIsOfSelected, HeldBy, Doing

\* One call's step leaves the other calls where they are.
LEMMA OtherCalls ==
    ASSUME SdeInv, NEW c \in Calls, NEW t, Step(c, t)
    PROVE  /\ DOMAIN task' = Calls /\ task'[c] = t
           /\ \A d \in Calls \ {c} : task'[d] = task[d] /\ HeldBy(d)' = HeldBy(d)
           /\ HeldBy(c)' = IF t.at \in Holding THEN {t.handle} ELSE {}
BY DEF SdeInv, Step, HeldBy, Holding

\* A step of a call that holds no handle, takes none and selects none.
LEMMA QuietStep ==
    ASSUME SdeInv, NEW c \in Calls, NEW t, Step(c, t),
           task[c].at \notin Holding, t.at \notin Holding,
           t.at = "reading" => t.handle = index.repo,
           open' = open, IndexRecord(index'), index'.repo = index.repo, StatusIsOfSelected'
    PROVE  SdeInv'
<1>1. /\ DOMAIN task' = Calls /\ task'[c] = t
      /\ \A d \in Calls \ {c} : task'[d] = task[d] /\ HeldBy(d)' = HeldBy(d)
      /\ HeldBy(c)' = {} /\ HeldBy(c) = {}
  BY OtherCalls DEF HeldBy, Holding
<1>2. \A d \in Calls : HeldBy(d)' = HeldBy(d)
  BY <1>1
<1>3. OpenIsHeld' /\ HeldOnce'
  BY <1>2 DEF SdeInv, OpenIsHeld, HeldOnce
<1>4. ReadersReadSelected'
  BY <1>1 DEF SdeInv, ReadersReadSelected, Doing
<1> QED BY <1>1, <1>3, <1>4 DEF SdeInv

\* The same, with the index as it is.
LEMMA CallMoves ==
    ASSUME SdeInv, NEW c \in Calls, NEW t, Step(c, t),
           task[c].at \notin Holding, t.at \notin Holding,
           t.at = "reading" => t.handle = index.repo,
           open' = open, index' = index
    PROVE  SdeInv'
<1>1. StatusIsOfSelected' /\ IndexRecord(index')
  BY DEF SdeInv, StatusIsOfSelected
<1> QED BY <1>1, QuietStep

\* A switch: the new handle was the call's or there is none, and the old one
\* becomes the call's, to be closed.
LEMMA SwitchKeeps ==
    ASSUME SdeInv, NEW c \in Calls, WriteLock, ThenClose(c), open' = open,
           IndexRecord(index'), StatusIsOfSelected',
           \/ index'.repo = NoHandle /\ HeldBy(c) = {}
           \/ index'.repo # NoHandle /\ HeldBy(c) = {index'.repo}
    PROVE  SdeInv'
<1> USE SdeAssumption
<1> DEFINE t == IF index.repo = NoHandle THEN NoTask ELSE [at |-> "close", handle |-> index.repo]
           old == IF index.repo = NoHandle THEN {} ELSE {index.repo}
<1>1. Step(c, t)
  BY DEF ThenClose
<1>2. (t.at \in Holding <=> index.repo # NoHandle) /\ t.at # "reading"
      /\ (index.repo # NoHandle => t.handle = index.repo)
  BY DEF NoTask, Holding
<1> HIDE DEF t
<1>3. /\ DOMAIN task' = Calls /\ task'[c] = t
      /\ \A d \in Calls \ {c} : task'[d] = task[d] /\ HeldBy(d)' = HeldBy(d)
      /\ HeldBy(c)' = old
  BY <1>1, <1>2, OtherCalls
<1>4. index'.repo \in Handles \cup {NoHandle}
  BY DEF SdeInv, HeldOnce
<1>5. OpenIsHeld'
  <2> SUFFICES ASSUME NEW h
               PROVE  h \in DOMAIN open <=> \/ h = index'.repo /\ h # NoHandle
                                            \/ \E d \in Calls : h \in HeldBy(d)'
    BY DEF OpenIsHeld
  <2>1. h \in DOMAIN open <=> \/ h \in old
                              \/ h \in HeldBy(c)
                              \/ \E d \in Calls \ {c} : h \in HeldBy(d)
    BY DEF SdeInv, OpenIsHeld
  <2>2. h \in HeldBy(c) <=> h = index'.repo /\ h # NoHandle
    OBVIOUS
  <2>3. (\E d \in Calls : h \in HeldBy(d)') <=> \/ h \in old
                                               \/ \E d \in Calls \ {c} : h \in HeldBy(d)
    BY <1>3
  <2> QED BY <2>1, <2>2, <2>3
<1>6. HeldOnce'
  <2> SUFFICES ASSUME NEW d \in Calls
               PROVE  /\ HeldBy(d)' \subseteq Handles /\ index'.repo \notin HeldBy(d)'
                      /\ \A b \in Calls \ {d} : HeldBy(d)' \cap HeldBy(b)' = {}
    BY DEF HeldOnce
  <2>1. old \subseteq Handles /\ index'.repo \notin old
    BY DEF SdeInv, HeldOnce
  <2>2. \A b \in Calls \ {c} : /\ HeldBy(b) \subseteq Handles
                               /\ index'.repo \notin HeldBy(b) /\ old \cap HeldBy(b) = {}
    BY DEF SdeInv, HeldOnce
  <2>3. \A a, b \in Calls : a # b => HeldBy(a) \cap HeldBy(b) = {}
    BY DEF SdeInv, HeldOnce
  <2> HIDE DEF old
  <2>4. CASE d = c
    BY <1>3, <2>1, <2>2, <2>4
  <2>5. CASE d # c
    BY <1>3, <2>2, <2>3, <2>5
  <2> QED BY <2>4, <2>5
<1>7. ReadersReadSelected'
  BY <1>2, <1>3 DEF ReadersReadSelected, Doing, WriteLock
<1> QED BY <1>3, <1>4, <1>5, <1>6, <1>7 DEF SdeInv

LEMMA StepSde ==
    ASSUME SdeInv, [SdeNext]_sdeVars
    PROVE  SdeInv'
<1> USE SdeAssumption
<1>r. IndexRecord(index)
  BY DEF SdeInv
<1>1. ASSUME NEW c \in Calls, SetDirectory(c)
      PROVE  SdeInv'
  <2>1. HeldBy(c) = {} /\ WriteLock /\ ThenClose(c) /\ open' = open
    BY <1>1 DEF SetDirectory, Idle, HeldBy
  <2>2. IndexRecord(index') /\ index'.repo = NoHandle /\ StatusIsOfSelected'
    BY <1>1 DEF SetDirectory, NoIndex, IndexRecord, StatusIsOfSelected
  <2> QED BY <2>1, <2>2, SwitchKeeps
<1>2. ASSUME NEW c \in Calls, CloseIndex(c)
      PROVE  SdeInv'
  <2>1. HeldBy(c) = {} /\ WriteLock /\ ThenClose(c) /\ open' = open
    BY <1>2 DEF CloseIndex, Idle, HeldBy
  <2>2. IndexRecord(index') /\ index'.repo = NoHandle /\ StatusIsOfSelected'
    BY <1>2, <1>r DEF CloseIndex, IndexRecord, StatusIsOfSelected
  <2> QED BY <2>1, <2>2, SwitchKeeps
<1>3. ASSUME NEW c \in Calls, OpenDatabase(c)
      PROVE  SdeInv'
  <2>1. PICK p \in DbPaths : Step(c, [at |-> "open", path |-> p, import |-> FALSE])
    BY <1>3 DEF OpenDatabase
  <2> DEFINE t == [at |-> "open", path |-> p, import |-> FALSE]
  <2>2. t.at = "open" /\ Step(c, t)
    BY <2>1
  <2>3. task[c].at = "idle" /\ open' = open /\ index' = index
    BY <1>3 DEF OpenDatabase, Idle
  <2> HIDE DEF t
  <2> QED BY <2>2, <2>3, CallMoves DEF Holding
<1>4. ASSUME NEW c \in Calls, OpenRepository(c)
      PROVE  SdeInv'
  <2>a. task[c].at = "open" /\ HeldBy(c) = {} /\ index' = index
    BY <1>4 DEF OpenRepository, Doing, HeldBy
  <2>1. CASE open' = open /\ Step(c, NoTask)
    BY <2>a, <2>1, CallMoves DEF NoTask, Holding
  <2>2. ASSUME NEW h \in Handles \ DOMAIN open,
               open' = [k \in DOMAIN open \cup {h} |->
                          IF k = h THEN file[task[c].path].target ELSE open[k]],
               Step(c, [at |-> "validate", path |-> task[c].path, import |-> task[c].import,
                        handle |-> h])
        PROVE  SdeInv'
    <3> DEFINE t == [at |-> "validate", path |-> task[c].path, import |-> task[c].import,
                     handle |-> h]
    <3>1. t.at = "validate" /\ t.handle = h /\ Step(c, t)
      BY <2>2
    <3> HIDE DEF t
    <3>2. /\ DOMAIN task' = Calls /\ task'[c] = t /\ HeldBy(c)' = {h}
          /\ \A d \in Calls \ {c} : task'[d] = task[d] /\ HeldBy(d)' = HeldBy(d)
      BY <3>1, OtherCalls DEF Holding
    <3>3. DOMAIN open' = DOMAIN open \cup {h} /\ \A k \in DOMAIN open : open'[k] = open[k]
      BY <2>2
    <3>4. h # index.repo /\ h # NoHandle /\ \A d \in Calls : h \notin HeldBy(d)
      BY DEF SdeInv, OpenIsHeld
    <3>5. OpenIsHeld'
      BY <2>a, <3>2, <3>3, <3>4 DEF SdeInv, OpenIsHeld
    <3>6. HeldOnce'
      BY <2>a, <3>2, <3>4 DEF SdeInv, HeldOnce
    <3>7. ReadersReadSelected'
      BY <2>a, <3>1, <3>2 DEF SdeInv, ReadersReadSelected, Doing
    <3>8. StatusIsOfSelected'
      BY <2>a, <3>3 DEF SdeInv, StatusIsOfSelected, OpenIsHeld
    <3> QED BY <2>a, <3>2, <3>5, <3>6, <3>7, <3>8 DEF SdeInv
  <2> QED BY <1>4, <2>1, <2>2 DEF OpenRepository
<1>5. ASSUME NEW c \in Calls, Install(c)
      PROVE  SdeInv'
  <2>a. task[c].at = "validate" /\ HeldBy(c) = {task[c].handle} /\ open' = open
    BY <1>5 DEF Install, Doing, HeldBy
  <2>b. task[c].handle \in Handles /\ task[c].handle \in DOMAIN open
    BY <2>a DEF SdeInv, HeldOnce, OpenIsHeld
  <2>1. CASE /\ WriteLock
             /\ index' = [repo |-> task[c].handle, path |-> task[c].path,
                          imported |-> index.imported \/ task[c].import,
                          status |-> open[task[c].handle], entries |-> FALSE]
             /\ ThenClose(c)
    <3>1. /\ index'.repo = task[c].handle /\ index'.status = open[task[c].handle]
          /\ IndexRecord(index')
      BY <2>1 DEF IndexRecord
    <3>2. index'.repo # NoHandle
      BY <2>b, <3>1
    <3>3. StatusIsOfSelected'
      BY <2>a, <3>1 DEF StatusIsOfSelected
    <3> QED BY <2>1, <2>a, <3>1, <3>2, <3>3, SwitchKeeps
  <2>2. CASE index' = index /\ Step(c, [at |-> "close", handle |-> task[c].handle])
    <3> DEFINE t == [at |-> "close", handle |-> task[c].handle]
    <3>1. t.at = "close" /\ t.handle = task[c].handle /\ Step(c, t)
      BY <2>2
    <3> HIDE DEF t
    <3>2. /\ DOMAIN task' = Calls /\ task'[c] = t
          /\ \A d \in Calls \ {c} : task'[d] = task[d] /\ HeldBy(d)' = HeldBy(d)
          /\ HeldBy(c)' = HeldBy(c)
      BY <2>a, <3>1, OtherCalls DEF Holding
    <3>3. \A d \in Calls : HeldBy(d)' = HeldBy(d)
      BY <3>2
    <3>4. OpenIsHeld' /\ HeldOnce' /\ StatusIsOfSelected'
      BY <2>a, <2>2, <3>3 DEF SdeInv, OpenIsHeld, HeldOnce, StatusIsOfSelected
    <3>5. ReadersReadSelected'
      BY <2>2, <3>1, <3>2 DEF SdeInv, ReadersReadSelected, Doing
    <3> QED BY <2>2, <3>2, <3>4, <3>5 DEF SdeInv
  <2> QED BY <1>5, <2>1, <2>2 DEF Install
<1>6. ASSUME NEW c \in Calls, CloseHandle(c)
      PROVE  SdeInv'
  <2>1. /\ HeldBy(c) = {task[c].handle} /\ index' = index /\ Step(c, NoTask)
        /\ open' = [h \in DOMAIN open \ {task[c].handle} |-> open[h]]
    BY <1>6 DEF CloseHandle, Doing, HeldBy
  <2>2. /\ DOMAIN task' = Calls /\ task'[c] = NoTask /\ HeldBy(c)' = {}
        /\ \A d \in Calls \ {c} : task'[d] = task[d] /\ HeldBy(d)' = HeldBy(d)
    BY <2>1, OtherCalls DEF Holding, NoTask
  <2>3. /\ DOMAIN open' = DOMAIN open \ HeldBy(c)
        /\ \A h \in DOMAIN open' : open'[h] = open[h]
    BY <2>1
  <2>4. OpenIsHeld'
    <3>1. \A h : h \in HeldBy(c) => /\ h # index.repo
                                    /\ \A d \in Calls \ {c} : h \notin HeldBy(d)
      BY DEF SdeInv, HeldOnce
    <3> QED BY <2>1, <2>2, <2>3, <3>1 DEF SdeInv, OpenIsHeld
  <2>5. HeldOnce'
    BY <2>1, <2>2 DEF SdeInv, HeldOnce
  <2>6. ReadersReadSelected'
    BY <2>1, <2>2 DEF SdeInv, ReadersReadSelected, Doing, NoTask
  <2>7. StatusIsOfSelected'
    <3>1. index.repo # NoHandle => index.repo \in DOMAIN open'
      BY <2>3 DEF SdeInv, OpenIsHeld, HeldOnce
    <3> QED BY <2>1, <2>3, <3>1 DEF SdeInv, StatusIsOfSelected
  <2> QED BY <2>1, <2>2, <2>4, <2>5, <2>6, <2>7 DEF SdeInv
<1>7. ASSUME NEW c \in Calls, ImportNormalized(c) \/ Reindex(c)
      PROVE  SdeInv'
  <2>1. task[c].at = "idle" /\ open' = open /\ index' = index
    BY <1>7 DEF ImportNormalized, Reindex, Idle
  <2>2. PICK t : Step(c, t) /\ t.at \in {"build", "scan"}
    BY <1>7 DEF ImportNormalized, Reindex
  <2> QED BY <2>1, <2>2, CallMoves DEF Holding
<1>8. ASSUME NEW c \in Calls, BuildDB(c)
      PROVE  SdeInv'
  <2>1. task[c].at = "build" /\ open' = open /\ index' = index
    BY <1>8 DEF BuildDB, Doing
  <2>2. PICK t : Step(c, t) /\ t.at \in {"clear", "idle"}
    BY <1>8 DEF BuildDB, NoTask
  <2> QED BY <2>1, <2>2, CallMoves DEF Holding
<1>9. ASSUME NEW c \in Calls, ReplaceFile(c)
      PROVE  SdeInv'
  <2>1. task[c].at \in {"clear", "stat", "swap", "cleanup"} /\ open' = open /\ index' = index
    BY <1>9 DEF ReplaceFile, Doing
  <2>2. \/ Step(c, Onto(c, "stat")) \/ Step(c, Onto(c, "swap")) \/ Step(c, Onto(c, "cleanup"))
        \/ Step(c, Opening(c)) \/ Step(c, NoTask)
    BY <1>9 DEF ReplaceFile
  <2>3. ASSUME NEW place \in {"stat", "swap", "cleanup"}, Step(c, Onto(c, place))
        PROVE  SdeInv'
    <3>1. Onto(c, place).at \notin Holding \cup {"reading"}
      BY DEF Onto, Holding
    <3> QED BY <2>1, <2>3, <3>1, CallMoves DEF Holding
  <2>4. CASE Step(c, Opening(c))
    <3>1. Opening(c).at \notin Holding \cup {"reading"}
      BY DEF Opening, Holding
    <3> QED BY <2>1, <2>4, <3>1, CallMoves DEF Holding
  <2>5. CASE Step(c, NoTask)
    BY <2>1, <2>5, CallMoves DEF Holding, NoTask
  <2> QED BY <2>2, <2>3, <2>4, <2>5
<1>10. ASSUME NEW c \in Calls, Publish(c)
       PROVE  SdeInv'
  <2>1. task[c].at = "scan" /\ open' = open /\ Step(c, NoTask)
    BY <1>10 DEF Publish, Doing
  <2>2. CASE index' = index
    BY <2>1, <2>2, CallMoves DEF NoTask, Holding
  <2>3. CASE index' = [index EXCEPT !.status = 0, !.entries = TRUE]
    <3>1. IndexRecord(index') /\ index'.repo = index.repo /\ index'.entries
      BY <1>r, <2>3 DEF IndexRecord
    <3>2. StatusIsOfSelected'
      BY <3>1 DEF StatusIsOfSelected
    <3> QED BY <2>1, <3>1, <3>2, QuietStep DEF NoTask, Holding
  <2> QED BY <1>10, <2>2, <2>3 DEF Publish
<1>11. ASSUME NEW c \in Calls, LoadCached(c)
       PROVE  SdeInv'
  <2>1. /\ task' = task /\ open' = open
        /\ index' = [index EXCEPT !.status = 0, !.entries = TRUE]
    BY <1>11 DEF LoadCached
  <2>2. IndexRecord(index') /\ index'.repo = index.repo /\ index'.entries
    BY <1>r, <2>1 DEF IndexRecord
  <2>3. StatusIsOfSelected'
    BY <2>2 DEF StatusIsOfSelected
  <2>4. \A d \in Calls : HeldBy(d)' = HeldBy(d)
    BY <2>1 DEF HeldBy
  <2> QED BY <2>1, <2>2, <2>3, <2>4 DEF SdeInv, OpenIsHeld, HeldOnce, ReadersReadSelected, Doing
<1>12. ASSUME NEW c \in Calls, Look(c)
       PROVE  SdeInv'
  <2>1. task[c].at = "idle" /\ open' = open /\ index' = index
    BY <1>12 DEF Look, Idle
  <2>2. PICK place \in {"reading", "routing"} : Step(c, [at |-> place, handle |-> index.repo])
    BY <1>12 DEF Look
  <2> DEFINE t == [at |-> place, handle |-> index.repo]
  <2>3. t.at = place /\ t.handle = index.repo /\ Step(c, t)
    BY <2>2
  <2> HIDE DEF t
  <2> QED BY <2>1, <2>3, CallMoves DEF Holding
<1>13. ASSUME NEW c \in Calls, Looked(c)
       PROVE  SdeInv'
  <2>1. /\ task[c].at \in {"reading", "routing"} /\ open' = open /\ index' = index
        /\ Step(c, NoTask)
    BY <1>13 DEF Looked
  <2> QED BY <2>1, CallMoves DEF Holding, NoTask
<1>14. CASE RestartSde
  <2>1. DOMAIN open' = {} /\ index' = NoIndex /\ task' = [c \in Calls |-> NoTask]
    BY <1>14, NothingOpen DEF RestartSde
  <2> QED BY <2>1 DEF SdeInv, NoIndex, NoTask, IndexRecord, OpenIsHeld, HeldOnce,
                      ReadersReadSelected, StatusIsOfSelected, HeldBy, Doing
<1>15. CASE UNCHANGED sdeVars
  <2>1. task' = task /\ open' = open /\ index' = index
    BY <1>15 DEF sdeVars
  <2>2. \A d \in Calls : HeldBy(d)' = HeldBy(d)
    BY <2>1 DEF HeldBy
  <2> QED BY <2>1, <2>2 DEF SdeInv, OpenIsHeld, HeldOnce, ReadersReadSelected,
                            StatusIsOfSelected, Doing
<1> QED BY <1>1, <1>2, <1>3, <1>4, <1>5, <1>6, <1>7, <1>8, <1>9, <1>10, <1>11, <1>12, <1>13,
           <1>14, <1>15 DEF SdeNext

\* The types of the index, the files and the calls.
BuildNumbers == 0..MaxBuild
Moving == {"clear", "stat", "swap", "cleanup"}
Copies == [target : BuildNumbers, old : BuildNumbers]

CallTyped(t) ==
    /\ t.at \in {"idle", "build", "clear", "stat", "swap", "cleanup", "open",
                 "validate", "close", "scan", "reading", "routing"}
    /\ t.at \in Moving \cup {"build", "open", "validate"} => t.path \in DbPaths
    /\ t.at \in Moving => /\ t = [at |-> t.at, path |-> t.path, build |-> t.build]
                          /\ t.build \in BuildNumbers
    /\ t.at \in {"open", "validate"} => t.import \in BOOLEAN

SdeTyped ==
    /\ DOMAIN open \subseteq Handles /\ \A h \in DOMAIN open : open[h] \in BuildNumbers
    /\ built \in BuildNumbers
    /\ index.path \in DbPaths \cup {"none"} /\ index.status \in BuildNumbers
    /\ index.imported \in BOOLEAN /\ index.entries \in BOOLEAN
    /\ file \in [DbPaths -> Copies]
    /\ \A c \in Calls : CallTyped(task[c])

LEMMA NothingTyped ==
    /\ CallTyped(NoTask) /\ Nothing \in Copies /\ 0 \in BuildNumbers /\ 1 \in BuildNumbers
    /\ NoIndex.path \in DbPaths \cup {"none"} /\ NoIndex.status \in BuildNumbers
    /\ NoIndex.imported \in BOOLEAN /\ NoIndex.entries \in BOOLEAN
BY SdeAssumption DEF CallTyped, NoTask, Nothing, Copies, BuildNumbers, NoIndex, DbPaths, Moving

\* A call that goes to a step of its type.
LEMMA TypedCalls ==
    ASSUME SdeInv, SdeTyped, NEW c \in Calls, NEW t, Step(c, t), CallTyped(t)
    PROVE  \A d \in Calls : CallTyped(task'[d])
BY DEF SdeInv, SdeTyped, Step

\* A step of a call that leaves the handles, the index and the files.
LEMMA TypedMove ==
    ASSUME SdeInv, SdeTyped, NEW c \in Calls, NEW t, Step(c, t), CallTyped(t),
           open' = open, index' = index, file' = file, built' = built
    PROVE  SdeTyped'
BY TypedCalls DEF SdeTyped

LEMMA TypedSwitch ==
    ASSUME SdeInv, SdeTyped, NEW c \in Calls, ThenClose(c)
    PROVE  \A d \in Calls : CallTyped(task'[d])
<1> DEFINE t == IF index.repo = NoHandle THEN NoTask ELSE [at |-> "close", handle |-> index.repo]
<1>1. CallTyped(t)
  BY NothingTyped DEF CallTyped, Moving
<1>2. Step(c, t)
  BY DEF ThenClose
<1> HIDE DEF t
<1> QED BY <1>1, <1>2, TypedCalls

LEMMA TypedSde ==
    ASSUME SdeInv, SdeTyped, [SdeNext]_sdeVars
    PROVE  SdeTyped'
<1>f. \A p \in DbPaths : file[p] \in Copies
  BY DEF SdeTyped
<1>r. IndexRecord(index)
  BY DEF SdeInv
<1>1. ASSUME NEW c \in Calls, SetDirectory(c)
      PROVE  SdeTyped'
  BY <1>1, TypedSwitch, NothingTyped DEF SetDirectory, SdeTyped
<1>2. ASSUME NEW c \in Calls, CloseIndex(c)
      PROVE  SdeTyped'
  <2>1. /\ index'.path = "none" /\ index'.status = index.status
        /\ index'.imported = index.imported /\ index'.entries = index.entries
    BY <1>2, <1>r DEF CloseIndex, IndexRecord
  <2> QED BY <1>2, <2>1, TypedSwitch DEF CloseIndex, SdeTyped
<1>3. ASSUME NEW c \in Calls, OpenDatabase(c)
      PROVE  SdeTyped'
  <2>1. PICK p \in DbPaths : Step(c, [at |-> "open", path |-> p, import |-> FALSE])
    BY <1>3 DEF OpenDatabase
  <2>2. CallTyped([at |-> "open", path |-> p, import |-> FALSE])
    BY DEF CallTyped, Moving
  <2> QED BY <1>3, <2>1, <2>2, TypedMove DEF OpenDatabase
<1>4. ASSUME NEW c \in Calls, OpenRepository(c)
      PROVE  SdeTyped'
  <2>a. task[c].at = "open" /\ CallTyped(task[c]) /\ UNCHANGED <<index, file, built>>
    BY <1>4 DEF OpenRepository, Doing, SdeTyped
  <2>1. CASE open' = open /\ Step(c, NoTask)
    BY <2>a, <2>1, TypedMove, NothingTyped
  <2>2. ASSUME NEW h \in Handles \ DOMAIN open,
               open' = [k \in DOMAIN open \cup {h} |->
                          IF k = h THEN file[task[c].path].target ELSE open[k]],
               Step(c, [at |-> "validate", path |-> task[c].path, import |-> task[c].import,
                        handle |-> h])
        PROVE  SdeTyped'
    <3>1. task[c].path \in DbPaths /\ task[c].import \in BOOLEAN
      BY <2>a DEF CallTyped
    <3>2. CallTyped([at |-> "validate", path |-> task[c].path, import |-> task[c].import,
                     handle |-> h])
      BY <3>1 DEF CallTyped, Moving
    <3>3. \A d \in Calls : CallTyped(task'[d])
      BY <2>2, <3>2, TypedCalls
    <3>4. file[task[c].path].target \in BuildNumbers
      BY <1>f, <3>1 DEF Copies
    <3>5. DOMAIN open' \subseteq Handles /\ \A k \in DOMAIN open' : open'[k] \in BuildNumbers
      BY <2>2, <3>4 DEF SdeTyped
    <3> QED BY <2>a, <3>3, <3>5 DEF SdeTyped
  <2> QED BY <1>4, <2>1, <2>2 DEF OpenRepository
<1>5. ASSUME NEW c \in Calls, Install(c)
      PROVE  SdeTyped'
  <2>a. /\ task[c].at = "validate" /\ CallTyped(task[c]) /\ HeldBy(c) = {task[c].handle}
        /\ UNCHANGED <<open, file, built>>
    BY <1>5 DEF Install, Doing, HeldBy, SdeTyped
  <2>b. open[task[c].handle] \in BuildNumbers
    BY <2>a DEF SdeInv, OpenIsHeld, SdeTyped
  <2>c. task[c].path \in DbPaths /\ task[c].import \in BOOLEAN
    BY <2>a DEF CallTyped
  <2>1. CASE /\ index' = [repo |-> task[c].handle, path |-> task[c].path,
                          imported |-> index.imported \/ task[c].import,
                          status |-> open[task[c].handle], entries |-> FALSE]
             /\ ThenClose(c)
    <3>1. /\ index'.path = task[c].path /\ index'.status = open[task[c].handle]
          /\ index'.entries = FALSE
      BY <2>1
    <3>2. index'.imported = (index.imported \/ task[c].import)
      BY <2>1, Zenon
    <3>3. index'.imported \in BOOLEAN
      BY <3>2, Zenon
    <3>4. index'.entries \in BOOLEAN
      BY <3>1
    <3>5. \A d \in Calls : CallTyped(task'[d])
      BY <2>1, TypedSwitch
    <3>6. index'.path \in DbPaths \cup {"none"} /\ index'.status \in BuildNumbers
      BY <2>b, <2>c, <3>1
    <3> QED BY <2>a, <3>3, <3>4, <3>5, <3>6 DEF SdeTyped
  <2>2. CASE index' = index /\ Step(c, [at |-> "close", handle |-> task[c].handle])
    <3>1. CallTyped([at |-> "close", handle |-> task[c].handle])
      BY DEF CallTyped, Moving
    <3> QED BY <2>2, <2>a, <3>1, TypedMove
  <2> QED BY <1>5, <2>1, <2>2 DEF Install
<1>6. ASSUME NEW c \in Calls, CloseHandle(c)
      PROVE  SdeTyped'
  <2>1. \A d \in Calls : CallTyped(task'[d])
    BY <1>6, NothingTyped, TypedCalls DEF CloseHandle
  <2>2. DOMAIN open' \subseteq DOMAIN open /\ \A h \in DOMAIN open' : open'[h] = open[h]
    BY <1>6 DEF CloseHandle
  <2> QED BY <1>6, <2>1, <2>2 DEF CloseHandle, SdeTyped
<1>7. ASSUME NEW c \in Calls, ImportNormalized(c) \/ Reindex(c)
      PROVE  SdeTyped'
  <2>1. UNCHANGED <<index, open, file, built>>
    BY <1>7 DEF ImportNormalized, Reindex
  <2>2. PICK p \in {"base", "next"} : Step(c, [at |-> "build", path |-> p]) \/ Step(c, [at |-> "scan"])
    BY <1>7 DEF ImportNormalized, Reindex
  <2>3. CallTyped([at |-> "build", path |-> p]) /\ CallTyped([at |-> "scan"])
    BY DEF CallTyped, Moving, DbPaths
  <2> QED BY <2>1, <2>2, <2>3, TypedMove
<1>8. ASSUME NEW c \in Calls, BuildDB(c)
      PROVE  SdeTyped'
  <2>a. task[c].path \in DbPaths /\ UNCHANGED <<index, open, file>>
    BY <1>8 DEF BuildDB, Doing, SdeTyped, CallTyped
  <2>1. CASE built' = built /\ Step(c, NoTask)
    BY <2>1, <2>a, TypedMove, NothingTyped
  <2>2. CASE /\ built < MaxBuild /\ built' = built + 1
             /\ Step(c, [at |-> "clear", path |-> task[c].path, build |-> built + 1])
    <3>1. built' \in BuildNumbers
      BY <2>2, SdeAssumption DEF SdeTyped, BuildNumbers
    <3>2. CallTyped([at |-> "clear", path |-> task[c].path, build |-> built + 1])
      BY <2>2, <2>a, <3>1 DEF CallTyped, Moving
    <3>3. \A d \in Calls : CallTyped(task'[d])
      BY <2>2, <3>2, TypedCalls
    <3> QED BY <2>a, <3>1, <3>3 DEF SdeTyped
  <2> QED BY <1>8, <2>1, <2>2 DEF BuildDB
<1>9. ASSUME NEW c \in Calls, ReplaceFile(c)
      PROVE  SdeTyped'
  <2> DEFINE p == task[c].path
  <2>1. task[c].at \in Moving /\ UNCHANGED <<open, index, built>>
    BY <1>9 DEF ReplaceFile, Doing, Moving
  <2>2. /\ p \in DbPaths /\ task[c].build \in BuildNumbers
        /\ task[c] = [at |-> task[c].at, path |-> p, build |-> task[c].build]
    BY <2>1 DEF SdeTyped, CallTyped
  <2>3. \A place \in Moving : CallTyped(Onto(c, place))
    <3> TAKE place \in Moving
    <3>1. Onto(c, place) = [at |-> place, path |-> p, build |-> task[c].build]
      BY <2>2 DEF Onto
    <3> QED BY <2>2, <3>1 DEF CallTyped, Moving
  <2>4. CallTyped(Opening(c))
    BY <2>2 DEF CallTyped, Opening, Moving
  <2>5. PICK t : Step(c, t) /\ (t = NoTask \/ t = Opening(c) \/ \E place \in Moving : t = Onto(c, place))
    BY <1>9 DEF ReplaceFile, Moving
  <2>6. CallTyped(t)
    BY <2>3, <2>4, <2>5, NothingTyped
  <2>7. \A d \in Calls : CallTyped(task'[d])
    BY <2>5, <2>6, TypedCalls
  <2>8. file[p] \in Copies
    BY <2>2 DEF SdeTyped
  <2>9. /\ [file[p] EXCEPT !.old = 0] \in Copies
        /\ [file[p] EXCEPT !.target = task[c].build] \in Copies
        /\ [target |-> 0, old |-> file[p].target] \in Copies
        /\ [target |-> file[p].old, old |-> 0] \in Copies
    BY <2>2, <2>8, NothingTyped DEF Copies
  <2>10. file' = file \/ \E f \in Copies : PutFile(p, f)
    BY <1>9, <2>8, <2>9 DEF ReplaceFile
  <2>11. file' \in [DbPaths -> Copies]
    BY <2>2, <2>10 DEF PutFile, SdeTyped
  <2> QED BY <2>1, <2>7, <2>11 DEF SdeTyped
<1>10. ASSUME NEW c \in Calls, Publish(c) \/ LoadCached(c)
       PROVE  SdeTyped'
  <2>1. \A d \in Calls : CallTyped(task'[d])
    BY <1>10, NothingTyped, TypedCalls DEF Publish, LoadCached, SdeTyped
  <2>2. \/ index' = index
        \/ /\ index'.path = index.path /\ index'.status = 0
           /\ index'.imported = index.imported /\ index'.entries = TRUE
    BY <1>10, <1>r DEF Publish, LoadCached, IndexRecord
  <2> QED BY <1>10, <2>1, <2>2, NothingTyped DEF Publish, LoadCached, SdeTyped
<1>11. ASSUME NEW c \in Calls, Look(c) \/ Looked(c)
       PROVE  SdeTyped'
  <2>1. UNCHANGED <<index, open, file, built>>
    BY <1>11 DEF Look, Looked
  <2>2. PICK place \in {"reading", "routing"} :
           Step(c, [at |-> place, handle |-> index.repo]) \/ Step(c, NoTask)
    BY <1>11 DEF Look, Looked
  <2>3. CallTyped([at |-> place, handle |-> index.repo])
    BY DEF CallTyped, Moving
  <2> QED BY <2>1, <2>2, <2>3, NothingTyped, TypedMove
<1>12. CASE RestartSde
  <2>1. DOMAIN open' = {} /\ index' = NoIndex /\ task' = [c \in Calls |-> NoTask]
    BY <1>12, NothingOpen DEF RestartSde
  <2>2. built' \in BuildNumbers
    BY <1>12, NothingTyped DEF RestartSde, SdeTyped
  <2>3. "bundled" \in DbPaths /\ [file["bundled"] EXCEPT !.target = 1] \in Copies
    BY <1>f, NothingTyped DEF DbPaths, Copies
  <2>4. file' = file \/ file' = [file EXCEPT !["bundled"] = [file["bundled"] EXCEPT !.target = 1]]
    BY <1>12 DEF RestartSde
  <2>5. file' \in [DbPaths -> Copies]
    BY <2>3, <2>4 DEF SdeTyped
  <2> QED BY <2>1, <2>2, <2>5, NothingTyped DEF SdeTyped
<1>13. CASE UNCHANGED sdeVars
  BY <1>13 DEF sdeVars, SdeTyped
<1> QED BY <1>1, <1>2, <1>3, <1>4, <1>5, <1>6, <1>7, <1>8, <1>9, <1>10, <1>11, <1>12, <1>13
        DEF SdeNext

LEMMA InitTyped == SdeInit => SdeTyped
BY NothingOpen, NothingTyped DEF SdeInit, SdeTyped

LEMMA TypedIsEnough == SdeInv /\ SdeTyped => SdeTypeOK
<1> SUFFICES ASSUME SdeInv, SdeTyped
             PROVE  SdeTypeOK
  OBVIOUS
<1>1. index = [repo |-> index.repo, path |-> index.path, imported |-> index.imported,
               status |-> index.status, entries |-> index.entries]
  BY DEF SdeInv, IndexRecord
<1>2. index \in [repo : Handles \cup {NoHandle}, path : DbPaths \cup {"none"},
                 imported : BOOLEAN, status : 0..MaxBuild, entries : BOOLEAN]
  BY <1>1 DEF SdeInv, SdeTyped, BuildNumbers
<1> QED BY <1>2 DEF SdeTyped, SdeTypeOK, CallTyped, BuildNumbers, Copies

\* However switches, imports and lookups overlap, the database that answers is
\* open and no handle leaks or is closed under a query (SDEIndex.OpenDatabase,
\* ImportNormalized, Close).
THEOREM DatabaseStaysOpen == SdeSpec => []SdeInvariant
<1>1. SdeInit => SdeInv /\ SdeTyped
  BY InitSde, InitTyped
<1>2. SdeInv /\ SdeTyped /\ [SdeNext]_sdeVars => (SdeInv /\ SdeTyped)'
  BY StepSde, TypedSde
<1>3. SdeInv /\ SdeTyped => SdeInvariant
  BY SdeInvIsEnough, TypedIsEnough DEF SdeInvariant
<1> QED BY <1>1, <1>2, <1>3, PTL DEF SdeSpec

-----------------------------------------------------------------------------
(* Log ingestion                                                           *)

Byte == {"c", "lf"}

LEMMA LastEnd ==
    ASSUME NEW S \in SUBSET Nat, NEW m \in S, \A x \in S : x <= m
    PROVE  Max(S) = m
<1>1. \A x \in S : (\A y \in S : x >= y) => x = m
  OBVIOUS
<1>2. \E x \in S : \A y \in S : x >= y
  OBVIOUS
<1> QED BY <1>1, <1>2 DEF Max

\* What is appended to a text leaves the lines it had.
LEMMA LinesStay ==
    ASSUME NEW c \in Seq(Byte), NEW b \in Byte, NEW from \in Nat, NEW n \in Nat, n <= Len(c)
    PROVE  Records(Append(c, b), from, n) = Records(c, from, n)
<1> DEFINE d == Append(c, b)
<1>1. /\ Len(c) \in Nat /\ Len(d) = Len(c) + 1
      /\ \A i \in 1..Len(c) : d[i] = c[i]
  BY LenProperties, AppendProperties
<1> HIDE DEF d
<1>2. \A e : e \in Ends(c, from) <=> e \in Ends(d, from) /\ e <= Len(c)
  BY <1>1 DEF Ends
<1>3. \A e \in Ends(c, from) : EndsBefore(d, from, e) = EndsBefore(c, from, e)
  <2> SUFFICES ASSUME NEW e \in Ends(c, from)
               PROVE  EndsBefore(d, from, e) = EndsBefore(c, from, e)
    OBVIOUS
  <2>1. \A x \in Ends(d, from) : x \in Int /\ (x < e => x <= Len(c))
    BY <1>1 DEF Ends
  <2> QED BY <1>2, <2>1 DEF EndsBefore
<1>4. \A e \in Ends(c, from) : Begins(d, from, e) = Begins(c, from, e)
  BY <1>3 DEF Begins
<1>5. ASSUME NEW l PROVE l \in Records(d, from, n) <=> l \in Records(c, from, n)
  <2>1. ASSUME l \in Records(d, from, n) PROVE l \in Records(c, from, n)
    <3>1. PICK e \in Ends(d, from) : l = <<Begins(d, from, e), e>>
      BY <2>1 DEF Records, Lines
    <3>2. l[1] = Begins(d, from, e) /\ l[2] = e
      BY <3>1
    <3>3. e <= n /\ e > Begins(d, from, e) + 1
      BY <2>1, <3>2 DEF Records
    <3>4. e \in Ends(c, from)
      BY <1>1, <1>2, <3>1, <3>3 DEF Ends
    <3>5. l = <<Begins(c, from, e), e>>
      BY <1>4, <3>1, <3>4
    <3> QED BY <2>1, <3>4, <3>5 DEF Records, Lines
  <2>2. ASSUME l \in Records(c, from, n) PROVE l \in Records(d, from, n)
    <3>1. PICK e \in Ends(c, from) : l = <<Begins(c, from, e), e>>
      BY <2>2 DEF Records, Lines
    <3>2. e \in Ends(d, from) /\ l = <<Begins(d, from, e), e>>
      BY <1>2, <1>4, <3>1
    <3> QED BY <2>2, <3>2 DEF Records, Lines
  <2> QED BY <2>1, <2>2
<1>6. Records(d, from, n) = Records(c, from, n)
  BY <1>5
<1> QED BY <1>6 DEF d

\* From one line's end to the next there is that one line.
LEMMA LineFound ==
    ASSUME NEW c \in Seq(Byte), NEW from \in Nat, NEW p \in Nat, NEW e \in Nat,
           from <= p, p = from \/ c[p] = "lf",
           p < e, e <= Len(c), c[e] = "lf", \A i \in (p + 1)..(e - 1) : c[i] # "lf"
    PROVE  Records(c, from, e) = Records(c, from, p) \cup NewEvents(p, e)
<1>1. Len(c) \in Nat
  BY LenProperties
<1>2. e \in Ends(c, from) /\ Ends(c, from) \subseteq Nat
  BY <1>1 DEF Ends
<1>3. \A d \in Ends(c, from) : d < e => d <= p
  BY <1>1 DEF Ends
<1>4. Begins(c, from, e) = p
  <2>1. EndsBefore(c, from, e) \in SUBSET Nat /\ \A d \in EndsBefore(c, from, e) : d <= p
    BY <1>2, <1>3 DEF EndsBefore
  <2>2. CASE p = from
    <3>1. EndsBefore(c, from, e) = {}
      BY <2>1, <2>2 DEF EndsBefore, Ends
    <3> QED BY <2>2, <3>1 DEF Begins
  <2>3. CASE p # from
    <3>1. p \in EndsBefore(c, from, e)
      BY <1>1, <2>3 DEF EndsBefore, Ends
    <3>2. Max(EndsBefore(c, from, e)) = p
      BY <2>1, <3>1, LastEnd
    <3> QED BY <3>1, <3>2 DEF Begins
  <2> QED BY <2>2, <2>3
<1>5. ASSUME NEW l, l \in Records(c, from, e)
      PROVE  l \in Records(c, from, p) \/ (l = <<p, e>> /\ e > p + 1)
  <2>1. PICK d \in Ends(c, from) : l = <<Begins(c, from, d), d>>
    BY <1>5 DEF Records, Lines
  <2>2. l[1] = Begins(c, from, d) /\ l[2] = d
    BY <2>1
  <2>3. d <= e /\ d > Begins(c, from, d) + 1
    BY <1>5, <2>2 DEF Records
  <2>4. CASE d = e
    BY <1>4, <2>1, <2>3, <2>4
  <2>5. CASE d # e
    <3>1. d <= p
      BY <1>2, <1>3, <2>3, <2>5
    <3> QED BY <1>5, <2>2, <3>1 DEF Records
  <2> QED BY <2>4, <2>5
<1>6. ASSUME NEW l, l \in Records(c, from, p) PROVE l \in Records(c, from, e)
  <2>1. PICK d \in Ends(c, from) : l = <<Begins(c, from, d), d>>
    BY <1>6 DEF Records, Lines
  <2>2. l[2] = d /\ d \in Nat
    BY <1>2, <2>1
  <2>3. l[2] <= e
    BY <1>6, <2>2 DEF Records
  <2> QED BY <1>6, <2>3 DEF Records
<1>7. ASSUME e > p + 1 PROVE <<p, e>> \in Records(c, from, e)
  <2>1. <<p, e>> \in Lines(c, from)
    BY <1>2, <1>4 DEF Lines
  <2> QED BY <1>7, <2>1 DEF Records
<1>8. \A l : l \in Records(c, from, e) <=>
               l \in Records(c, from, p) \/ (l = <<p, e>> /\ e > p + 1)
  BY <1>5, <1>6, <1>7
<1>9. CASE e > p + 1
  BY <1>8, <1>9 DEF NewEvents
<1>10. CASE ~ (e > p + 1)
  BY <1>8, <1>10 DEF NewEvents
<1> QED BY <1>9, <1>10

LEMMA NothingBefore ==
    ASSUME NEW c \in Seq(Byte)
    PROVE  Records(c, Len(c), Len(c)) = {}
<1>1. Ends(c, Len(c)) = {}
  BY LenProperties DEF Ends
<1> QED BY <1>1 DEF Records, Lines

\* The end of a record is the first line feed after its beginning.
LEMMA RecordEnd ==
    ASSUME NEW buf \in Seq(Byte), NEW pos \in Nat, NewlineEnd(buf, pos) > 0
    PROVE  /\ NewlineEnd(buf, pos) \in (pos + 1)..Len(buf)
           /\ buf[NewlineEnd(buf, pos)] = "lf"
           /\ \A i \in (pos + 1)..(NewlineEnd(buf, pos) - 1) : buf[i] # "lf"
<1> DEFINE ends == {i \in (pos + 1)..Len(buf) : buf[i] = "lf"}
<1>0. Len(buf) \in Nat
  BY LenProperties
<1>1. ends # {} /\ NewlineEnd(buf, pos) = Min(ends)
  BY DEF NewlineEnd
<1>2. ends \in SUBSET Nat
  BY <1>0
<1>3. PICK m \in ends : \A x \in ends : m <= x
  <2> HIDE DEF ends
  <2> QED BY <1>1, <1>2, HasMinimum
<1>4. Min(ends) \in ends /\ \A x \in ends : Min(ends) <= x
  <2> HIDE DEF ends
  <2> QED BY <1>3 DEF Min
<1>5. Min(ends) \in (pos + 1)..Len(buf) /\ buf[Min(ends)] = "lf"
  BY <1>4
<1>6. ASSUME NEW i \in (pos + 1)..(Min(ends) - 1) PROVE buf[i] # "lf"
  <2>1. Min(ends) \in Nat /\ Min(ends) <= Len(buf)
    BY <1>0, <1>5
  <2>2. i \notin ends
    <3> HIDE DEF ends
    <3> QED BY <1>4, <1>6, <2>1
  <2>3. i \in (pos + 1)..Len(buf)
    <3> HIDE DEF ends
    <3> QED BY <1>0, <2>1
  <2> QED BY <2>2, <2>3
<1> HIDE DEF ends
<1> QED BY <1>1, <1>5, <1>6

ScanTyped(s) ==
    s \in [file : 0..NumFiles, bytes : 0..ReadBytes, records : 0..ScanRecords,
           offset : Nat, buf : Seq(Byte), pos : Nat, open : BOOLEAN]

\* A scan that has no file open has no buffer; it is at a file or over.
Closed(s) == ScanTyped(s) /\ ~ s.open /\ s.pos = 0 /\ s.buf = << >>
             /\ (s = NoScan \/ s.file \in Files)

\* A scan that has a file open is at its cursor, and what it has read of it is
\* what stands there still.
Reading(s, f) ==
    /\ f \in Files
    /\ cursor[f] = s.offset + s.pos /\ s.pos <= Len(s.buf)
    /\ s.offset + Len(s.buf) <= MaxBytes[f]
    /\ f \notin rewritten =>
         /\ s.offset + Len(s.buf) <= Len(content[f])
         /\ \A i \in 1..Len(s.buf) : s.buf[i] = content[f][s.offset + i]

Opened(s) == ScanTyped(s) /\ s.open /\ Reading(s, s.file)

FileTyped(f) == /\ content[f] \in Seq(Byte) /\ Len(content[f]) <= MaxBytes[f]
                /\ cursor[f] \in None..MaxBytes[f] /\ base[f] \in 0..MaxBytes[f]

FilesTyped ==
    /\ DOMAIN content = Files /\ DOMAIN cursor = Files
    /\ DOMAIN base = Files /\ DOMAIN events = Files
    /\ \A f \in Files : FileTyped(f)
    /\ listed \subseteq Files /\ rewritten \subseteq Files
    /\ scanFaults \in 0..MaxScanFaults

\* The cursor is where the file was first seen or where a line ends.
LinesSound(f) ==
    /\ cursor[f] = None => events[f] = {}
    /\ cursor[f] # None => /\ base[f] <= cursor[f] /\ cursor[f] <= Len(content[f])
                           /\ cursor[f] = base[f] \/ content[f][cursor[f]] = "lf"
                           /\ events[f] = Records(content[f], base[f], cursor[f])

TailInv == /\ FilesTyped
           /\ \A f \in Files \ rewritten : LinesSound(f)
           /\ Closed(scan) \/ Opened(scan)

\* Whether the application scans plays no part in what is stored.
TailingTyped == tailing \in {"starting", "polling", "off"}

LEMMA StepTailing == TailingTyped /\ [TailNext]_tailVars => TailingTyped'
BY DEF TailingTyped, TailNext, tailVars, Create, Rewrite, Write, Scan, BeginScan, OpenFile,
       CommitRecord, CloseFile, ScanFails, Restart, Polls

LEMMA TailInvIsEnough == TailInv /\ TailingTyped => TailInvariant
<1> SUFFICES ASSUME TailInv, TailingTyped PROVE TailInvariant
  OBVIOUS
<1>1. StoredExactlyOnce
  BY DEF TailInv, LinesSound, StoredExactlyOnce
<1>2. ScanTyped(scan) /\ scan.pos <= Len(scan.buf)
  BY LenProperties DEF TailInv, Closed, Opened, Reading, ScanTyped
<1> QED BY <1>1, <1>2 DEF TailInvariant, TailTypeOK, TailInv, FilesTyped, FileTyped, ScanTyped, Byte,
            TailingTyped

LEMMA NoScanIsClosed == Closed(NoScan)
<1>1. << >> \in Seq(Byte)
  OBVIOUS
<1> QED BY <1>1, LogTailAssumption DEF Closed, ScanTyped, NoScan

LEMMA InitTail == TailInit => TailInv
<1> SUFFICES ASSUME TailInit PROVE TailInv
  OBVIOUS
<1>1. << >> \in Seq(Byte) /\ Len(<< >>) = 0
  OBVIOUS
<1>2. \A f \in Files : MaxBytes[f] \in Nat
  BY LogTailAssumption DEF Files
<1> QED BY <1>1, <1>2, NoScanIsClosed, LogTailAssumption
        DEF TailInit, TailInv, FilesTyped, FileTyped, LinesSound, None

\* The scan goes on to the next file, or ends.
LEMMA AfterIsClosed ==
    ASSUME ScanTyped(scan), NEW f \in Files, NEW read \in Nat
    PROVE  Closed(After(f, read))
<1>1. CASE f + 1 \in Files /\ scan.bytes > read /\ scan.records > 0
  <2>1. /\ f + 1 \in 0..NumFiles /\ scan.bytes - read \in 0..ReadBytes
        /\ scan.records \in 0..ScanRecords /\ << >> \in Seq(Byte)
    BY <1>1, LogTailAssumption DEF ScanTyped, Files
  <2>2. After(f, read) = [file |-> f + 1, bytes |-> scan.bytes - read, records |-> scan.records,
                          offset |-> 0, buf |-> << >>, pos |-> 0, open |-> FALSE]
    BY <1>1 DEF After, NoScan
  <2> QED BY <1>1, <2>1, <2>2 DEF Closed, ScanTyped
<1>2. CASE ~ (f + 1 \in Files /\ scan.bytes > read /\ scan.records > 0)
  BY <1>2, NoScanIsClosed DEF After
<1> QED BY <1>1, <1>2

\* Nothing but the scan changes, and it has no file open.
LEMMA ScanCloses ==
    ASSUME TailInv, Closed(scan'), scanFaults' \in 0..MaxScanFaults,
           UNCHANGED <<content, listed, cursor, events, base, rewritten>>
    PROVE  TailInv'
<1>1. Closed(scan)'
  BY DEF Closed, ScanTyped
<1>2. FilesTyped'
  BY DEF TailInv, FilesTyped, FileTyped
<1>3. \A f \in Files \ rewritten' : LinesSound(f)'
  BY DEF TailInv, LinesSound
<1> QED BY <1>1, <1>2, <1>3 DEF TailInv

\* A scan at rest is at rest whatever becomes of the files.
LEMMA StaysClosed == Closed(scan) /\ scan' = scan => Closed(scan)'
BY DEF Closed, ScanTyped

LEMMA WriteKeeps ==
    ASSUME TailInv, NEW f \in Files, NEW b \in Byte, Write(f, b)
    PROVE  TailInv'
<1>1. /\ \A g \in Files : content'[g] = IF g = f THEN Append(content[f], b) ELSE content[g]
      /\ DOMAIN content' = Files /\ Len(content[f]) < MaxBytes[f]
      /\ UNCHANGED <<listed, cursor, events, scan, scanFaults, base, rewritten>>
  BY DEF Write, TailInv, FilesTyped
<1>2. \A g \in Files : content[g] \in Seq(Byte) /\ Len(content[g]) \in Nat
                       /\ Len(content[g]) <= MaxBytes[g] /\ MaxBytes[g] \in Nat
  BY LenProperties, LogTailAssumption DEF TailInv, FilesTyped, FileTyped, Files
<1>3. /\ content'[f] \in Seq(Byte) /\ Len(content'[f]) = Len(content[f]) + 1
      /\ \A i \in 1..Len(content[f]) : content'[f][i] = content[f][i]
  BY <1>1, <1>2, AppendProperties
<1>4. FilesTyped'
  <2>1. \A g \in Files : content'[g] \in Seq(Byte) /\ Len(content'[g]) <= MaxBytes[g]
    BY <1>1, <1>2, <1>3
  <2> QED BY <1>1, <2>1 DEF TailInv, FilesTyped, FileTyped
<1>5. ASSUME NEW g \in Files \ rewritten' PROVE LinesSound(g)'
  <2>1. LinesSound(g)
    BY <1>1 DEF TailInv
  <2>2. CASE g # f
    BY <1>1, <2>1, <2>2 DEF LinesSound
  <2>3. CASE g = f
    <3>1. CASE cursor[f] = None
      BY <1>1, <2>1, <2>3, <3>1 DEF LinesSound
    <3>2. CASE cursor[f] # None
      <4>1. base[f] \in Nat /\ cursor[f] \in Nat /\ cursor[f] <= Len(content[f])
            /\ base[f] <= cursor[f]
        BY <1>2, <2>1, <2>3, <3>2 DEF LinesSound, TailInv, FilesTyped, FileTyped, None
      <4>2. Records(content'[f], base[f], cursor[f]) = Records(content[f], base[f], cursor[f])
        <5>1. content'[f] = Append(content[f], b) /\ content[f] \in Seq(Byte)
          BY <1>1, <1>2
        <5> QED BY <4>1, <5>1, LinesStay
      <4>3. cursor[f] # base[f] => content'[f][cursor[f]] = content[f][cursor[f]]
        BY <1>2, <1>3, <4>1
      <4> QED BY <1>1, <1>2, <1>3, <2>1, <2>3, <3>2, <4>1, <4>2, <4>3 DEF LinesSound
    <3> QED BY <3>1, <3>2
  <2> QED BY <2>2, <2>3
<1>6. Closed(scan)' \/ Opened(scan)'
  <2>1. CASE Closed(scan)
    BY <1>1, <2>1, StaysClosed
  <2>2. CASE Opened(scan)
    <3> DEFINE s == scan
               g == scan.file
    <3>1. Reading(s, g) /\ ScanTyped(s) /\ s.open
      BY <2>2 DEF Opened
    <3>2. Reading(s, g)'
      <4>1. CASE g # f
        BY <1>1, <3>1, <4>1 DEF Reading
      <4>2. CASE g = f
        <5>1. Len(s.buf) \in Nat /\ s.offset \in Nat
          BY <3>1, LenProperties DEF ScanTyped
        <5>2. f \notin rewritten => s.offset + Len(s.buf) <= Len(content'[f])
          BY <1>2, <1>3, <3>1, <4>2, <5>1 DEF Reading
        <5>3. ASSUME f \notin rewritten, NEW i \in 1..Len(s.buf)
              PROVE  s.buf[i] = content'[f][s.offset + i]
          <6>1. s.offset + i \in 1..Len(content[f]) /\ s.buf[i] = content[f][s.offset + i]
            BY <1>2, <3>1, <4>2, <5>1, <5>3 DEF Reading
          <6> QED BY <1>3, <6>1
        <5> QED BY <1>1, <3>1, <4>2, <5>2, <5>3 DEF Reading
      <4> QED BY <4>1, <4>2
    <3>3. ScanTyped(scan)' /\ scan'.open
      BY <1>1, <3>1 DEF ScanTyped
    <3> QED BY <1>1, <3>2, <3>3 DEF Opened
  <2> QED BY <2>1, <2>2 DEF TailInv
<1> QED BY <1>4, <1>5, <1>6 DEF TailInv

LEMMA RewriteKeeps ==
    ASSUME TailInv, NEW f \in Files, Rewrite(f)
    PROVE  TailInv'
<1>1. /\ \A g \in Files : content'[g] = IF g = f THEN << >> ELSE content[g]
      /\ DOMAIN content' = Files
      /\ rewritten' = rewritten \cup {f} /\ scanFaults' = scanFaults + 1
      /\ scanFaults < MaxScanFaults
      /\ UNCHANGED <<listed, cursor, events, scan, base>>
  BY DEF Rewrite, TailInv, FilesTyped
<1>2. << >> \in Seq(Byte) /\ Len(<< >>) = 0 /\ MaxBytes[f] \in Nat
  BY LogTailAssumption DEF Files
<1>3. FilesTyped'
  <2>1. ASSUME NEW g \in Files PROVE content'[g] \in Seq(Byte) /\ Len(content'[g]) <= MaxBytes[g]
    <3>1. CASE g = f
      <4>1. content'[g] = << >>
        BY <1>1, <3>1
      <4> QED BY <1>2, <3>1, <4>1
    <3>2. CASE g # f
      BY <1>1, <3>2 DEF TailInv, FilesTyped, FileTyped
    <3> QED BY <3>1, <3>2
  <2>2. scanFaults' \in 0..MaxScanFaults
    BY <1>1, LogTailAssumption DEF TailInv, FilesTyped
  <2> QED BY <1>1, <2>1, <2>2 DEF TailInv, FilesTyped, FileTyped
<1>4. \A g \in Files \ rewritten' : LinesSound(g)'
  BY <1>1 DEF TailInv, LinesSound
<1>5. Closed(scan)' \/ Opened(scan)'
  <2>1. CASE Closed(scan)
    BY <1>1, <2>1, StaysClosed
  <2>2. CASE Opened(scan)
    <3>1. Reading(scan, scan.file) /\ ScanTyped(scan) /\ scan.open
      BY <2>2 DEF Opened
    <3>2. Reading(scan, scan.file)'
      BY <1>1, <3>1 DEF Reading
    <3>3. ScanTyped(scan)' /\ scan'.open
      BY <1>1, <3>1 DEF ScanTyped
    <3> QED BY <1>1, <3>2, <3>3 DEF Opened
  <2> QED BY <2>1, <2>2 DEF TailInv
<1> QED BY <1>3, <1>4, <1>5 DEF TailInv

LEMMA CreateKeeps ==
    ASSUME TailInv, NEW f \in Files, Create(f)
    PROVE  TailInv'
<1>1. listed' = listed \cup {f}
      /\ UNCHANGED <<content, cursor, events, scan, scanFaults, base, rewritten>>
  BY DEF Create
<1>2. FilesTyped' /\ \A g \in Files \ rewritten' : LinesSound(g)'
  BY <1>1 DEF TailInv, FilesTyped, FileTyped, LinesSound
<1>3. Closed(scan)' \/ Opened(scan)'
  BY <1>1 DEF TailInv, Closed, Opened, ScanTyped, Reading
<1> QED BY <1>2, <1>3 DEF TailInv

LEMMA LesserOfTwo ==
    ASSUME NEW a \in Nat, NEW b \in Nat
    PROVE  Min({a, b}) \in Nat /\ Min({a, b}) <= a /\ Min({a, b}) <= b
<1>1. PICK x \in {a, b} : \A y \in {a, b} : x <= y
  <2>1. CASE a <= b
    BY <2>1
  <2>2. CASE b <= a
    BY <2>2
  <2> QED BY <2>1, <2>2
<1>2. Min({a, b}) \in {a, b} /\ \A y \in {a, b} : Min({a, b}) <= y
  BY <1>1 DEF Min
<1> QED BY <1>2

\* Where a file with a cursor is taken up: where it was left, or at its start.
LEMMA ResumeInFile ==
    ASSUME TailInv, NEW f \in Files, cursor[f] # None
    PROVE  /\ Resume(f) \in Nat /\ Resume(f) <= Len(content[f])
           /\ f \notin rewritten => Resume(f) = cursor[f]
<1>1. MaxBytes[f] \in Nat
  BY LogTailAssumption DEF Files
<1>2. Len(content[f]) \in Nat /\ cursor[f] \in Nat
  BY <1>1, LenProperties DEF TailInv, FilesTyped, FileTyped, None
<1>3. f \notin rewritten => cursor[f] <= Len(content[f])
  BY DEF TailInv, LinesSound
<1> QED BY <1>2, <1>3 DEF Resume

\* What of a text is read from an offset on.
LEMMA ReadOfText ==
    ASSUME NEW c \in Seq(Byte), NEW from \in Nat, NEW n \in Nat, from + n <= Len(c)
    PROVE  /\ SubSeq(c, from + 1, from + n) \in Seq(Byte)
           /\ Len(SubSeq(c, from + 1, from + n)) = n
           /\ \A i \in 1..n : SubSeq(c, from + 1, from + n)[i] = c[from + i]
<1> DEFINE d == SubSeq(c, from + 1, from + n)
<1>1. Len(c) \in Nat /\ \A i \in 1..Len(c) : c[i] \in Byte
  BY LenProperties
<1>2. \A i \in (from + 1)..(from + n) : c[i] \in Byte
  BY <1>1
<1>3. /\ d \in Seq(Byte)
      /\ Len(d) = IF from + 1 <= from + n THEN (from + n) - (from + 1) + 1 ELSE 0
      /\ \A i \in 1..((from + n) - (from + 1) + 1) : d[i] = c[(from + 1) + i - 1]
  BY <1>2, SubSeqProperties
<1> HIDE DEF d
<1>4. Len(d) = n
  BY <1>3
<1>5. ASSUME NEW i \in 1..n PROVE d[i] = c[from + i]
  <2>1. i \in 1..((from + n) - (from + 1) + 1) /\ (from + 1) + i - 1 = from + i
    OBVIOUS
  <2> QED BY <1>3, <2>1
<1> QED BY <1>3, <1>4, <1>5 DEF d

LEMMA OpenFileKeeps == TailInv /\ OpenFile => TailInv'
<1> SUFFICES ASSUME TailInv, OpenFile PROVE TailInv'
  OBVIOUS
<1> DEFINE f == scan.file
           size == Len(content[f])
           from == Resume(f)
           n == Min({scan.bytes, size - from})
           buf == SubSeq(content[f], from + 1, from + n)
<1>1. Closed(scan) /\ f \in Files /\ ScanTyped(scan) /\ scan.bytes \in Nat
  BY LogTailAssumption DEF OpenFile, TailInv, Closed, Opened, ScanTyped
<1>2. UNCHANGED <<content, listed, events, scanFaults, rewritten>>
  BY DEF OpenFile
<1>3. content[f] \in Seq(Byte) /\ size \in Nat /\ MaxBytes[f] \in Nat /\ size <= MaxBytes[f]
  BY <1>1, LenProperties, LogTailAssumption DEF TailInv, FilesTyped, FileTyped, Files
<1>4. CASE f \notin listed
  <2>1. scan' = After(f, 0) /\ UNCHANGED <<cursor, base>>
    BY <1>4 DEF OpenFile
  <2>2. Closed(scan')
    BY <1>1, <2>1, AfterIsClosed
  <2>3. scanFaults' \in 0..MaxScanFaults
    BY <1>2 DEF TailInv, FilesTyped
  <2> QED BY <1>2, <2>1, <2>2, <2>3, ScanCloses
<1>5. CASE f \in listed /\ cursor[f] = None
  <2>1. /\ cursor' = [cursor EXCEPT ![f] = size]
        /\ base' = [base EXCEPT ![f] = size]
        /\ scan' = After(f, 0)
    BY <1>5 DEF OpenFile
  <2>2. Closed(scan')
    BY <1>1, <2>1, AfterIsClosed
  <2>3. /\ \A g \in Files : /\ cursor'[g] = IF g = f THEN size ELSE cursor[g]
                            /\ base'[g] = IF g = f THEN size ELSE base[g]
        /\ DOMAIN cursor' = Files /\ DOMAIN base' = Files
    BY <2>1 DEF TailInv, FilesTyped
  <2>4. ASSUME NEW g \in Files PROVE FileTyped(g)'
    <3>1. size \in None..MaxBytes[f] /\ size \in 0..MaxBytes[f]
      BY <1>3 DEF None
    <3>2. CASE g = f
      BY <1>2, <2>3, <3>1, <3>2 DEF TailInv, FilesTyped, FileTyped
    <3>3. CASE g # f
      BY <1>2, <2>3, <3>3 DEF TailInv, FilesTyped, FileTyped
    <3> QED BY <3>2, <3>3
  <2>5. FilesTyped'
    BY <1>2, <2>3, <2>4 DEF TailInv, FilesTyped
  <2>6. ASSUME NEW g \in Files \ rewritten' PROVE LinesSound(g)'
    <3>1. LinesSound(g)
      BY <1>2, <2>6 DEF TailInv
    <3>2. CASE g = f
      <4>1. cursor'[g] = size /\ base'[g] = size /\ content'[g] = content[f] /\ events'[g] = events[f]
        BY <1>2, <2>3, <3>2
      <4>2. events[f] = {}
        BY <1>5, <3>1, <3>2 DEF LinesSound
      <4>3. Records(content[f], size, size) = {}
        BY <1>3, NothingBefore
      <4>4. size # None
        BY <1>3 DEF None
      <4>5. base'[g] <= cursor'[g] /\ cursor'[g] <= Len(content'[g])
        BY <1>3, <4>1
      <4>6. events'[g] = Records(content'[g], base'[g], cursor'[g])
        BY <4>1, <4>2, <4>3
      <4> HIDE DEF f, size
      <4> QED BY <4>1, <4>4, <4>5, <4>6 DEF LinesSound
    <3>3. CASE g # f
      BY <1>2, <2>3, <3>1, <3>3 DEF LinesSound
    <3> QED BY <3>2, <3>3
  <2>7. Closed(scan)'
    BY <2>2 DEF Closed, ScanTyped
  <2> QED BY <2>5, <2>6, <2>7 DEF TailInv
<1>6. CASE f \in listed /\ cursor[f] # None
  <2>1. /\ cursor' = [cursor EXCEPT ![f] = from]
        /\ scan' = IF size > from
                   THEN [scan EXCEPT !.open = TRUE, !.offset = from, !.buf = buf]
                   ELSE After(f, 0)
        /\ UNCHANGED base
    BY <1>6 DEF OpenFile
  <2>2. from \in Nat /\ from <= size /\ (f \notin rewritten => from = cursor[f])
    BY <1>1, <1>6, ResumeInFile
  <2>3. \A g \in Files : cursor'[g] = (IF g = f THEN from ELSE cursor[g])
    BY <2>1 DEF TailInv, FilesTyped
  <2>3a. DOMAIN cursor' = Files
    BY <2>1 DEF TailInv, FilesTyped
  <2>4. ASSUME NEW g \in Files PROVE FileTyped(g)'
    <3>1. from \in None..MaxBytes[f]
      BY <1>3, <2>2 DEF None
    <3>2. CASE g = f
      <4>1. cursor'[g] = from /\ base'[g] = base[g] /\ content'[g] = content[g]
        BY <1>2, <2>1, <2>3, <3>2
      <4> QED BY <3>1, <3>2, <4>1 DEF TailInv, FilesTyped, FileTyped
    <3>3. CASE g # f
      BY <1>2, <2>1, <2>3, <3>3 DEF TailInv, FilesTyped, FileTyped
    <3> QED BY <3>2, <3>3
  <2>5. FilesTyped'
    BY <1>2, <2>1, <2>3a, <2>4 DEF TailInv, FilesTyped
  <2>6. ASSUME NEW g \in Files \ rewritten' PROVE LinesSound(g)'
    <3>1. LinesSound(g)
      BY <1>2, <2>6 DEF TailInv
    <3>2. cursor'[g] = cursor[g]
      BY <1>2, <2>2, <2>3, <2>6
    <3> QED BY <1>2, <2>1, <3>1, <3>2 DEF LinesSound
  <2>7. CASE ~ (size > from)
    <3>1. scan' = After(f, 0)
      BY <2>1, <2>7
    <3>2. Closed(scan')
      BY <1>1, <3>1, AfterIsClosed
    <3>3. Closed(scan)'
      BY <3>2 DEF Closed, ScanTyped
    <3> QED BY <2>5, <2>6, <3>3 DEF TailInv
  <2>8. CASE size > from
    <3>1. size - from \in Nat
      BY <1>3, <2>2
    <3>2. n \in Nat /\ n <= size - from
      BY <1>1, <3>1, LesserOfTwo
    <3>3. from + n <= size
      <4> HIDE DEF n, from, size
      <4> QED BY <1>3, <2>2, <3>2
    <3>4. /\ buf \in Seq(Byte) /\ Len(buf) = n
          /\ \A i \in 1..n : buf[i] = content[f][from + i]
      BY <1>3, <2>2, <3>2, <3>3, ReadOfText
    <3>5. scan' = [scan EXCEPT !.open = TRUE, !.offset = from, !.buf = buf]
      BY <2>1, <2>8
    <3> HIDE DEF buf, n
    <3>6. /\ ScanTyped(scan') /\ scan'.open = TRUE /\ scan'.offset = from /\ scan'.buf = buf
          /\ scan'.pos = 0 /\ scan'.file = f
      <4>1. scan.pos = 0
        BY <1>1 DEF Closed
      <4> HIDE DEF from
      <4> QED BY <1>1, <2>2, <3>4, <3>5, <4>1 DEF ScanTyped
    <3>7. cursor'[f] = from /\ content'[f] = content[f] /\ rewritten' = rewritten
      BY <1>1, <1>2, <2>3
    <3> HIDE DEF from, f, size
    <3>8. from + n <= MaxBytes[f] /\ from + 0 = from /\ 0 <= n
      BY <1>3, <2>2, <3>2, <3>3
    <3>9. from + n <= Len(content[f])
      BY <3>3 DEF size
    <3>10. Reading(scan, scan.file)'
      BY <1>1, <3>4, <3>6, <3>7, <3>8, <3>9 DEF Reading
    <3>11. Opened(scan)'
      BY <3>6, <3>10 DEF Opened, ScanTyped
    <3> QED BY <2>5, <2>6, <3>11 DEF TailInv
  <2> QED BY <2>7, <2>8
<1> QED BY <1>4, <1>5, <1>6

LEMMA CommitRecordKeeps == TailInv /\ CommitRecord => TailInv'
<1> SUFFICES ASSUME TailInv, CommitRecord PROVE TailInv'
  OBVIOUS
<1> DEFINE f == scan.file
           p == scan.offset + scan.pos
           e == scan.offset + Record
<1>1. HasRecord /\ Opened(scan)
  BY DEF CommitRecord, TailInv, HasRecord, Closed
<1>2. /\ ScanTyped(scan) /\ Reading(scan, f) /\ f \in Files /\ scan.open
      /\ scan.buf \in Seq(Byte) /\ scan.pos \in Nat /\ scan.offset \in Nat
      /\ scan.records \in 0..ScanRecords /\ scan.records > 0 /\ Len(scan.buf) \in Nat
  BY <1>1, LenProperties DEF Opened, Reading, ScanTyped, HasRecord
<1>3. /\ Record \in Nat /\ Record > scan.pos /\ Record <= Len(scan.buf)
      /\ scan.buf[Record] = "lf"
      /\ \A i \in (scan.pos + 1)..(Record - 1) : scan.buf[i] # "lf"
  <2>1. NewlineEnd(scan.buf, scan.pos) > 0
    BY <1>1 DEF HasRecord, Record
  <2>2. /\ Record \in (scan.pos + 1)..Len(scan.buf) /\ scan.buf[Record] = "lf"
        /\ \A i \in (scan.pos + 1)..(Record - 1) : scan.buf[i] # "lf"
    BY <1>2, <2>1, RecordEnd DEF Record
  <2> QED BY <1>2, <2>2
<1>4. /\ events' = [events EXCEPT ![f] = @ \cup NewEvents(p, e)]
      /\ cursor' = [cursor EXCEPT ![f] = e]
      /\ scan' = [scan EXCEPT !.pos = Record, !.records = @ - 1]
      /\ UNCHANGED <<content, listed, scanFaults, base, rewritten>>
  BY DEF CommitRecord
<1>5. /\ \A g \in Files : events'[g] = IF g = f THEN events[f] \cup NewEvents(p, e) ELSE events[g]
      /\ \A g \in Files : cursor'[g] = IF g = f THEN e ELSE cursor[g]
      /\ DOMAIN events' = Files /\ DOMAIN cursor' = Files
  BY <1>4 DEF TailInv, FilesTyped
<1>6. /\ p \in Nat /\ e \in Nat /\ p < e /\ e <= MaxBytes[f] /\ cursor[f] = p
      /\ MaxBytes[f] \in Nat
  <2>1. MaxBytes[f] \in Nat
    BY <1>2, LogTailAssumption DEF Files
  <2> HIDE DEF f
  <2> QED BY <1>2, <1>3, <2>1 DEF Reading
<1>7. FilesTyped'
  <2>1. e \in None..MaxBytes[f]
    BY <1>6 DEF None
  <2>2. ASSUME NEW g \in Files PROVE FileTyped(g)'
    <3>1. CASE g = f
      <4>1. cursor'[g] = e /\ base'[g] = base[g] /\ content'[g] = content[g]
        BY <1>4, <1>5, <3>1
      <4> QED BY <2>1, <3>1, <4>1 DEF TailInv, FilesTyped, FileTyped
    <3>2. CASE g # f
      BY <1>4, <1>5, <3>2 DEF TailInv, FilesTyped, FileTyped
    <3> QED BY <3>1, <3>2
  <2> QED BY <1>4, <1>5, <2>2 DEF TailInv, FilesTyped
<1>8. ASSUME NEW g \in Files \ rewritten' PROVE LinesSound(g)'
  <2>1. LinesSound(g) /\ FileTyped(g)
    BY <1>4, <1>8 DEF TailInv, FilesTyped
  <2>2. CASE g = f
    <3> DEFINE c == content[g]
               b == base[g]
    <3>1. c \in Seq(Byte) /\ b \in Nat /\ Len(c) \in Nat
      BY <1>6, <2>1, <2>2, LenProperties DEF FileTyped
    <3>2. /\ scan.offset + Len(scan.buf) <= Len(c)
          /\ \A i \in 1..Len(scan.buf) : scan.buf[i] = c[scan.offset + i]
      BY <1>2, <1>4, <1>8, <2>2 DEF Reading
    <3>3. cursor[g] = p /\ p # None
      BY <1>6, <2>2 DEF None
    <3>4. b <= p /\ (p = b \/ c[p] = "lf") /\ events[g] = Records(c, b, p)
      BY <2>1, <3>3 DEF LinesSound
    <3>5. e <= Len(c) /\ c[e] = "lf"
      BY <1>2, <1>3, <3>1, <3>2
    <3>6. ASSUME NEW i \in (p + 1)..(e - 1) PROVE c[i] # "lf"
      <4> DEFINE j == i - scan.offset
      <4>1. j \in (scan.pos + 1)..(Record - 1) /\ j \in 1..Len(scan.buf) /\ scan.offset + j = i
        <5>1. /\ scan.offset \in Nat /\ scan.pos \in Nat /\ Record \in Nat
              /\ Record <= Len(scan.buf) /\ Len(scan.buf) \in Nat /\ i \in Int
          BY <1>2, <1>3, <3>6
        <5>2. scan.offset + scan.pos + 1 <= i /\ i <= scan.offset + Record - 1
          BY <1>2, <1>3, <3>6
        <5> HIDE DEF p, e, c, b, f
        <5>3. j \in Int /\ scan.offset + j = i
          BY <5>1
        <5>4. scan.pos + 1 <= j /\ j <= Record - 1
          BY <5>1, <5>2
        <5> HIDE DEF j
        <5> QED BY <5>1, <5>3, <5>4
      <4> HIDE DEF j
      <4> QED BY <1>3, <3>2, <4>1
    <3> HIDE DEF c, b, p, e
    <3>7. Records(c, b, e) = Records(c, b, p) \cup NewEvents(p, e)
      BY <1>6, <3>1, <3>4, <3>5, <3>6, LineFound
    <3>8. events'[g] = events[g] \cup NewEvents(p, e) /\ cursor'[g] = e
          /\ content'[g] = c /\ base'[g] = b
      BY <1>4, <1>5, <2>2 DEF c, b
    <3>9. e # None /\ b <= e
      BY <1>6, <3>1, <3>4 DEF None
    <3> QED BY <3>4, <3>5, <3>7, <3>8, <3>9 DEF LinesSound
  <2>3. CASE g # f
    BY <1>4, <1>5, <2>1, <2>3 DEF LinesSound
  <2> QED BY <2>2, <2>3
<1>9. Opened(scan)'
  <2>1. /\ scan'.pos = Record /\ scan'.records = scan.records - 1 /\ scan'.file = f
        /\ scan'.offset = scan.offset /\ scan'.buf = scan.buf /\ scan'.open = scan.open
    BY <1>2, <1>4 DEF ScanTyped
  <2>2. scan.records - 1 \in 0..ScanRecords
    BY <1>2, LogTailAssumption
  <2>3. ScanTyped(scan')
    BY <1>2, <1>3, <1>4, <2>2 DEF ScanTyped
  <2>4. cursor'[f] = scan.offset + Record /\ content' = content /\ rewritten' = rewritten
    BY <1>2, <1>4, <1>5
  <2>5. Reading(scan, scan.file)'
    BY <1>2, <1>3, <2>1, <2>4 DEF Reading
  <2> QED BY <1>2, <2>1, <2>3, <2>5 DEF Opened, ScanTyped
<1> QED BY <1>7, <1>8, <1>9 DEF TailInv

LEMMA StepTail == TailInv /\ [TailNext]_tailVars => TailInv'
<1> SUFFICES ASSUME TailInv, [TailNext]_tailVars PROVE TailInv'
  OBVIOUS
<1>0. ScanTyped(scan) /\ scanFaults \in 0..MaxScanFaults /\ MaxScanFaults \in Nat
  BY LogTailAssumption DEF TailInv, Closed, Opened, FilesTyped
<1>1. CASE UNCHANGED tailVars
  BY <1>1 DEF tailVars, TailInv, FilesTyped, FileTyped, LinesSound, Closed, Opened, ScanTyped, Reading
<1>2. ASSUME NEW f \in Files, Create(f) PROVE TailInv'
  BY <1>2, CreateKeeps
<1>3. ASSUME NEW f \in Files, Rewrite(f) PROVE TailInv'
  BY <1>3, RewriteKeeps
<1>4. ASSUME NEW f \in Files, NEW b \in {"c", "lf"}, Write(f, b) PROVE TailInv'
  BY <1>4, WriteKeeps DEF Byte
<1>5. CASE BeginScan
  <2>1. scan' = [file |-> 1, bytes |-> ReadBytes, records |-> ScanRecords,
                 offset |-> 0, buf |-> << >>, pos |-> 0, open |-> FALSE]
    BY <1>5 DEF BeginScan, NoScan
  <2>2. << >> \in Seq(Byte) /\ 1 \in Files /\ 1 \in 0..NumFiles
    BY LogTailAssumption DEF Files
  <2>3. Closed(scan')
    BY <2>1, <2>2, LogTailAssumption DEF Closed, ScanTyped
  <2> QED BY <1>0, <1>5, <2>3, ScanCloses DEF BeginScan
<1>6. CASE OpenFile
  BY <1>6, OpenFileKeeps
<1>7. CASE CommitRecord
  BY <1>7, CommitRecordKeeps
<1>8. CASE CloseFile
  <2>1. Opened(scan)
    BY <1>8 DEF CloseFile, TailInv, Closed
  <2>2. scan.file \in Files /\ Len(scan.buf) \in Nat
    BY <1>0, <2>1, LenProperties DEF Opened, Reading, ScanTyped
  <2>3. Closed(scan')
    BY <1>0, <1>8, <2>2, AfterIsClosed DEF CloseFile
  <2> QED BY <1>0, <1>8, <2>3, ScanCloses DEF CloseFile
<1>9. CASE ScanFails
  <2>1. scanFaults' \in 0..MaxScanFaults
    BY <1>0, <1>9 DEF ScanFails
  <2> QED BY <1>9, <2>1, NoScanIsClosed, ScanCloses DEF ScanFails
<1>10. CASE Restart
  <2>1. scanFaults' \in 0..MaxScanFaults
    BY <1>0, <1>10 DEF Restart
  <2> QED BY <1>10, <2>1, NoScanIsClosed, ScanCloses DEF Restart
<1> QED BY <1>1, <1>2, <1>3, <1>4, <1>5, <1>6, <1>7, <1>8, <1>9, <1>10 DEF TailNext, Scan

\* Every line a log file gets after the application first saw it is stored
\* once, as the line it is, when the cursor has passed it and not before,
\* however many files, whatever budgets a scan has, and whatever scans fail.
THEOREM LinesAreStored == TailSpec => []TailInvariant
<1>1. TailInit => TailInv /\ TailingTyped
  BY InitTail DEF TailInit, TailingTyped
<1>2. (TailInv /\ TailingTyped) /\ [TailNext]_tailVars => (TailInv /\ TailingTyped)'
  BY StepTail, StepTailing
<1>3. TailInv /\ TailingTyped => TailInvariant
  BY TailInvIsEnough
<1> QED BY <1>1, <1>2, <1>3, PTL DEF TailSpec

-----------------------------------------------------------------------------
(* The realtime client                                                     *)

\* What is handed over: each event once, in order, none above the cursor s.
InOrder(line, L) ==
    \A i, j \in DOMAIN line : i < j => line[i] < line[j] \/ line[j] \in L
HandedSound(line, s, L) ==
    /\ LineOver(Nat, line) /\ InOrder(line, L)
    /\ \A x \in ToSet(line) : x \in 1..s

\* What the UI has, or will have, or is known to miss.
Covered == ToSet(Handed) \cup InHand \cup excused

States == {"none", "load", "connect", "read", "save", "push", "wait", "failed"}
LoopTyped(l, n) ==
    /\ l \in [at : States, cursor : 0..n, sent : 0..n, event : 0..n]
    /\ l.event # 0 <=> l.at \in {"save", "push"}

\* The loop that runs is not behind the stored cursor s, and what it has
\* passed is covered.
Rolling(l, s, C) ==
    /\ l.at \in {"connect", "read", "save", "push", "wait"} =>
          1..l.cursor \subseteq C /\ s <= l.cursor
    /\ l.at \in {"read", "save", "push"} => 1..l.sent \subseteq C
    /\ l.at = "save" => l.event = l.cursor /\ s < l.event
    /\ l.at = "push" => l.event = s

ClientTyped ==
    /\ log \in 0..MaxEvents /\ pruned \in 0..log /\ stored \in 0..log
    /\ generation \in 0..MaxStarts /\ active \in 0..generation
    /\ delivered \in Seq(Nat) /\ queue \in Seq(Nat) /\ Len(queue) <= QueueSize
    /\ seen \subseteq 1..log /\ excused \subseteq 1..log /\ faults \in 0..MaxFaults

LoopsTyped ==
    /\ DOMAIN loop = Generations
    /\ \A g \in Generations : /\ LoopTyped(loop[g], log)
                              /\ g > generation => loop[g] = Gone

\* Events about to be handed over.
Pushing ==
    /\ \A g \in Generations : At(g, "push") =>
          loop[g].event <= stored /\ loop[g].event \notin ToSet(Handed)
    /\ \A g, h \in Generations :
          At(g, "push") /\ At(h, "push") /\ loop[g].event = loop[h].event => g = h

AllCovered == 1..stored \subseteq Covered /\ seen \subseteq Covered
ActiveRolls == active # 0 => Rolling(loop[active], stored, Covered)

ClientInv == /\ ClientTyped /\ LoopsTyped
             /\ HandedSound(Handed, stored, late)
             /\ Pushing /\ AllCovered /\ ActiveRolls

LEMMA ClientInvIsEnough == ClientInv => ClientInvariant
<1> SUFFICES ASSUME ClientInv PROVE ClientInvariant
  OBVIOUS
<1>1. OnceInOrder
  BY DEF ClientInv, HandedSound, LineOver, InOrder, OnceInOrder
<1>2. NothingSkipped
  BY DEF ClientInv, AllCovered, Covered, NothingSkipped
<1>3. ToSet(Handed) \subseteq 1..log
  BY DEF ClientInv, HandedSound, ClientTyped
<1>4. ClientTypeOK
  BY <1>3 DEF ClientInv, ClientTyped, LoopsTyped, LoopTyped, States, ClientTypeOK
<1> QED BY <1>1, <1>2, <1>4 DEF ClientInvariant

LEMMA InitClient == ClientInit => ClientInv
<1> SUFFICES ASSUME ClientInit PROVE ClientInv
  OBVIOUS
<1>1. << >> \in Seq(Nat) /\ Len(<< >>) = 0
  OBVIOUS
<1>2. Handed = << >>
  BY DEF ClientInit, Handed
<1>3. ClientTyped
  BY <1>1, DesktopRealtimeAssumption DEF ClientInit, ClientTyped
<1>4. \A g \in Generations : loop[g] = Gone
  BY DEF ClientInit
<1>5. LoopsTyped
  <2>1. LoopTyped(Gone, log)
    BY DEF LoopTyped, Gone, States, ClientInit
  <2> QED BY <1>4, <2>1 DEF LoopsTyped, ClientInit
<1>6. DOMAIN << >> = {}
  BY <1>1, LenProperties
<1>7. HandedSound(Handed, stored, late)
  BY <1>2, <1>6, EmptyLine DEF HandedSound, InOrder
<1>8. Pushing
  BY <1>4 DEF Pushing, At, Gone
<1>9. AllCovered /\ ActiveRolls
  BY DEF AllCovered, ActiveRolls, ClientInit
<1> QED BY <1>3, <1>5, <1>7, <1>8, <1>9 DEF ClientInv

\* An event joins the channel behind everything handed over.
LEMMA HandedGrows ==
    ASSUME NEW d \in Seq(Nat), NEW q \in Seq(Nat), NEW e \in Nat
    PROVE  d \o Append(q, e) = Append(d \o q, e)
<1> DEFINE m == Len(d)
           n == Len(q)
           r == Append(q, e)
           a == d \o r
           b == Append(d \o q, e)
<1>1. /\ r \in Seq(Nat) /\ Len(r) = n + 1 /\ r[n + 1] = e /\ m \in Nat /\ n \in Nat
      /\ \A i \in 1..n : r[i] = q[i]
  BY AppendProperties, LenProperties
<1>2. /\ d \o q \in Seq(Nat) /\ Len(d \o q) = m + n
      /\ \A i \in 1..(m + n) : (d \o q)[i] = IF i <= m THEN d[i] ELSE q[i - m]
  BY ConcatProperties
<1>3. /\ a \in Seq(Nat) /\ Len(a) = m + (n + 1)
      /\ \A i \in 1..(m + (n + 1)) : a[i] = IF i <= m THEN d[i] ELSE r[i - m]
  <2> HIDE DEF r
  <2>1. /\ a \in Seq(Nat) /\ Len(a) = m + Len(r)
        /\ \A i \in 1..(m + Len(r)) : a[i] = IF i <= m THEN d[i] ELSE r[i - m]
    BY <1>1, ConcatProperties
  <2>2. Len(r) = n + 1
    BY <1>1
  <2> HIDE DEF a, m, n
  <2> QED BY <2>1, <2>2
<1>4. /\ b \in Seq(Nat) /\ Len(b) = (m + n) + 1 /\ b[(m + n) + 1] = e
      /\ \A i \in 1..(m + n) : b[i] = (d \o q)[i]
  BY <1>2, AppendProperties
<1> HIDE DEF m, n, r, a, b
<1>5. ASSUME NEW i \in 1..(m + (n + 1)) PROVE a[i] = b[i]
  <2>1. CASE i <= m
    <3>1. i \in 1..(m + n)
      BY <1>1, <2>1
    <3>2. a[i] = d[i]
      BY <1>3, <2>1
    <3>3. b[i] = d[i]
      BY <1>2, <1>4, <2>1, <3>1
    <3> QED BY <3>2, <3>3
  <2>2. CASE m < i /\ i <= m + n
    <3>1. i - m \in 1..n /\ i \in 1..(m + n)
      BY <1>1, <2>2
    <3>2. a[i] = q[i - m]
      BY <1>1, <1>3, <2>2, <3>1
    <3>3. b[i] = q[i - m]
      <4>1. ~ (i <= m)
        BY <1>1, <2>2
      <4> QED BY <1>2, <1>4, <3>1, <4>1
    <3> QED BY <3>2, <3>3
  <2>3. CASE m + n < i
    <3>1. i = (m + n) + 1 /\ i - m = n + 1
      BY <1>1, <2>3
    <3>2. a[i] = r[n + 1]
      BY <1>1, <1>3, <3>1
    <3> QED BY <1>1, <1>4, <3>1, <3>2
  <2> QED BY <1>1, <2>1, <2>2, <2>3
<1>6. Len(a) = Len(b)
  BY <1>1, <1>3, <1>4
<1>7. a = b
  BY <1>3, <1>4, <1>5, <1>6, SeqEqual
<1> QED BY <1>7 DEF a, b, r

\* The UI takes the first of the channel.
LEMMA HandedStays ==
    ASSUME NEW d \in Seq(Nat), NEW q \in Seq(Nat), q # << >>
    PROVE  /\ Append(d, Head(q)) \o Tail(q) = d \o q
           /\ Append(d, Head(q)) \in Seq(Nat) /\ Tail(q) \in Seq(Nat)
           /\ Len(Tail(q)) <= Len(q)
<1> DEFINE m == Len(d)
           n == Len(q)
           c == Append(d, Head(q))
           t == Tail(q)
           a == c \o t
           b == d \o q
<1>1. /\ m \in Nat /\ n \in Nat /\ n > 0
  BY LenProperties, EmptySeq
<1>2. /\ Head(q) \in Nat /\ Head(q) = q[1] /\ t \in Seq(Nat) /\ Len(t) = n - 1
      /\ \A i \in 1..(n - 1) : t[i] = q[i + 1]
  BY HeadTailProperties
<1>3. /\ c \in Seq(Nat) /\ Len(c) = m + 1 /\ c[m + 1] = q[1]
      /\ \A i \in 1..m : c[i] = d[i]
  BY <1>2, AppendProperties
<1>4. /\ b \in Seq(Nat) /\ Len(b) = m + n
      /\ \A i \in 1..(m + n) : b[i] = IF i <= m THEN d[i] ELSE q[i - m]
  BY ConcatProperties
<1>5. /\ a \in Seq(Nat) /\ Len(a) = (m + 1) + (n - 1)
      /\ \A i \in 1..((m + 1) + (n - 1)) : a[i] = IF i <= m + 1 THEN c[i] ELSE t[i - (m + 1)]
  <2> HIDE DEF c, t
  <2>1. /\ a \in Seq(Nat) /\ Len(a) = Len(c) + Len(t)
        /\ \A i \in 1..(Len(c) + Len(t)) : a[i] = IF i <= Len(c) THEN c[i] ELSE t[i - Len(c)]
    BY <1>2, <1>3, ConcatProperties
  <2>2. Len(c) = m + 1 /\ Len(t) = n - 1
    BY <1>2, <1>3
  <2> HIDE DEF a, m, n
  <2> QED BY <2>1, <2>2
<1> HIDE DEF m, n, c, t, a, b
<1>6. ASSUME NEW i \in 1..(m + n) PROVE a[i] = b[i]
  <2>0. i \in 1..((m + 1) + (n - 1))
    BY <1>1
  <2>1. CASE i <= m
    <3>1. i \in 1..m /\ i <= m + 1
      BY <1>1, <2>1
    <3>2. a[i] = c[i]
      BY <1>5, <2>0, <3>1
    <3>3. b[i] = d[i]
      BY <1>4, <2>1
    <3> QED BY <1>3, <3>1, <3>2, <3>3
  <2>2. CASE i = m + 1
    <3>1. i - m = 1 /\ ~ (i <= m) /\ i <= m + 1
      BY <1>1, <2>2
    <3>2. b[i] = q[1]
      BY <1>4, <3>1
    <3>3. a[i] = c[i]
      BY <1>5, <2>0, <3>1
    <3> QED BY <1>3, <2>2, <3>2, <3>3
  <2>3. CASE m + 1 < i
    <3> DEFINE j == i - (m + 1)
    <3>1. j \in 1..(n - 1) /\ j + 1 = i - m /\ ~ (i <= m) /\ ~ (i <= m + 1)
      BY <1>1, <2>3
    <3>2. a[i] = t[j]
      BY <1>5, <2>0, <3>1
    <3>3. b[i] = q[i - m]
      BY <1>4, <3>1
    <3> HIDE DEF j
    <3> QED BY <1>2, <3>1, <3>2, <3>3
  <2> QED BY <1>1, <2>1, <2>2, <2>3
<1>7. Len(a) = m + n /\ Len(b) = m + n
  BY <1>1, <1>4, <1>5
<1>8. a = b
  BY <1>4, <1>5, <1>6, <1>7, SeqEqual
<1>9. Len(t) <= n
  BY <1>1, <1>2
<1> QED BY <1>2, <1>3, <1>8, <1>9 DEF a, b, c, t, n

\* What the UI has taken is the beginning of what was handed over.
LEMMA TakenIsSound ==
    ASSUME NEW d \in Seq(Nat), NEW q \in Seq(Nat), NEW s, NEW L, HandedSound(d \o q, s, L)
    PROVE  HandedSound(d, s, L) /\ \A x \in ToSet(d \o q) : x \in ToSet(d) \/ x \in ToSet(q)
<1> DEFINE m == Len(d)
           n == Len(q)
           h == d \o q
<1>1. /\ DOMAIN d = 1..m /\ m \in Nat /\ DOMAIN q = 1..n /\ n \in Nat
      /\ \A x : x \in ToSet(d) <=> \E i \in 1..m : d[i] = x
      /\ \A x : x \in ToSet(q) <=> \E i \in 1..n : q[i] = x
  BY LinePlaces
<1>2. /\ h \in Seq(Nat) /\ Len(h) = m + n
      /\ \A i \in 1..(m + n) : h[i] = IF i <= m THEN d[i] ELSE q[i - m]
  BY ConcatProperties
<1>2a. HandedSound(h, s, L)
  OBVIOUS
<1> HIDE DEF m, n, h
<1>3. /\ DOMAIN h = 1..(m + n)
      /\ \A x : x \in ToSet(h) <=> \E i \in 1..(m + n) : h[i] = x
  BY <1>2, LinePlaces
<1>4. \A i \in 1..m : i \in 1..(m + n) /\ h[i] = d[i]
  BY <1>1, <1>2
<1>5. IsInjective(d) /\ InOrder(d, L)
  BY <1>1, <1>2a, <1>3, <1>4 DEF HandedSound, LineOver, IsInjective, InOrder
<1>6. \A x \in ToSet(d) : x \in ToSet(h)
  BY <1>1, <1>3, <1>4
<1>7. HandedSound(d, s, L)
  BY <1>2a, <1>5, <1>6 DEF HandedSound, LineOver
<1>8. ASSUME NEW x \in ToSet(h) PROVE x \in ToSet(d) \/ x \in ToSet(q)
  <2>1. PICK i \in 1..(m + n) : h[i] = x
    BY <1>3
  <2>2. CASE i <= m
    BY <1>1, <1>2, <2>1, <2>2
  <2>3. CASE m < i
    <3>1. i - m \in 1..n /\ ~ (i <= m)
      BY <1>1, <2>3
    <3>2. q[i - m] = x
      BY <1>2, <2>1, <3>1
    <3> QED BY <1>1, <3>1, <3>2
  <2> QED BY <1>1, <2>2, <2>3
<1> QED BY <1>7, <1>8 DEF h

LEMMA RollsOn ==
    ASSUME NEW l, NEW s, NEW C, NEW D, C \subseteq D, Rolling(l, s, C)
    PROVE  Rolling(l, s, D)
BY DEF Rolling

LEMMA LoopTypedOn ==
    ASSUME NEW l, NEW n \in Nat, LoopTyped(l, n)
    PROVE  LoopTyped(l, n + 1)
BY DEF LoopTyped

\* One loop goes on, without handing over or storing anything.
LoopGoes(g, l) ==
    /\ loop[g] # Gone
    /\ loop' = [loop EXCEPT ![g] = l]
    /\ excused \subseteq excused'
    /\ loop[g].event \in {0, l.event} \cup excused'
    /\ l.at = "push" => loop[g].at = "push" /\ l.event = loop[g].event
    /\ UNCHANGED <<log, pruned, generation, active, stored, queue, delivered, late>>

LEMMA LoopGoesCovers ==
    ASSUME LoopsTyped, NEW g \in Generations, NEW l, LoopGoes(g, l)
    PROVE  /\ Covered \subseteq Covered' /\ Handed' = Handed
           /\ excused' \subseteq Covered' /\ (l.event # 0 => l.event \in Covered')
           /\ \A h \in Generations : loop'[h] = IF h = g THEN l ELSE loop[h]
<1>1. Handed' = Handed
  BY DEF LoopGoes, Handed
<1>2. \A h \in Generations : loop'[h] = IF h = g THEN l ELSE loop[h]
  BY DEF LoopGoes, LoopsTyped
<1>3. excused' \subseteq Covered' /\ (l.event # 0 => l.event \in Covered')
  BY <1>2 DEF Covered, InHand
<1>4. ASSUME NEW x \in InHand PROVE x \in Covered'
  <2>1. PICK h \in Generations : loop[h].event # 0 /\ x = loop[h].event
    BY DEF InHand
  <2>2. CASE h = g
    BY <1>3, <2>1, <2>2 DEF LoopGoes
  <2>3. CASE h # g
    <3>1. loop'[h] = loop[h]
      BY <1>2, <2>3
    <3> QED BY <2>1, <3>1 DEF Covered, InHand
  <2> QED BY <2>2, <2>3
<1> QED BY <1>1, <1>2, <1>3, <1>4 DEF LoopGoes, Covered

LEMMA LoopGoesKeeps ==
    ASSUME ClientInv, NEW g \in Generations, NEW l, LoopGoes(g, l), LoopTyped(l, log),
           excused' \subseteq 1..log, faults' \in 0..MaxFaults,
           seen' \subseteq 1..log, seen' \subseteq Covered',
           g = active => Rolling(l, stored, Covered')
    PROVE  ClientInv'
<1>1. UNCHANGED <<log, pruned, generation, active, stored, queue, delivered, late>>
  BY DEF LoopGoes
<1>2. /\ Covered \subseteq Covered' /\ Handed' = Handed
      /\ \A h \in Generations : loop'[h] = IF h = g THEN l ELSE loop[h]
  BY LoopGoesCovers DEF ClientInv
<1>3. ClientTyped'
  BY <1>1 DEF ClientInv, ClientTyped
<1>4. LoopsTyped'
  <2>1. DOMAIN loop' = Generations
    BY DEF ClientInv, LoopsTyped, LoopGoes
  <2>2. ASSUME NEW h \in Generations
        PROVE  LoopTyped(loop'[h], log') /\ (h > generation' => loop'[h] = Gone)
    <3>1. CASE h = g
      <4>1. loop'[h] = l
        BY <1>2, <3>1
      <4>2. ~ (h > generation)
        BY <3>1 DEF ClientInv, LoopsTyped, LoopGoes
      <4> QED BY <1>1, <4>1, <4>2
    <3>2. CASE h # g
      <4>1. loop'[h] = loop[h]
        BY <1>2, <3>2
      <4> QED BY <1>1, <4>1 DEF ClientInv, LoopsTyped
    <3> QED BY <3>1, <3>2
  <2> QED BY <2>1, <2>2 DEF LoopsTyped
<1>5. HandedSound(Handed, stored, late)'
  BY <1>1, <1>2 DEF ClientInv
<1>6. Pushing'
  <2>1. ASSUME NEW h \in Generations, loop'[h].at = "push"
        PROVE  loop[h].at = "push" /\ loop'[h].event = loop[h].event
    <3>1. CASE h = g
      BY <1>2, <2>1, <3>1 DEF LoopGoes
    <3>2. CASE h # g
      BY <1>2, <2>1, <3>2
    <3> QED BY <3>1, <3>2
  <2> QED BY <1>1, <1>2, <2>1 DEF ClientInv, Pushing, At
<1>7. AllCovered'
  BY <1>1, <1>2 DEF ClientInv, AllCovered
<1>8. ActiveRolls'
  <2> SUFFICES ASSUME active # 0 PROVE Rolling(loop'[active], stored, Covered')
    BY <1>1 DEF ActiveRolls
  <2>1. active \in Generations
    BY DesktopRealtimeAssumption DEF ClientInv, ClientTyped, Generations
  <2>2. CASE active = g
    BY <1>2, <2>1, <2>2
  <2>3. CASE active # g
    <3>1. loop'[active] = loop[active] /\ Rolling(loop[active], stored, Covered)
      BY <1>2, <2>1, <2>3 DEF ClientInv, ActiveRolls
    <3> QED BY <1>2, <3>1, RollsOn
  <2> QED BY <2>2, <2>3
<1> QED BY <1>3, <1>4, <1>5, <1>6, <1>7, <1>8 DEF ClientInv

\* What a step that leaves the set of covered events alone has to show.
LEMMA SeenStaysCovered ==
    ASSUME ClientInv, Covered \subseteq Covered', seen' = seen
    PROVE  seen' \subseteq 1..log /\ seen' \subseteq Covered'
BY DEF ClientInv, ClientTyped, AllCovered

LEMMA Waiting ==
    ASSUME ClientInv, NEW g \in Generations, loop[g] # Gone,
           loop[g].at \in {"connect", "read", "save"},
           Reconnect(g), faults' \in 0..MaxFaults, seen' = seen,
           excused' = excused \/ excused' = excused \cup {loop[g].event},
           loop[g].event \in {0} \cup excused',
           excused' \subseteq 1..log,
           UNCHANGED <<log, pruned, generation, active, stored, queue, delivered, late>>
    PROVE  ClientInv'
<1> DEFINE l == [at |-> "wait", cursor |-> loop[g].cursor, sent |-> 0, event |-> 0]
<1>1. LoopTyped(loop[g], log) /\ log \in Nat
  BY DesktopRealtimeAssumption DEF ClientInv, LoopsTyped, ClientTyped
<1>2. excused \subseteq excused'
  OBVIOUS
<1>3. CASE g = active
  <2>1. loop' = [loop EXCEPT ![g] = l]
    BY <1>3 DEF Reconnect, Retries, Gone
  <2>2. LoopGoes(g, l)
    BY <1>2, <2>1 DEF LoopGoes
  <2>3. LoopTyped(l, log)
    BY <1>1 DEF LoopTyped, States
  <2>4. Covered \subseteq Covered'
    BY <2>2, LoopGoesCovers DEF ClientInv
  <2>5. Rolling(l, stored, Covered')
    <3>1. active # 0
      BY <1>3 DEF Generations
    <3>2. Rolling(loop[g], stored, Covered)
      BY <1>3, <3>1 DEF ClientInv, ActiveRolls
    <3>3. 1..loop[g].cursor \subseteq Covered /\ stored <= loop[g].cursor
      BY <3>2 DEF Rolling
    <3> QED BY <2>4, <3>3 DEF Rolling
  <2> HIDE DEF l
  <2> QED BY <1>2, <2>2, <2>3, <2>4, <2>5, SeenStaysCovered, LoopGoesKeeps
<1>4. CASE g # active
  <2>1. loop' = [loop EXCEPT ![g] = Gone]
    BY <1>4 DEF Reconnect, Retries, Exit
  <2>2. LoopGoes(g, Gone)
    BY <1>2, <2>1 DEF LoopGoes, Gone
  <2>3. LoopTyped(Gone, log)
    BY <1>1 DEF LoopTyped, States, Gone
  <2>4. Covered \subseteq Covered'
    BY <2>2, LoopGoesCovers DEF ClientInv
  <2> QED BY <1>2, <1>4, <2>2, <2>3, <2>4, SeenStaysCovered, LoopGoesKeeps
<1> QED BY <1>3, <1>4

LEMMA Leaving ==
    ASSUME ClientInv, NEW g \in Generations, g # active, loop[g] # Gone,
           Exit(g), faults' \in 0..MaxFaults, seen' = seen,
           excused' = excused \/ excused' = excused \cup {loop[g].event},
           loop[g].event \in {0} \cup excused',
           excused' \subseteq 1..log,
           UNCHANGED <<log, pruned, generation, active, stored, queue, delivered, late>>
    PROVE  ClientInv'
<1>1. LoopGoes(g, Gone)
  BY DEF LoopGoes, Gone, Exit
<1>2. LoopTyped(Gone, log)
  BY DesktopRealtimeAssumption DEF LoopTyped, States, Gone, ClientInv, ClientTyped
<1>3. Covered \subseteq Covered'
  BY <1>1, LoopGoesCovers DEF ClientInv
<1> QED BY <1>1, <1>2, <1>3, SeenStaysCovered, LoopGoesKeeps

\* A loop that is somewhere has its event, and is of a started generation.
LEMMA LoopFacts ==
    ASSUME ClientInv, NEW g \in Generations
    PROVE  /\ LoopTyped(loop[g], log) /\ log \in Nat /\ stored \in 0..log /\ pruned \in 0..log
           /\ loop[g].at # "none" => loop[g] # Gone
           /\ loop[g].event \in 0..log
           /\ loop[g].at \notin {"save", "push"} => loop[g].event = 0
           /\ loop[g].at \in {"save", "push"} => loop[g].event \in 1..log
           /\ loop[g].cursor \in 0..log /\ loop[g].sent \in 0..log
           /\ faults \in 0..MaxFaults /\ MaxFaults \in Nat
           /\ excused \subseteq 1..log /\ seen \subseteq 1..log /\ seen \subseteq Covered
           /\ g = active => Rolling(loop[g], stored, Covered)
           /\ Fault => faults' \in 0..MaxFaults
<1>1. LoopTyped(loop[g], log) /\ log \in Nat
  BY DesktopRealtimeAssumption DEF ClientInv, LoopsTyped, ClientTyped
<1>2. /\ loop[g].event \in 0..log /\ (loop[g].event # 0 <=> loop[g].at \in {"save", "push"})
      /\ loop[g].cursor \in 0..log /\ loop[g].sent \in 0..log
  BY <1>1 DEF LoopTyped
<1>3. loop[g].at # "none" => loop[g] # Gone
  BY DEF Gone
<1>4. g = active => Rolling(loop[g], stored, Covered)
  BY DEF ClientInv, ActiveRolls, Generations
<1>5. /\ stored \in 0..log /\ pruned \in 0..log /\ faults \in 0..MaxFaults
      /\ excused \subseteq 1..log /\ seen \subseteq 1..log /\ seen \subseteq Covered
  BY DEF ClientInv, ClientTyped, AllCovered
<1>6. MaxFaults \in Nat
  BY DesktopRealtimeAssumption
<1>7. Fault => faults' \in 0..MaxFaults
  BY <1>5, <1>6 DEF Fault
<1>8. loop[g].at \notin {"save", "push"} => loop[g].event = 0
  BY <1>2
<1>9. loop[g].at \in {"save", "push"} => loop[g].event \in 1..log
  BY <1>1, <1>2
<1> QED BY <1>1, <1>2, <1>3, <1>4, <1>5, <1>6, <1>7, <1>8, <1>9

LEMMA LoadCursorKeeps ==
    ASSUME ClientInv, NEW g \in Generations, LoadCursor(g) PROVE ClientInv'
<1>1. /\ loop[g].at = "load" /\ loop[g] # Gone /\ loop[g].event = 0 /\ log \in Nat
      /\ LoopTyped(loop[g], log) /\ stored \in 0..log
      /\ faults \in 0..MaxFaults /\ (Fault => faults' \in 0..MaxFaults)
      /\ excused \subseteq 1..log
  BY LoopFacts DEF LoadCursor, At
<1>2. UNCHANGED <<log, pruned, generation, active, seen, stored, queue, delivered, excused, late>>
  BY DEF LoadCursor
<1>3. CASE /\ g = active
           /\ loop' = [loop EXCEPT ![g].at = "connect", ![g].cursor = ResumeAt(stored)]
           /\ UNCHANGED faults
  <2> DEFINE l == [loop[g] EXCEPT !.at = "connect", !.cursor = stored]
  <2>1. loop' = [loop EXCEPT ![g] = l]
    BY <1>3 DEF ResumeAt, ClientInv, LoopsTyped
  <2>2. l.at = "connect" /\ l.cursor = stored /\ l.event = 0
    BY <1>1 DEF LoopTyped
  <2>3. LoopTyped(l, log)
    BY <1>1 DEF LoopTyped, States
  <2> HIDE DEF l
  <2>4. LoopGoes(g, l)
    BY <1>1, <1>2, <2>1, <2>2 DEF LoopGoes
  <2>5. Covered \subseteq Covered'
    BY <2>4, LoopGoesCovers DEF ClientInv
  <2>6. Rolling(l, stored, Covered')
    BY <1>1, <2>2, <2>5 DEF Rolling, ClientInv, AllCovered
  <2> QED BY <1>1, <1>2, <1>3, <2>3, <2>4, <2>5, <2>6, SeenStaysCovered, LoopGoesKeeps
<1>4. CASE g # active /\ Exit(g) /\ UNCHANGED faults
  BY <1>1, <1>2, <1>4, Leaving
<1>5. CASE Fault /\ loop' = [loop EXCEPT ![g] = [Gone EXCEPT !.at = "failed"]]
  <2> DEFINE l == [at |-> "failed", cursor |-> 0, sent |-> 0, event |-> 0]
  <2>1. loop' = [loop EXCEPT ![g] = l]
    <3>1. [Gone EXCEPT !.at = "failed"] = l
      BY DEF Gone
    <3> QED BY <1>5, <3>1
  <2>2. LoopTyped(l, log)
    BY <1>1 DEF LoopTyped, States
  <2>3. LoopGoes(g, l)
    BY <1>1, <1>2, <2>1 DEF LoopGoes
  <2>4. Rolling(l, stored, Covered')
    BY DEF Rolling
  <2> HIDE DEF l
  <2>5. Covered \subseteq Covered'
    BY <2>3, LoopGoesCovers DEF ClientInv
  <2> QED BY <1>1, <1>2, <1>5, <2>2, <2>3, <2>4, <2>5, SeenStaysCovered, LoopGoesKeeps
<1> QED BY <1>3, <1>4, <1>5 DEF LoadCursor

LEMMA ConnectKeeps ==
    ASSUME ClientInv, NEW g \in Generations, Connect(g) PROVE ClientInv'
<1> DEFINE c == loop[g].cursor
<1>1. /\ loop[g].at = "connect" /\ loop[g] # Gone /\ loop[g].event = 0 /\ log \in Nat
      /\ LoopTyped(loop[g], log) /\ pruned \in 0..log /\ c \in 0..log
      /\ faults \in 0..MaxFaults /\ (Fault => faults' \in 0..MaxFaults)
      /\ excused \subseteq 1..log
      /\ g = active => Rolling(loop[g], stored, Covered)
  BY LoopFacts DEF Connect, At
<1>2. UNCHANGED <<log, pruned, generation, active, seen, stored, queue, delivered, late>>
  BY DEF Connect
<1>3. CASE g # active
  <2>1. Exit(g) /\ UNCHANGED <<faults, excused>>
    BY <1>3 DEF Connect
  <2> QED BY <1>1, <1>2, <1>3, <2>1, Leaving
<1>4. CASE /\ g = active
           /\ loop' = [loop EXCEPT ![g].at = "read", ![g].sent = IF c = 0 THEN pruned ELSE c]
           /\ excused' = IF c = 0 THEN excused \cup 1..pruned ELSE excused
           /\ UNCHANGED faults
  <2> DEFINE s == IF c = 0 THEN pruned ELSE c
             l == [loop[g] EXCEPT !.at = "read", !.sent = s]
  <2>1. loop' = [loop EXCEPT ![g] = l]
    BY <1>4 DEF ClientInv, LoopsTyped
  <2>2. l.at = "read" /\ l.cursor = c /\ l.sent = s /\ l.event = 0
    BY <1>1 DEF LoopTyped
  <2>3. LoopTyped(l, log)
    BY <1>1 DEF LoopTyped, States
  <2>4. excused' \subseteq 1..log /\ excused \subseteq excused'
    BY <1>1, <1>4
  <2>5. LoopGoes(g, l)
    <3> HIDE DEF l, s
    <3> QED BY <1>1, <1>2, <2>1, <2>2, <2>4 DEF LoopGoes
  <2>6. Covered \subseteq Covered' /\ excused' \subseteq Covered'
    <3> HIDE DEF l
    <3> QED BY <2>5, LoopGoesCovers DEF ClientInv
  <2>7. 1..c \subseteq Covered /\ stored <= c
    BY <1>1, <1>4 DEF Rolling
  <2>8. 1..s \subseteq Covered'
    <3>1. CASE c = 0
      BY <1>4, <2>6, <3>1
    <3>2. CASE c # 0
      BY <2>6, <2>7, <3>2
    <3> QED BY <3>1, <3>2
  <2> HIDE DEF l, s, c
  <2>9. Rolling(l, stored, Covered')
    BY <2>2, <2>6, <2>7, <2>8 DEF Rolling
  <2> QED BY <1>1, <1>2, <1>4, <2>3, <2>4, <2>5, <2>6, <2>9, SeenStaysCovered, LoopGoesKeeps
<1>5. CASE Reconnect(g) /\ faults' \in 0..MaxFaults /\ UNCHANGED excused
  <2>1. excused' \subseteq 1..log
    BY <1>1, <1>5
  <2> HIDE DEF c
  <2> QED BY <1>1, <1>2, <1>5, <2>1, Waiting
<1> QED BY <1>1, <1>3, <1>4, <1>5 DEF Connect

LEMMA ReceiveKeeps ==
    ASSUME ClientInv, NEW g \in Generations, NEW e \in 1..MaxEvents, Receive(g, e)
    PROVE  ClientInv'
<1> DEFINE sent == IF e = loop[g].sent + 1 THEN e ELSE loop[g].sent
<1>1. /\ loop[g].at = "read" /\ loop[g] # Gone /\ loop[g].event = 0 /\ log \in Nat
      /\ LoopTyped(loop[g], log) /\ stored \in 0..log
      /\ loop[g].cursor \in 0..log /\ loop[g].sent \in 0..log
      /\ faults \in 0..MaxFaults /\ (Fault => faults' \in 0..MaxFaults)
      /\ excused \subseteq 1..log /\ seen \subseteq 1..log /\ seen \subseteq Covered
      /\ g = active /\ Rolling(loop[g], stored, Covered)
  BY LoopFacts DEF Receive, At
<1>2. /\ UNCHANGED <<log, pruned, generation, active, stored, queue, delivered, late>>
      /\ seen' = seen \cup {e} /\ e \in 1..log
  BY DEF Receive
<1>3. faults' \in 0..MaxFaults
  BY <1>1 DEF Receive
<1>4. /\ 1..loop[g].cursor \subseteq Covered /\ stored <= loop[g].cursor
      /\ 1..loop[g].sent \subseteq Covered
  BY <1>1 DEF Rolling
<1>5. sent \in 0..log
  BY <1>1, <1>2
<1>6. CASE e \in seen \/ Behind(e, loop[g].cursor)
  <2> DEFINE l == [loop[g] EXCEPT !.sent = sent]
  <2>1. loop' = [loop EXCEPT ![g].sent = sent] /\ excused' = excused
    BY <1>6 DEF Receive
  <2>2. loop' = [loop EXCEPT ![g] = l]
    BY <2>1 DEF ClientInv, LoopsTyped
  <2>3. l.at = "read" /\ l.cursor = loop[g].cursor /\ l.sent = sent /\ l.event = 0
    BY <1>1 DEF LoopTyped
  <2>4. LoopTyped(l, log)
    BY <1>1, <1>5 DEF LoopTyped, States
  <2>5. LoopGoes(g, l)
    <3> HIDE DEF l, sent
    <3> QED BY <1>1, <1>2, <2>1, <2>2, <2>3 DEF LoopGoes
  <2>6. Covered \subseteq Covered'
    <3> HIDE DEF l
    <3> QED BY <2>5, LoopGoesCovers DEF ClientInv
  <2>7. e \in Covered
    BY <1>1, <1>2, <1>4, <1>6 DEF Behind
  <2>8. 1..sent \subseteq Covered'
    <3>1. 1..sent \subseteq 1..loop[g].sent \cup {e}
      BY <1>1, <1>2
    <3> QED BY <1>4, <2>6, <2>7, <3>1
  <2>9. seen' \subseteq 1..log /\ seen' \subseteq Covered'
    BY <1>1, <1>2, <2>6, <2>7
  <2> HIDE DEF l, sent
  <2>10. Rolling(l, stored, Covered')
    BY <1>4, <2>3, <2>6, <2>8 DEF Rolling
  <2>11. excused' \subseteq 1..log
    BY <1>1, <2>1
  <2> QED BY <1>3, <2>4, <2>5, <2>9, <2>10, <2>11, LoopGoesKeeps
<1>7. CASE ~ (e \in seen \/ Behind(e, loop[g].cursor))
  <2> DEFINE l == [at |-> "save", cursor |-> e, sent |-> sent, event |-> e]
  <2>1. /\ loop' = [loop EXCEPT ![g] = l]
        /\ excused' = excused \cup (loop[g].sent + 1)..(e - 1)
    BY <1>7 DEF Receive
  <2>2. l.at = "save" /\ l.cursor = e /\ l.sent = sent /\ l.event = e
    OBVIOUS
  <2>3. e > loop[g].cursor
    BY <1>1, <1>2, <1>7 DEF Behind
  <2>4. LoopTyped(l, log)
    <3>1. l \in [at : States, cursor : 0..log, sent : 0..log, event : 0..log]
      <4> HIDE DEF sent
      <4> QED BY <1>2, <1>5 DEF States
    <3>2. e # 0
      BY <1>2
    <3> HIDE DEF l
    <3>3. l.event # 0 /\ l.at \in {"save", "push"}
      BY <2>2, <3>2
    <3> QED BY <3>1, <3>3, Zenon DEF LoopTyped
  <2>5. excused' \subseteq 1..log /\ excused \subseteq excused'
    <3>1. (loop[g].sent + 1)..(e - 1) \subseteq 1..log
      <4> HIDE DEF l, sent
      <4> QED BY <1>1, <1>2
    <3> HIDE DEF l, sent
    <3> QED BY <1>1, <2>1, <3>1
  <2> HIDE DEF l
  <2>6. LoopGoes(g, l)
    BY <1>1, <1>2, <2>1, <2>2, <2>5 DEF LoopGoes
  <2>7. Covered \subseteq Covered' /\ excused' \subseteq Covered' /\ e \in Covered'
    <3>1. e # 0
      BY <1>2
    <3> QED BY <2>2, <2>6, <3>1, LoopGoesCovers DEF ClientInv
  <2>8. 1..e \subseteq Covered'
    <3>1. ASSUME NEW x \in 1..e PROVE x \in Covered'
      <4>1. x = e \/ x \in 1..loop[g].sent \/ x \in (loop[g].sent + 1)..(e - 1)
        BY <1>1, <1>2
      <4> QED BY <1>4, <2>1, <2>7, <4>1
    <3> QED BY <3>1
  <2>9. 1..sent \subseteq Covered'
    <3>1. CASE e = loop[g].sent + 1
      BY <2>8, <3>1
    <3>2. CASE e # loop[g].sent + 1
      BY <1>4, <2>7, <3>2
    <3> QED BY <3>1, <3>2
  <2>10. seen' \subseteq 1..log /\ seen' \subseteq Covered'
    BY <1>1, <1>2, <2>7
  <2>11. stored < e
    BY <1>1, <1>2, <1>4, <2>3
  <2> HIDE DEF sent
  <2>12. Rolling(l, stored, Covered')
    BY <1>1, <1>2, <2>2, <2>8, <2>9, <2>11 DEF Rolling
  <2> QED BY <1>3, <2>4, <2>5, <2>6, <2>10, <2>12, LoopGoesKeeps
<1> QED BY <1>6, <1>7

LEMMA DisconnectKeeps ==
    ASSUME ClientInv, NEW g \in Generations, Disconnect(g) PROVE ClientInv'
<1>1. loop[g].at = "read" /\ loop[g] # Gone /\ loop[g].event = 0
      /\ faults' \in 0..MaxFaults /\ excused' \subseteq 1..log
  BY LoopFacts DEF Disconnect, At
<1> QED BY <1>1, Waiting DEF Disconnect

LEMMA SaveFailsKeeps ==
    ASSUME ClientInv, NEW g \in Generations, SaveFails(g) PROVE ClientInv'
<1>1. /\ loop[g].at = "save" /\ loop[g] # Gone /\ faults' \in 0..MaxFaults
      /\ loop[g].event \in 1..log /\ excused \subseteq 1..log
  BY LoopFacts DEF SaveFails, At
<1>2. excused' \subseteq 1..log
  BY <1>1 DEF SaveFails
<1> QED BY <1>1, <1>2, Waiting DEF SaveFails

LEMMA PushCancelledKeeps ==
    ASSUME ClientInv, NEW g \in Generations, PushCancelled(g) PROVE ClientInv'
<1>1. /\ loop[g].at = "push" /\ loop[g] # Gone /\ faults \in 0..MaxFaults
      /\ loop[g].event \in 1..log /\ excused \subseteq 1..log
  BY LoopFacts DEF PushCancelled, At
<1>2. excused' \subseteq 1..log
  BY <1>1 DEF PushCancelled
<1> QED BY <1>1, <1>2, Leaving DEF PushCancelled

LEMMA WaitKeeps ==
    ASSUME ClientInv, NEW g \in Generations, Wait(g) PROVE ClientInv'
<1>1. /\ loop[g].at = "wait" /\ loop[g] # Gone /\ loop[g].event = 0
      /\ LoopTyped(loop[g], log) /\ faults \in 0..MaxFaults /\ excused \subseteq 1..log
      /\ g = active => Rolling(loop[g], stored, Covered)
  BY LoopFacts DEF Wait, At
<1>2. UNCHANGED <<log, pruned, generation, active, seen, stored, queue, delivered, faults,
                  excused, late>>
  BY DEF Wait
<1>3. CASE g = active
  <2> DEFINE l == [loop[g] EXCEPT !.at = "connect"]
  <2>1. loop' = [loop EXCEPT ![g] = l]
    BY <1>3 DEF Wait, Goto, ClientInv, LoopsTyped
  <2>2. l.at = "connect" /\ l.cursor = loop[g].cursor /\ l.event = 0
    BY <1>1 DEF LoopTyped
  <2>3. LoopTyped(l, log)
    BY <1>1 DEF LoopTyped, States
  <2> HIDE DEF l
  <2>4. LoopGoes(g, l)
    BY <1>1, <1>2, <2>1, <2>2 DEF LoopGoes
  <2>5. Covered \subseteq Covered'
    BY <2>4, LoopGoesCovers DEF ClientInv
  <2>6. Rolling(l, stored, Covered')
    BY <1>1, <1>3, <2>2, <2>5 DEF Rolling
  <2> QED BY <1>1, <1>2, <2>3, <2>4, <2>5, <2>6, SeenStaysCovered, LoopGoesKeeps
<1>4. CASE g # active
  BY <1>1, <1>2, <1>4, Leaving DEF Wait
<1> QED BY <1>3, <1>4

\* The server's steps, and Stop: no loop moves.
LEMMA NoLoopMoves ==
    ASSUME ClientInv,
           UNCHANGED <<loop, generation, seen, stored, queue, delivered, excused, late>>,
           log' \in {log, log + 1}, log' \in 0..MaxEvents, pruned' \in 0..log',
           faults' \in 0..MaxFaults, active' \in {0, active}
    PROVE  ClientInv'
<1>1. log \in Nat /\ \A x : x \in 0..log => x \in 0..log'
  BY DesktopRealtimeAssumption DEF ClientInv, ClientTyped
<1>2. ClientTyped'
  <2>1. active' \in 0..generation'
    BY DesktopRealtimeAssumption DEF ClientInv, ClientTyped
  <2>2. seen' \subseteq 1..log' /\ excused' \subseteq 1..log' /\ stored' \in 0..log'
    BY <1>1 DEF ClientInv, ClientTyped
  <2> QED BY <2>1, <2>2 DEF ClientInv, ClientTyped
<1>3. LoopsTyped'
  <2>1. \A g \in Generations : LoopTyped(loop[g], log')
    BY <1>1, LoopTypedOn DEF ClientInv, LoopsTyped
  <2> QED BY <2>1 DEF ClientInv, LoopsTyped
<1>4. Handed' = Handed /\ Covered' = Covered
  BY DEF Handed, Covered, InHand
<1>5. HandedSound(Handed, stored, late)' /\ Pushing' /\ AllCovered'
  BY <1>4 DEF ClientInv, Pushing, At, AllCovered
<1>6. ActiveRolls'
  BY <1>4 DEF ClientInv, ActiveRolls
<1> QED BY <1>2, <1>3, <1>5, <1>6 DEF ClientInv

LEMMA StartKeeps == ClientInv /\ Start => ClientInv'
<1> SUFFICES ASSUME ClientInv, Start PROVE ClientInv'
  OBVIOUS
<1> DEFINE g == generation + 1
           l == [Gone EXCEPT !.at = "load"]
<1>1. /\ g \in Generations /\ generation \in Nat /\ g \in 0..MaxStarts
      /\ generation' = g /\ active' = g
  BY DesktopRealtimeAssumption DEF Start, ClientInv, ClientTyped, Generations
<1>2. UNCHANGED <<log, pruned, seen, stored, queue, delivered, faults, excused, late>>
  BY DEF Start
<1>3. loop[g] = Gone
  BY <1>1 DEF ClientInv, LoopsTyped
<1>4. loop' = [loop EXCEPT ![g].at = "load"]
  BY DEF Start, Goto
<1>5. l.at = "load" /\ l.event = 0
  BY DEF Gone
<1>6. \A h \in Generations : loop'[h] = IF h = g THEN l ELSE loop[h]
  <2>1. loop' = [loop EXCEPT ![g] = [loop[g] EXCEPT !.at = "load"]]
    BY <1>1, <1>4 DEF ClientInv, LoopsTyped
  <2>2. loop' = [loop EXCEPT ![g] = l]
    BY <1>3, <2>1
  <2> HIDE DEF l
  <2> QED BY <1>1, <2>2 DEF ClientInv, LoopsTyped
<1>7. LoopTyped(l, log)
  <2>1. log \in Nat
    BY DesktopRealtimeAssumption DEF ClientInv, ClientTyped
  <2>2. l = [at |-> "load", cursor |-> 0, sent |-> 0, event |-> 0]
    BY DEF Gone
  <2> HIDE DEF l
  <2> QED BY <2>1, <2>2 DEF LoopTyped, States
<1>8. DOMAIN loop' = Generations
  BY <1>4 DEF ClientInv, LoopsTyped
<1> HIDE DEF l, g
<1>9. ClientTyped'
  BY <1>1, <1>2 DEF ClientInv, ClientTyped
<1>10. LoopsTyped'
  <2>1. ASSUME NEW h \in Generations
        PROVE  LoopTyped(loop'[h], log) /\ (h > g => loop'[h] = Gone)
    <3>1. CASE h = g
      <4>1. loop'[h] = l /\ ~ (h > g)
        BY <1>1, <1>6, <3>1
      <4> QED BY <1>7, <4>1
    <3>2. CASE h # g
      <4>1. loop'[h] = loop[h]
        BY <1>6, <3>2
      <4>2. h > g => h > generation
        BY <1>1 DEF g, Generations
      <4> QED BY <4>1, <4>2 DEF ClientInv, LoopsTyped
    <3> QED BY <3>1, <3>2
  <2> QED BY <1>1, <1>2, <1>8, <2>1 DEF LoopsTyped
<1>11. Handed' = Handed /\ Covered \subseteq Covered'
  <2>1. Handed' = Handed
    BY <1>2 DEF Handed
  <2>2. ASSUME NEW x \in InHand PROVE x \in InHand'
    <3>1. PICK h \in Generations : loop[h].event # 0 /\ x = loop[h].event
      BY DEF InHand
    <3>2. h # g
      BY <1>3, <3>1 DEF Gone
    <3>3. loop'[h] = loop[h]
      BY <1>6, <3>2
    <3> QED BY <3>1, <3>3 DEF InHand
  <2> QED BY <1>2, <2>1, <2>2 DEF Covered
<1>12. HandedSound(Handed, stored, late)'
  BY <1>2, <1>11 DEF ClientInv
<1>13. Pushing'
  <2>1. \A h \in Generations : loop'[h].at = "push" => loop'[h] = loop[h]
    BY <1>5, <1>6
  <2> QED BY <1>2, <1>11, <2>1 DEF ClientInv, Pushing, At
<1>14. AllCovered'
  BY <1>2, <1>11 DEF ClientInv, AllCovered
<1>15. ActiveRolls'
  <2>1. loop'[g].at = "load"
    BY <1>1, <1>5, <1>6
  <2> QED BY <1>1, <2>1 DEF ActiveRolls, Rolling
<1> QED BY <1>9, <1>10, <1>12, <1>13, <1>14, <1>15 DEF ClientInv

\* The loop that runs stores an event above everything handed over.
LEMMA SaveCursorKeeps ==
    ASSUME ClientInv, NEW g \in Generations, SaveCursor(g) PROVE ClientInv'
<1> DEFINE e == loop[g].event
           l == [loop[g] EXCEPT !.at = "push"]
<1>1. /\ loop[g].at = "save" /\ loop[g] # Gone /\ log \in Nat /\ stored \in 0..log
      /\ LoopTyped(loop[g], log) /\ e \in 1..log /\ faults \in 0..MaxFaults
      /\ g = active /\ Rolling(loop[g], stored, Covered)
  BY LoopFacts DEF SaveCursor, At
<1>2. UNCHANGED <<log, pruned, generation, active, seen, queue, delivered, faults, excused,
                  late>>
  BY DEF SaveCursor
<1>3. e = loop[g].cursor /\ stored < e /\ 1..e \subseteq Covered
      /\ 1..loop[g].sent \subseteq Covered
  BY <1>1 DEF Rolling
<1>4. stored' = e
  BY <1>3 DEF SaveCursor, Saved
<1>5. loop' = [loop EXCEPT ![g] = l]
  BY DEF SaveCursor, Goto, ClientInv, LoopsTyped
<1>6. l.at = "push" /\ l.event = e /\ l.cursor = e /\ l.sent = loop[g].sent
  BY <1>1, <1>3 DEF LoopTyped
<1>7. LoopTyped(l, log)
  BY <1>1 DEF LoopTyped, States
<1>8. /\ \A h \in Generations : loop'[h] = IF h = g THEN l ELSE loop[h]
      /\ DOMAIN loop' = Generations
  BY <1>5 DEF ClientInv, LoopsTyped
<1> HIDE DEF l, e
<1>9. ClientTyped'
  BY <1>1, <1>2, <1>4 DEF ClientInv, ClientTyped
<1>10. LoopsTyped'
  <2>1. ASSUME NEW h \in Generations
        PROVE  LoopTyped(loop'[h], log) /\ (h > generation => loop'[h] = Gone)
    <3>1. CASE h = g
      <4>1. loop'[h] = l
        BY <1>8, <3>1
      <4>2. ~ (h > generation)
        BY <1>1, <3>1 DEF ClientInv, LoopsTyped
      <4> QED BY <1>7, <4>1, <4>2
    <3>2. CASE h # g
      <4>1. loop'[h] = loop[h]
        BY <1>8, <3>2
      <4> QED BY <4>1 DEF ClientInv, LoopsTyped
    <3> QED BY <3>1, <3>2
  <2> QED BY <1>2, <1>8, <2>1 DEF LoopsTyped
<1>11. Handed' = Handed /\ Covered' = Covered
  <2>1. \A h \in Generations : loop'[h].event = loop[h].event
    BY <1>6, <1>8 DEF e
  <2>2. InHand' = InHand
    BY <2>1 DEF InHand
  <2> QED BY <1>2, <2>2 DEF Covered, Handed
<1>12. HandedSound(Handed, stored, late)'
  <2>1. \A x \in 1..stored : x \in 1..e
    BY <1>1, <1>3
  <2> QED BY <1>2, <1>4, <1>11, <2>1 DEF ClientInv, HandedSound
<1>13. Pushing'
  <2>1. ASSUME NEW h \in Generations, loop'[h].at = "push", h # g
        PROVE  /\ loop[h].at = "push" /\ loop'[h].event = loop[h].event
               /\ loop[h].event < e /\ loop[h].event \notin ToSet(Handed)
    <3>1. loop'[h] = loop[h]
      BY <1>8, <2>1
    <3>2. loop[h].event <= stored /\ loop[h].event \notin ToSet(Handed)
      BY <2>1, <3>1 DEF ClientInv, Pushing, At
    <3>3. loop[h].event \in 0..log
      BY LoopFacts
    <3> QED BY <1>1, <1>3, <2>1, <3>1, <3>2, <3>3
  <2>2. loop'[g].event = e /\ e \notin ToSet(Handed)
    <3>1. \A x \in ToSet(Handed) : x \in 1..stored
      BY DEF ClientInv, HandedSound
    <3>2. e \notin 1..stored
      BY <1>1, <1>3
    <3> QED BY <1>6, <1>8, <3>1, <3>2
  <2>3. ASSUME NEW h \in Generations, loop'[h].at = "push"
        PROVE  loop'[h].event <= e /\ loop'[h].event \notin ToSet(Handed)
    <3>1. e \in Nat /\ (h # g => loop[h].event \in Nat)
      BY <1>1, LoopFacts
    <3>2. CASE h = g
      BY <2>2, <3>1, <3>2
    <3>3. CASE h # g
      BY <2>1, <2>3, <3>1, <3>3
    <3> QED BY <3>2, <3>3
  <2>4. ASSUME NEW h \in Generations, NEW k \in Generations,
               loop'[h].at = "push", loop'[k].at = "push", loop'[h].event = loop'[k].event
        PROVE  h = k
    <3>1. CASE h = g /\ k = g
      BY <3>1
    <3>2. CASE h = g /\ k # g
      BY <2>1, <2>2, <2>4, <3>2, <1>1
    <3>3. CASE h # g /\ k = g
      BY <2>1, <2>2, <2>4, <3>3, <1>1
    <3>4. CASE h # g /\ k # g
      BY <2>1, <2>4, <3>4 DEF ClientInv, Pushing, At
    <3> QED BY <3>1, <3>2, <3>3, <3>4
  <2> QED BY <1>4, <1>11, <2>3, <2>4 DEF Pushing, At
<1>14. AllCovered'
  BY <1>2, <1>3, <1>4, <1>11 DEF ClientInv, AllCovered
<1>15. ActiveRolls'
  <2>1. loop'[g] = l
    BY <1>8
  <2>2. Rolling(l, e, Covered)
    BY <1>1, <1>3, <1>6 DEF Rolling
  <2>3. active' = g
    BY <1>1, <1>2
  <2> QED BY <1>4, <1>11, <2>1, <2>2, <2>3 DEF ActiveRolls
<1> QED BY <1>9, <1>10, <1>12, <1>13, <1>14, <1>15 DEF ClientInv

\* A line in order takes what is above it, or what is known to be late.
LEMMA HandedTakes ==
    ASSUME NEW line, NEW s \in Nat, NEW L, HandedSound(line, s, L),
           NEW e \in 1..s, e \notin ToSet(line), NEW M, L \subseteq M, e = s \/ e \in M
    PROVE  /\ HandedSound(Append(line, e), s, M)
           /\ ToSet(Append(line, e)) = ToSet(line) \cup {e}
<1> DEFINE n == Len(line)
           new == Append(line, e)
<1>1. LineOver(Nat, new) /\ ToSet(new) = ToSet(line) \cup {e}
  BY JoinLine DEF HandedSound
<1>2. /\ line \in Seq(Nat) /\ DOMAIN line = 1..n /\ n \in Nat
      /\ \A x : x \in ToSet(line) <=> \E i \in 1..n : line[i] = x
  BY LinePlaces DEF HandedSound, LineOver
<1>3. /\ new \in Seq(Nat) /\ DOMAIN new = 1..(n + 1) /\ new[n + 1] = e
      /\ \A i \in 1..n : new[i] = line[i]
  BY <1>2, AppendProperties, LenProperties
<1> HIDE DEF n, new
<1>4. InOrder(new, M)
  <2> SUFFICES ASSUME NEW i \in 1..(n + 1), NEW j \in 1..(n + 1), i < j
               PROVE  new[i] < new[j] \/ new[j] \in M
    BY <1>3 DEF InOrder
  <2>1. i \in 1..n
    BY <1>2
  <2>2. CASE j \in 1..n
    BY <1>2, <1>3, <2>1, <2>2 DEF HandedSound, InOrder
  <2>3. CASE j = n + 1
    <3>1. new[j] = e /\ new[i] \in ToSet(line)
      BY <1>2, <1>3, <2>1, <2>3
    <3>2. new[i] \in 1..s /\ new[i] # e
      BY <3>1 DEF HandedSound
    <3> QED BY <3>1, <3>2
  <2> QED BY <1>2, <2>2, <2>3
<1>5. \A x \in ToSet(new) : x \in 1..s
  BY <1>1 DEF HandedSound
<1> QED BY <1>1, <1>4, <1>5 DEF HandedSound, new

LEMMA PushKeeps ==
    ASSUME ClientInv, NEW g \in Generations, Push(g) PROVE ClientInv'
<1> DEFINE e == loop[g].event
           l == [loop[g] EXCEPT !.at = "read", !.event = 0]
<1>1. /\ loop[g].at = "push" /\ log \in Nat /\ stored \in 0..log
      /\ LoopTyped(loop[g], log) /\ e \in 1..log
      /\ g = active => Rolling(loop[g], stored, Covered)
  BY LoopFacts DEF Push, At
<1>2. /\ UNCHANGED <<log, pruned, generation, active, seen, stored, delivered, faults, excused>>
      /\ queue' = Append(queue, e) /\ Len(queue) < QueueSize
  BY DEF Push
<1>3. e <= stored /\ e \notin ToSet(Handed) /\ (g = active => e = stored)
  BY <1>1 DEF ClientInv, Pushing, At, Rolling
<1>4. loop' = [loop EXCEPT ![g] = l]
  BY DEF Push, ClientInv, LoopsTyped
<1>5. l.at = "read" /\ l.event = 0 /\ l.cursor = loop[g].cursor /\ l.sent = loop[g].sent
  <2>1. loop[g] \in [at : States, cursor : 0..log, sent : 0..log, event : 0..log]
    BY <1>1 DEF LoopTyped
  <2> QED BY <2>1
<1>6. LoopTyped(l, log)
  <2>1. l \in [at : States, cursor : 0..log, sent : 0..log, event : 0..log]
    <3>1. loop[g] \in [at : States, cursor : 0..log, sent : 0..log, event : 0..log]
      BY <1>1 DEF LoopTyped
    <3>2. "read" \in States /\ 0 \in 0..log
      BY <1>1 DEF States
    <3> QED BY <3>1, <3>2
  <2> HIDE DEF l
  <2> QED BY <1>5, <2>1 DEF LoopTyped
<1>7. /\ \A h \in Generations : loop'[h] = IF h = g THEN l ELSE loop[h]
      /\ DOMAIN loop' = Generations
  BY <1>4 DEF ClientInv, LoopsTyped
<1>8. late \subseteq late' /\ (e = stored \/ e \in late')
  BY <1>3 DEF Push
<1> HIDE DEF l, e
<1>9. /\ Handed' = Append(Handed, e) /\ queue' \in Seq(Nat) /\ Len(queue') <= QueueSize
      /\ queue \in Seq(Nat) /\ delivered \in Seq(Nat) /\ e \in Nat
  <2>1. queue \in Seq(Nat) /\ delivered \in Seq(Nat) /\ e \in Nat
    BY <1>1 DEF ClientInv, ClientTyped
  <2>2. delivered \o Append(queue, e) = Append(delivered \o queue, e)
    BY <2>1, HandedGrows
  <2>3. queue' \in Seq(Nat) /\ Len(queue') = Len(queue) + 1 /\ Len(queue) \in Nat
    BY <1>2, <2>1, AppendProperties, LenProperties
  <2> QED BY <1>2, <2>1, <2>2, <2>3, DesktopRealtimeAssumption DEF Handed
<1>10. /\ HandedSound(Handed', stored, late')
       /\ ToSet(Handed') = ToSet(Handed) \cup {e}
  <2>1. stored \in Nat /\ e \in 1..stored
    BY <1>1, <1>3
  <2>2. HandedSound(Handed, stored, late)
    BY DEF ClientInv
  <2>3. /\ HandedSound(Append(Handed, e), stored, late')
        /\ ToSet(Append(Handed, e)) = ToSet(Handed) \cup {e}
    BY <1>3, <1>8, <2>1, <2>2, HandedTakes
  <2> QED BY <1>9, <2>3
<1>11. ClientTyped'
  BY <1>2, <1>9 DEF ClientInv, ClientTyped
<1>12. LoopsTyped'
  <2>1. ASSUME NEW h \in Generations
        PROVE  LoopTyped(loop'[h], log) /\ (h > generation => loop'[h] = Gone)
    <3>1. CASE h = g
      <4>1. loop'[h] = l
        BY <1>7, <3>1
      <4>2. ~ (h > generation)
        <5>1. loop[g] # Gone
          BY <1>1 DEF Gone
        <5> QED BY <3>1, <5>1 DEF ClientInv, LoopsTyped
      <4> QED BY <1>6, <4>1, <4>2
    <3>2. CASE h # g
      <4>1. loop'[h] = loop[h]
        BY <1>7, <3>2
      <4> QED BY <4>1 DEF ClientInv, LoopsTyped
    <3> QED BY <3>1, <3>2
  <2> QED BY <1>2, <1>7, <2>1 DEF LoopsTyped
<1>13. Covered \subseteq Covered'
  <2>1. ASSUME NEW x \in InHand PROVE x \in Covered'
    <3>1. PICK h \in Generations : loop[h].event # 0 /\ x = loop[h].event
      BY DEF InHand
    <3>2. CASE h = g
      BY <1>10, <3>1, <3>2 DEF Covered, e
    <3>3. CASE h # g
      <4>1. loop'[h] = loop[h]
        BY <1>7, <3>3
      <4> QED BY <3>1, <4>1 DEF Covered, InHand
    <3> QED BY <3>2, <3>3
  <2> QED BY <1>2, <1>10, <2>1 DEF Covered
<1>14. HandedSound(Handed, stored, late)'
  BY <1>2, <1>10
<1>15. Pushing'
  <2>1. ASSUME NEW h \in Generations, loop'[h].at = "push"
        PROVE  /\ loop[h].at = "push" /\ loop'[h].event = loop[h].event
               /\ loop[h].event <= stored /\ loop[h].event \notin ToSet(Handed')
    <3>1. h # g
      BY <1>5, <1>7, <2>1
    <3>2. loop'[h] = loop[h]
      BY <1>7, <3>1
    <3>3. loop[h].event # e
      BY <1>1, <2>1, <3>1, <3>2 DEF ClientInv, Pushing, At, e
    <3> QED BY <1>10, <2>1, <3>2, <3>3 DEF ClientInv, Pushing, At
  <2> QED BY <1>2, <2>1 DEF ClientInv, Pushing, At
<1>16. AllCovered'
  BY <1>2, <1>13 DEF ClientInv, AllCovered
<1>17. ActiveRolls'
  <2> SUFFICES ASSUME active # 0 PROVE Rolling(loop'[active], stored, Covered')
    BY <1>2 DEF ActiveRolls
  <2>1. active \in Generations
    BY DesktopRealtimeAssumption DEF ClientInv, ClientTyped, Generations
  <2>2. CASE active = g
    <3>1. loop'[active] = l
      BY <1>7, <2>1, <2>2
    <3>2. Rolling(l, stored, Covered)
      BY <1>1, <1>5, <2>2 DEF Rolling
    <3> QED BY <1>13, <3>1, <3>2, RollsOn
  <2>3. CASE active # g
    <3>1. loop'[active] = loop[active] /\ Rolling(loop[active], stored, Covered)
      BY <1>7, <2>1, <2>3 DEF ClientInv, ActiveRolls
    <3> QED BY <1>13, <3>1, RollsOn
  <2> QED BY <2>2, <2>3
<1> QED BY <1>11, <1>12, <1>14, <1>15, <1>16, <1>17 DEF ClientInv

LEMMA TakeKeeps == ClientInv /\ Take => ClientInv'
<1> SUFFICES ASSUME ClientInv, Take PROVE ClientInv'
  OBVIOUS
<1>1. UNCHANGED <<log, pruned, loop, generation, active, seen, stored, faults, excused, late>>
  BY DEF Take
<1>2. delivered \in Seq(Nat) /\ queue \in Seq(Nat) /\ queue # << >> /\ Len(queue) <= QueueSize
      /\ Len(queue) \in Nat /\ QueueSize \in Nat
  BY LenProperties, DesktopRealtimeAssumption DEF Take, ClientInv, ClientTyped
<1>3. /\ delivered' \o queue' = delivered \o queue
      /\ delivered' \in Seq(Nat) /\ queue' \in Seq(Nat) /\ Len(queue') <= Len(queue)
  BY <1>2, HandedStays DEF Take
<1>4. Handed' = Handed
  BY <1>3 DEF Handed
<1>5. Len(queue') <= QueueSize
  <2>1. Len(queue') \in Nat
    BY <1>3, LenProperties
  <2> QED BY <1>2, <1>3, <2>1
<1>6. ClientTyped'
  BY <1>1, <1>3, <1>5 DEF ClientInv, ClientTyped
<1>7. Covered' = Covered
  BY <1>1, <1>4 DEF Covered, InHand
<1>8. LoopsTyped' /\ HandedSound(Handed, stored, late)'
  BY <1>1, <1>4 DEF ClientInv, LoopsTyped
<1>9. Pushing' /\ AllCovered' /\ ActiveRolls'
  BY <1>1, <1>4, <1>7 DEF ClientInv, Pushing, At, AllCovered, ActiveRolls
<1> QED BY <1>6, <1>8, <1>9 DEF ClientInv

LEMMA CrashKeeps == ClientInv /\ Crash => ClientInv'
<1> SUFFICES ASSUME ClientInv, Crash PROVE ClientInv'
  OBVIOUS
<1>1. /\ UNCHANGED <<log, pruned, generation, stored, delivered, late>>
      /\ excused' = excused \cup ToSet(queue) \cup InHand
      /\ loop' = [g \in Generations |-> Gone]
      /\ active' = 0 /\ seen' = {} /\ queue' = << >> /\ Fault
  BY DEF Crash
<1>2. << >> \in Seq(Nat) /\ Len(<< >>) = 0
  OBVIOUS
<1>3. delivered \in Seq(Nat) /\ queue \in Seq(Nat)
  BY DEF ClientInv, ClientTyped
<1>4. Handed' = delivered
  <2>1. delivered \o << >> = delivered
    BY <1>3, ConcatEmptySeq
  <2> QED BY <1>1, <2>1 DEF Handed
<1>5. /\ HandedSound(delivered, stored, late)
      /\ \A x \in ToSet(Handed) : x \in ToSet(delivered) \/ x \in ToSet(queue)
  BY <1>3, TakenIsSound DEF ClientInv, Handed
<1>6. log \in Nat /\ stored \in 0..log /\ faults' \in 0..MaxFaults
  BY <1>1, DesktopRealtimeAssumption DEF ClientInv, ClientTyped, Fault
<1>7. excused' \subseteq 1..log
  <2>1. InHand \subseteq 1..log
    <3>1. ASSUME NEW x \in InHand PROVE x \in 1..log
      <4>1. PICK h \in Generations : loop[h].event # 0 /\ x = loop[h].event
        BY DEF InHand
      <4>2. loop[h].event \in 0..log
        BY LoopFacts
      <4> QED BY <1>6, <4>1, <4>2
    <3> QED BY <3>1
  <2>2. ToSet(queue) \subseteq 1..log
    <3>1. ASSUME NEW x \in ToSet(queue) PROVE x \in ToSet(Handed)
      <4>1. /\ Handed \in Seq(Nat) /\ Len(Handed) = Len(delivered) + Len(queue)
            /\ Len(delivered) \in Nat /\ Len(queue) \in Nat
            /\ \A i \in 1..(Len(delivered) + Len(queue)) :
                 Handed[i] = IF i <= Len(delivered) THEN delivered[i]
                             ELSE queue[i - Len(delivered)]
        BY <1>3, ConcatProperties, LenProperties DEF Handed
      <4>2. PICK i \in 1..Len(queue) : queue[i] = x
        BY <1>3, LinePlaces
      <4> DEFINE j == Len(delivered) + i
      <4>3. j \in 1..(Len(delivered) + Len(queue)) /\ ~ (j <= Len(delivered))
            /\ j - Len(delivered) = i
        BY <4>1
      <4> HIDE DEF j
      <4>4. Handed[j] = x
        BY <4>1, <4>2, <4>3
      <4> QED BY <4>1, <4>3, <4>4, LinePlaces
    <3>2. \A x \in ToSet(Handed) : x \in 1..log
      BY <1>6 DEF ClientInv, HandedSound
    <3> QED BY <3>1, <3>2
  <2> QED BY <1>1, <2>1, <2>2 DEF ClientInv, ClientTyped
<1>8. Covered \subseteq Covered'
  BY <1>1, <1>4, <1>5 DEF Covered
<1>9. ClientTyped'
  BY <1>1, <1>2, <1>3, <1>6, <1>7, DesktopRealtimeAssumption DEF ClientInv, ClientTyped
<1>10. \A g \in Generations : loop'[g] = Gone
  BY <1>1
<1>11. LoopsTyped'
  <2>1. LoopTyped(Gone, log)
    BY <1>6 DEF LoopTyped, States, Gone
  <2> QED BY <1>1, <1>10, <2>1 DEF LoopsTyped
<1>12. Pushing'
  BY <1>10 DEF Pushing, At, Gone
<1>13. AllCovered' /\ ActiveRolls'
  BY <1>1, <1>8 DEF ClientInv, AllCovered, ActiveRolls
<1> QED BY <1>1, <1>4, <1>5, <1>9, <1>11, <1>12, <1>13 DEF ClientInv

LEMMA StepClient == ClientInv /\ [ClientNext]_clientVars => ClientInv'
<1> SUFFICES ASSUME ClientInv, [ClientNext]_clientVars PROVE ClientInv'
  OBVIOUS
<1>0. /\ log \in 0..MaxEvents /\ pruned \in 0..log /\ faults \in 0..MaxFaults
      /\ MaxEvents \in Nat /\ MaxFaults \in Nat
  BY DesktopRealtimeAssumption DEF ClientInv, ClientTyped
<1>1. CASE UNCHANGED clientVars
  BY <1>0, <1>1, NoLoopMoves DEF clientVars
<1>2. CASE PublishEvent
  <2>1. log' = log + 1 /\ log' \in 0..MaxEvents /\ pruned' \in 0..log'
    BY <1>0, <1>2 DEF PublishEvent
  <2> QED BY <1>0, <1>2, <2>1, NoLoopMoves DEF PublishEvent
<1>3. CASE Prune
  <2>1. log' = log /\ pruned' \in 0..log' /\ faults' \in 0..MaxFaults
    BY <1>0, <1>3 DEF Prune, Fault
  <2> QED BY <1>0, <1>3, <2>1, NoLoopMoves DEF Prune
<1>4. CASE Start
  BY <1>4, StartKeeps
<1>5. CASE Stop
  BY <1>0, <1>5, NoLoopMoves DEF Stop
<1>6. CASE Take
  BY <1>6, TakeKeeps
<1>7. CASE Crash
  BY <1>7, CrashKeeps
<1>8. ASSUME NEW g \in Generations, Run(g) PROVE ClientInv'
  BY <1>8, LoadCursorKeeps, ConnectKeeps, ReceiveKeeps, DisconnectKeeps, SaveCursorKeeps,
     SaveFailsKeeps, PushKeeps, PushCancelledKeeps, WaitKeeps DEF Run
<1> QED BY <1>1, <1>2, <1>3, <1>4, <1>5, <1>6, <1>7, <1>8 DEF ClientNext

\* Events of the server reach the UI once and in the order of their cursors,
\* and none up to the stored cursor is missed but those the client is known to
\* drop, whatever is sent again or overtakes, however many loops are started
\* and stopped, and however often the application ends in the middle.
THEOREM EventsReachTheUI == ClientSpec => []ClientInvariant
<1>1. ClientInit => ClientInv
  BY InitClient
<1>2. ClientInv /\ [ClientNext]_clientVars => ClientInv'
  BY StepClient
<1>3. ClientInv => ClientInvariant
  BY ClientInvIsEnough
<1> QED BY <1>1, <1>2, <1>3, PTL DEF ClientSpec

-----------------------------------------------------------------------------
(* Credentials                                                             *)

Dev == [kind : {"login", "paired"}, live : BOOLEAN, latest : Nat, ended : BOOLEAN,
        replayed : BOOLEAN, lost : BOOLEAN]

\* Credentials are of a device the server has, and no newer than it knows.
Held(c, D) ==
    \/ c = NoCredentials
    \/ /\ c = [device |-> c.device, generation |-> c.generation]
       /\ c.device \in DOMAIN D /\ c.generation \in Nat
       /\ c.generation <= D[c.device].latest

\* The refresh token is the latest, unless the latest was lost.
Newest(c, D) == c # NoCredentials => D[c.device].lost \/ c.generation = D[c.device].latest

\* What becomes of devices: there are more, and no device comes back.
Grows(D, E) ==
    /\ DOMAIN D \subseteq DOMAIN E
    /\ \A d \in DOMAIN D : /\ D[d].latest <= E[d].latest
                           /\ D[d].lost => E[d].lost
                           /\ E[d].live => D[d].live

\* A request that holds refreshMu.
Renews(q) == q.pc \in {"refresh", "save", "keep"}

RequestShaped(q) ==
    /\ q.pc \in {"rest", "sent", "wait", "refresh", "save", "keep", "resend"}
    /\ Renews(q) => /\ q = [pc |-> q.pc, token |-> q.token, then |-> q.then]
                    /\ q.then \in {"rest", "resend"}

DevicesSound ==
    /\ devs \in Seq(Dev) /\ Len(devs) <= MaxDevices
    /\ \A d \in DeviceIds : devs[d].replayed => devs[d].lost

CredentialsTyped ==
    /\ Held(memory, devs) /\ Held(vault, devs)
    /\ token = [memory |-> token.memory, vault |-> token.vault]
    /\ pairing = [memory |-> pairing.memory, stored |-> pairing.stored]
    /\ {token.memory, token.vault, pairing.memory, pairing.stored} \subseteq {0} \cup DeviceIds

\* The mutex is of the request that renews.
OneRenewal ==
    /\ clientReq = [r \in ClientRequests |-> clientReq[r]]
    /\ refreshMu \in ClientRequests \cup {Nobody}
    /\ \A r \in ClientRequests :
          RequestShaped(clientReq[r]) /\ (Renews(clientReq[r]) <=> refreshMu = r)

\* The renewal that has got as far as one of places is of c's device.
Renewing(c, places) ==
    /\ refreshMu \in ClientRequests
    /\ clientReq[refreshMu].pc \in places /\ clientReq[refreshMu].token.device = c.device

\* What is in memory or in the vault is behind only while its renewal is under
\* way; the renewal's own token is not.
NothingBehind ==
    /\ Newest(memory, devs) \/ Renewing(memory, {"save", "keep"})
    /\ Newest(vault, devs) \/ Renewing(vault, {"save"})
    /\ \A r \in ClientRequests : Renews(clientReq[r]) =>
          /\ clientReq[r].token # NoCredentials
          /\ Held(clientReq[r].token, devs) /\ Newest(clientReq[r].token, devs)

\* A sign-in that is saving is of a device that nobody has renewed.
SignInSound ==
    /\ login.pc \in {"rest", "pending", "save", "keep"}
    /\ login.pc = "pending" => login = [pc |-> "pending", spent |-> login.spent]
    /\ login.pc \in {"save", "keep"} =>
          /\ login = [pc |-> login.pc, device |-> login.device]
          /\ login.device \in DeviceIds /\ devs[login.device].latest = 1
          /\ memory.device # login.device
          /\ \A r \in ClientRequests :
                Renews(clientReq[r]) => clientReq[r].token.device # login.device

PairingSound ==
    /\ confirm.pc \in {"rest", "token", "pairing"}
    /\ confirm.pc \in {"token", "pairing"} =>
          /\ confirm = [pc |-> confirm.pc, device |-> confirm.device]
          /\ confirm.device \in DeviceIds

Dead(ds) == ds \subseteq DeviceIds /\ \A d \in ds : ~devs[d].live

SignOutSound ==
    /\ signOut.pc \in {"rest", "revoke", "wipe", "delete", "forget"}
    /\ signOut.pc = "revoke" => Held(signOut.with, devs) /\ signOut.device \in DeviceIds
    /\ signOut.pc \in {"wipe", "delete", "forget"} =>
          signOut = [pc |-> signOut.pc, known |-> signOut.known] /\ Dead(signOut.known)

Counted == refused \in BOOLEAN /\ expiries \in 0..MaxExpiries /\ others \in 0..MaxOthers

\* The device of the credentials m, while at most one access token has ended.
CalmDevice(m, x, mu, n) ==
    /\ x.live /\ x.latest \in {1, 2}
    /\ n = 0 => x.latest = 1 /\ ~x.ended
    /\ x.latest = 2 => ~x.ended
    /\ m.generation \in 1..x.latest
    /\ mu = Nobody => m.generation = x.latest

CalmRequest(q, m, x) ==
    /\ q.pc = "sent" => /\ q.with = [device |-> m.device, generation |-> q.with.generation]
                        /\ q.with.generation \in 1..x.latest
                        /\ q.again \in BOOLEAN
                        /\ q.again => q.with.generation = 2
    /\ q.pc = "wait" => q.with = First(m.device) /\ (x.latest = 2 \/ x.ended)
    /\ q.pc = "refresh" => /\ q.token = m /\ m.generation = 1 /\ x.latest = 1 /\ x.ended
                           /\ q.then = "resend"
    /\ q.pc \in {"save", "keep"} => /\ q.token = [device |-> m.device, generation |-> 2]
                                    /\ x.latest = 2 /\ q.then = "resend"
    /\ q.pc = "resend" => m.generation = 2

\* When nothing was disturbed and at most one access token has ended.
Calm ==
    /\ ~refused /\ login = AtRest /\ confirm = AtRest /\ signOut = AtRest
    /\ memory = NoCredentials => \A r \in ClientRequests : clientReq[r].pc = "rest"
    /\ memory # NoCredentials =>
          /\ CalmDevice(memory, devs[memory.device], refreshMu, expiries)
          /\ \A r \in ClientRequests : CalmRequest(clientReq[r], memory, devs[memory.device])

CalmUnlessDisturbed == others = 0 /\ expiries <= 1 => Calm

CredInv ==
    /\ DevicesSound /\ CredentialsTyped /\ OneRenewal /\ NothingBehind /\ SignInSound
    /\ PairingSound /\ SignOutSound /\ Dead(cleared) /\ Counted /\ CalmUnlessDisturbed

\* The invariant says what the run checks.
LEMMA CredInvIsEnough == CredInv => CredentialsAreSound
<1> SUFFICES ASSUME CredInv PROVE CredentialsAreSound
  OBVIOUS
<1>1. SessionTypeOK
  <2>1. \A d \in DeviceIds : devs[d] \in Dev
    BY DEF CredInv, DevicesSound, DeviceIds
  <2>2. \A d \in DeviceIds : devs[d].kind \in {"login", "paired"} /\ devs[d].latest \in Nat
    BY <2>1 DEF Dev
  <2>3. \A c \in {memory, vault} :
           c = NoCredentials \/ (c.device \in DeviceIds /\ c.generation <= devs[c.device].latest)
    BY DEF CredInv, CredentialsTyped, Held, DeviceIds
  <2>4. DOMAIN clientReq = ClientRequests /\ refreshMu \in ClientRequests \cup {Nobody}
    BY DEF CredInv, OneRenewal
  <2> QED
    BY <2>2, <2>3, <2>4
    DEF CredInv, DevicesSound, CredentialsTyped, Dead, Counted, SessionTypeOK
<1>2. refused => expiries >= 2 \/ others >= 1
  <2>1. expiries \in Nat /\ others \in Nat
    BY SessionConstants DEF CredInv, Counted
  <2>2. CASE others = 0 /\ expiries <= 1
    BY <2>2 DEF CredInv, CalmUnlessDisturbed, Calm
  <2>3. CASE ~(others = 0 /\ expiries <= 1)
    BY <2>1, <2>3
  <2> QED BY <2>2, <2>3
<1> QED
  BY <1>1, <1>2 DEF CredInv, DevicesSound, Dead, CredentialsAreSound

\* A disturbance leaves nothing to say of the calm.
LEMMA DisturbedIsCounted ==
    ASSUME CredInv, Disturb
    PROVE  others' \in 1..MaxOthers /\ others' # 0 /\ CalmUnlessDisturbed'
BY SessionConstants DEF CredInv, Counted, Disturb, CalmUnlessDisturbed

LEMMA NoDeviceZero == ASSUME DevicesSound PROVE 0 \notin DeviceIds /\ Len(devs) \in Nat /\ DeviceIds = 1..Len(devs)
BY DEF DevicesSound, DeviceIds

LEMMA HeldStays ==
    ASSUME NEW c, NEW D, NEW E, Held(c, D), Grows(D, E),
           \A d \in DOMAIN D : D[d].latest \in Nat, \A d \in DOMAIN E : E[d].latest \in Nat
    PROVE  Held(c, E)
<1>1. CASE c = NoCredentials
  BY <1>1 DEF Held
<1>2. CASE c # NoCredentials
  <2>1. /\ c.device \in DOMAIN D /\ c.device \in DOMAIN E
        /\ c.generation \in Nat /\ c.generation <= D[c.device].latest
        /\ D[c.device].latest <= E[c.device].latest
        /\ c = [device |-> c.device, generation |-> c.generation]
    BY <1>2 DEF Held, Grows
  <2>2. c.generation <= E[c.device].latest
    BY <2>1
  <2> QED BY <2>1, <2>2 DEF Held
<1> QED BY <1>1, <1>2

LEMMA NewestStays ==
    ASSUME NEW c, NEW D, NEW E, Held(c, D), Newest(c, D), Grows(D, E),
           c # NoCredentials => E[c.device].latest = D[c.device].latest
    PROVE  Newest(c, E)
BY DEF Held, Newest, Grows

\* What changing one request, and with it the mutex, keeps.
LEMMA RequestMoves ==
    ASSUME OneRenewal, NEW r \in ClientRequests, NEW q, ReqDo(r, q)
    PROVE  /\ clientReq' = [s \in ClientRequests |-> clientReq'[s]]
           /\ clientReq'[r] = q
           /\ \A s \in ClientRequests \ {r} : clientReq'[s] = clientReq[s]
BY DEF OneRenewal, ReqDo

LEMMA RenewalMoves ==
    ASSUME OneRenewal, NEW r \in ClientRequests, NEW q, ReqDo(r, q), RequestShaped(q),
           \/ Renews(q) /\ refreshMu' = r /\ refreshMu \in {r, Nobody}
           \/ ~Renews(q) /\ refreshMu = r /\ refreshMu' = Nobody
           \/ ~Renews(q) /\ refreshMu # r /\ refreshMu' = refreshMu
    PROVE  OneRenewal'
<1>1. /\ clientReq' = [s \in ClientRequests |-> clientReq'[s]]
      /\ clientReq'[r] = q
      /\ \A s \in ClientRequests \ {r} : clientReq'[s] = clientReq[s]
  BY RequestMoves
<1>2. refreshMu' \in ClientRequests \cup {Nobody}
  BY DEF OneRenewal
<1>3. ASSUME NEW s \in ClientRequests
      PROVE  RequestShaped(clientReq'[s]) /\ (Renews(clientReq'[s]) <=> refreshMu' = s)
  <2>1. CASE s = r
    BY <1>1, <2>1, SessionConstants DEF Nobody
  <2>2. CASE s # r
    <3>1. clientReq'[s] = clientReq[s] /\ s # Nobody
      BY <1>1, <2>2, SessionConstants DEF Nobody
    <3>2. refreshMu' = s <=> refreshMu = s
      BY <2>2, <3>1
    <3> QED BY <3>1, <3>2 DEF OneRenewal
  <2> QED BY <2>1, <2>2
<1> QED BY <1>1, <1>2, <1>3 DEF OneRenewal

\* When only a request that did not renew, and does not now, has moved.
LEMMA OthersRenew ==
    ASSUME CredInv, NEW r \in ClientRequests, NEW q, ReqDo(r, q), RequestShaped(q), ~Renews(q),
           ~Renews(clientReq[r]), UNCHANGED <<devs, memory, vault, refreshMu, login>>
    PROVE  OneRenewal' /\ NothingBehind' /\ SignInSound'
<1>1. /\ clientReq' = [s \in ClientRequests |-> clientReq'[s]]
      /\ clientReq'[r] = q
      /\ \A s \in ClientRequests \ {r} : clientReq'[s] = clientReq[s]
  BY RequestMoves DEF CredInv
<1>2. refreshMu # r
  BY DEF CredInv, OneRenewal
<1>3. OneRenewal'
  BY <1>2, RenewalMoves DEF CredInv
<1>4. \A s \in ClientRequests : Renews(clientReq'[s]) => Renews(clientReq[s]) /\ clientReq'[s] = clientReq[s]
  BY <1>1
<1>5. NothingBehind'
  <2>1. \A c, ps : Renewing(c, ps) => refreshMu \in ClientRequests \ {r}
    BY <1>2 DEF Renewing
  <2>2. Newest(memory', devs') \/ Renewing(memory, {"save", "keep"})'
    BY <1>1, <2>1 DEF CredInv, NothingBehind, Renewing
  <2>3. Newest(vault', devs') \/ Renewing(vault, {"save"})'
    BY <1>1, <2>1 DEF CredInv, NothingBehind, Renewing
  <2>4. \A s \in ClientRequests : Renews(clientReq'[s]) =>
          /\ clientReq'[s].token # NoCredentials
          /\ Held(clientReq'[s].token, devs') /\ Newest(clientReq'[s].token, devs')
    BY <1>4 DEF CredInv, NothingBehind
  <2> QED BY <2>2, <2>3, <2>4 DEF NothingBehind
<1>6. SignInSound'
  BY <1>4 DEF CredInv, SignInSound, DeviceIds
<1> QED BY <1>3, <1>5, <1>6

\* The requests that move without touching what others hold.
LEMMA QuietRequest ==
    ASSUME CredInv, NEW r \in ClientRequests, NEW q, ReqDo(r, q), RequestShaped(q), ~Renews(q),
           ~Renews(clientReq[r]),
           UNCHANGED <<devs, memory, vault, token, pairing, refreshMu, login, confirm, signOut,
                       cleared, expiries>>,
           others' \in 0..MaxOthers, refused' \in BOOLEAN, CalmUnlessDisturbed'
    PROVE  CredInv'
<1>1. OneRenewal' /\ NothingBehind' /\ SignInSound'
  BY OthersRenew
<1>2. DevicesSound' /\ CredentialsTyped'
  BY DEF CredInv, DevicesSound, CredentialsTyped, DeviceIds
<1>3. PairingSound' /\ SignOutSound' /\ Dead(cleared)'
  BY DEF CredInv, PairingSound, SignOutSound, Dead, DeviceIds
<1>4. Counted'
  BY DEF CredInv, Counted
<1> QED BY <1>1, <1>2, <1>3, <1>4 DEF CredInv

\* The calm goes on when one request moves to where it may be.
LEMMA CalmGoesOn ==
    ASSUME CredInv, NEW r \in ClientRequests, NEW q, ReqDo(r, q), memory # NoCredentials,
           UNCHANGED <<memory, login, confirm, signOut, refused, others>>,
           expiries' = expiries,
           Calm => /\ CalmDevice(memory, devs'[memory.device], refreshMu', expiries)
                   /\ CalmRequest(q, memory, devs'[memory.device])
                   /\ \A s \in ClientRequests \ {r} :
                         CalmRequest(clientReq[s], memory, devs'[memory.device])
    PROVE  CalmUnlessDisturbed'
<1> SUFFICES ASSUME others = 0, expiries <= 1 PROVE Calm'
  BY DEF CalmUnlessDisturbed
<1>1. Calm
  BY DEF CredInv, CalmUnlessDisturbed
<1>2. /\ clientReq'[r] = q
      /\ \A s \in ClientRequests \ {r} : clientReq'[s] = clientReq[s]
  BY RequestMoves DEF CredInv
<1>3. \A s \in ClientRequests : CalmRequest(clientReq'[s], memory, devs'[memory.device])
  BY <1>1, <1>2
<1>4. CalmDevice(memory', devs'[memory'.device], refreshMu', expiries')
  BY <1>1
<1>5. \A s \in ClientRequests : CalmRequest(clientReq'[s], memory', devs'[memory'.device])
  BY <1>3
<1> QED BY <1>1, <1>4, <1>5 DEF Calm

LEMMA SendKeeps == ASSUME CredInv, NEW r \in ClientRequests, Send(r) PROVE CredInv'
<1> DEFINE q == [pc |-> "sent", with |-> memory, again |-> FALSE]
<1>1. /\ ReqAt(r, "rest") /\ memory # NoCredentials /\ ReqDo(r, q)
      /\ UNCHANGED <<devs, memory, vault, token, pairing, refreshMu, login, confirm, signOut,
                     cleared, refused, expiries, others>>
  BY DEF Send
<1>2. RequestShaped(q) /\ ~Renews(q) /\ ~Renews(clientReq[r])
  BY <1>1 DEF RequestShaped, Renews, ReqAt
<1>3. q.pc = "sent" /\ q.with = memory /\ q.again = FALSE
  OBVIOUS
<1> HIDE DEF q
<1>4. memory = [device |-> memory.device, generation |-> memory.generation]
  BY <1>1 DEF CredInv, CredentialsTyped, Held
<1>5. ASSUME Calm
      PROVE  /\ CalmDevice(memory, devs'[memory.device], refreshMu', expiries)
             /\ CalmRequest(q, memory, devs'[memory.device])
             /\ \A s \in ClientRequests \ {r} :
                   CalmRequest(clientReq[s], memory, devs'[memory.device])
  <2>1. /\ CalmDevice(memory, devs[memory.device], refreshMu, expiries)
        /\ \A s \in ClientRequests : CalmRequest(clientReq[s], memory, devs[memory.device])
    BY <1>1, <1>5 DEF Calm
  <2>2. CalmRequest(q, memory, devs[memory.device])
    BY <1>3, <1>4, <2>1 DEF CalmRequest, CalmDevice
  <2> QED BY <1>1, <2>1, <2>2
<1>6. CalmUnlessDisturbed'
  BY <1>1, <1>5, CalmGoesOn
<1> QED BY <1>1, <1>2, <1>6, QuietRequest DEF CredInv, Counted

LEMMA AnsweredKeeps == ASSUME CredInv, NEW r \in ClientRequests, Answered(r) PROVE CredInv'
<1> DEFINE c == clientReq[r].with
           w == [pc |-> "wait", with |-> c]
<1>1. /\ ReqAt(r, "sent")
      /\ UNCHANGED <<devs, memory, vault, token, pairing, refreshMu, login, confirm, signOut,
                     cleared, expiries, others>>
  BY DEF Answered
<1>2. \/ Valid(c) /\ ReqDo(r, AtRest) /\ UNCHANGED refused
      \/ ~Valid(c) /\ clientReq[r].again /\ Reject(r)
      \/ ~Valid(c) /\ ~clientReq[r].again /\ ReqDo(r, w) /\ UNCHANGED refused
  BY DEF Answered
<1>3. /\ RequestShaped(AtRest) /\ ~Renews(AtRest) /\ AtRest.pc = "rest"
      /\ RequestShaped(w) /\ ~Renews(w) /\ w.pc = "wait" /\ w.with = c
  BY DEF RequestShaped, Renews, AtRest
<1>4. ~Renews(clientReq[r]) /\ clientReq[r].pc = "sent"
  BY <1>1 DEF Renews, ReqAt
<1>5. refused \in BOOLEAN /\ others \in 0..MaxOthers /\ expiries \in 0..MaxExpiries
  BY DEF CredInv, Counted
<1> HIDE DEF c, w
<1>6. ASSUME Calm
      PROVE  /\ memory # NoCredentials
             /\ CalmDevice(memory, devs[memory.device], refreshMu, expiries)
             /\ \A s \in ClientRequests : CalmRequest(clientReq[s], memory, devs[memory.device])
  BY <1>4, <1>6 DEF Calm
<1>7. ASSUME Calm
      PROVE  /\ c = [device |-> memory.device, generation |-> c.generation]
             /\ c.generation \in 1..devs[memory.device].latest /\ clientReq[r].again \in BOOLEAN
             /\ clientReq[r].again => c.generation = 2
             /\ c # NoCredentials /\ c.device = memory.device
  <2>1. CalmRequest(clientReq[r], memory, devs[memory.device])
    BY <1>6, <1>7
  <2>2. /\ c = [device |-> memory.device, generation |-> c.generation]
        /\ c.generation \in 1..devs[memory.device].latest /\ clientReq[r].again \in BOOLEAN
        /\ clientReq[r].again => c.generation = 2
    BY <1>4, <2>1 DEF CalmRequest, c
  <2>3. memory.device # 0
    BY <1>6, <1>7, NoDeviceZero DEF CredInv, CredentialsTyped, Held, DeviceIds
  <2>4. c.device = memory.device
    BY <2>2
  <2> QED BY <2>2, <2>3, <2>4 DEF NoCredentials
<1>8. CASE Valid(c) /\ ReqDo(r, AtRest) /\ UNCHANGED refused
  <2>1. CASE memory = NoCredentials
    <3>1. ~Calm
      BY <1>6, <2>1
    <3>2. CalmUnlessDisturbed'
      BY <1>1, <3>1 DEF CredInv, CalmUnlessDisturbed
    <3> QED BY <1>1, <1>3, <1>4, <1>5, <1>8, <3>2, QuietRequest
  <2>2. CASE memory # NoCredentials
    <3>1. CalmRequest(AtRest, memory, devs[memory.device])
      BY <1>3 DEF CalmRequest
    <3>2. CalmUnlessDisturbed'
      BY <1>1, <1>6, <1>8, <2>2, <3>1, CalmGoesOn
    <3> QED BY <1>1, <1>3, <1>4, <1>5, <1>8, <3>2, QuietRequest
  <2> QED BY <2>1, <2>2
<1>9. CASE ~Valid(c) /\ clientReq[r].again /\ Reject(r)
  <2>1. ASSUME Calm PROVE FALSE
    <3>1. devs[memory.device].latest = 2 /\ c.generation = 2
      BY <1>6, <1>7, <1>9, <2>1 DEF CalmDevice
    <3>2. Valid(c)
      BY <1>6, <1>7, <2>1, <3>1 DEF CalmDevice, Valid
    <3> QED BY <1>9, <3>2
  <2>2. CalmUnlessDisturbed'
    BY <1>1, <2>1 DEF CredInv, CalmUnlessDisturbed
  <2> QED BY <1>1, <1>3, <1>4, <1>5, <1>9, <2>2, QuietRequest DEF Reject
<1>10. CASE ~Valid(c) /\ ~clientReq[r].again /\ ReqDo(r, w) /\ UNCHANGED refused
  <2>1. CASE memory = NoCredentials
    <3>1. ~Calm
      BY <1>6, <2>1
    <3>2. CalmUnlessDisturbed'
      BY <1>1, <3>1 DEF CredInv, CalmUnlessDisturbed
    <3> QED BY <1>1, <1>3, <1>4, <1>5, <1>10, <3>2, QuietRequest
  <2>2. CASE memory # NoCredentials
    <3>1. ASSUME Calm PROVE CalmRequest(w, memory, devs[memory.device])
      <4> DEFINE x == devs[memory.device]
      <4>1. CASE c.generation # x.latest
        <5>1. c.generation = 1 /\ x.latest = 2
          BY <1>6, <1>7, <3>1, <4>1 DEF CalmDevice
        <5> QED BY <1>3, <1>7, <3>1, <5>1 DEF CalmRequest, First
      <4>2. CASE c.generation = x.latest
        <5>1. x.ended
          BY <1>6, <1>7, <1>10, <3>1, <4>2 DEF Valid, CalmDevice
        <5>2. x.latest = 1
          BY <1>6, <3>1, <5>1 DEF CalmDevice
        <5> QED BY <1>3, <1>7, <3>1, <4>2, <5>1, <5>2 DEF CalmRequest, First
      <4> QED BY <4>1, <4>2
    <3>2. CalmUnlessDisturbed'
      BY <1>1, <1>6, <1>10, <2>2, <3>1, CalmGoesOn
    <3> QED BY <1>1, <1>3, <1>4, <1>5, <1>10, <3>2, QuietRequest
  <2> QED BY <2>1, <2>2
<1> QED BY <1>2, <1>8, <1>9, <1>10

LEMMA RefreshTokenKeeps == ASSUME CredInv, NEW r \in ClientRequests, RefreshToken(r) PROVE CredInv'
<1> DEFINE q == [pc |-> "wait", with |-> NoCredentials]
<1>1. /\ ReqAt(r, "rest") /\ Disturb /\ ReqDo(r, q)
      /\ UNCHANGED <<devs, memory, vault, token, pairing, refreshMu, login, confirm, signOut,
                     cleared, refused, expiries>>
  BY DEF RefreshToken
<1>2. RequestShaped(q) /\ ~Renews(q) /\ ~Renews(clientReq[r])
  BY <1>1 DEF RequestShaped, Renews, ReqAt
<1> HIDE DEF q
<1>3. others' \in 0..MaxOthers /\ CalmUnlessDisturbed'
  BY <1>1, DisturbedIsCounted
<1> QED BY <1>1, <1>2, <1>3, QuietRequest DEF CredInv, Counted

LEMMA ResendKeeps == ASSUME CredInv, NEW r \in ClientRequests, Resend(r) PROVE CredInv'
<1> DEFINE q == [pc |-> "sent", with |-> memory, again |-> TRUE]
<1>1. /\ ReqAt(r, "resend") /\ ReqDo(r, q)
      /\ UNCHANGED <<devs, memory, vault, token, pairing, refreshMu, login, confirm, signOut,
                     cleared, refused, expiries, others>>
  BY DEF Resend
<1>2. RequestShaped(q) /\ ~Renews(q) /\ ~Renews(clientReq[r])
  BY <1>1 DEF RequestShaped, Renews, ReqAt
<1>3. q.pc = "sent" /\ q.with = memory /\ q.again = TRUE
  OBVIOUS
<1> HIDE DEF q
<1>4. CASE memory = NoCredentials
  <2>1. ~Calm
    BY <1>1, <1>4 DEF Calm, ReqAt
  <2>2. CalmUnlessDisturbed'
    BY <1>1, <2>1 DEF CredInv, CalmUnlessDisturbed
  <2> QED BY <1>1, <1>2, <2>2, QuietRequest DEF CredInv, Counted
<1>5. CASE memory # NoCredentials
  <2>1. memory = [device |-> memory.device, generation |-> memory.generation]
    BY <1>5 DEF CredInv, CredentialsTyped, Held
  <2>2. ASSUME Calm
        PROVE  /\ CalmDevice(memory, devs'[memory.device], refreshMu', expiries)
               /\ CalmRequest(q, memory, devs'[memory.device])
               /\ \A s \in ClientRequests \ {r} :
                     CalmRequest(clientReq[s], memory, devs'[memory.device])
    <3>1. /\ CalmDevice(memory, devs[memory.device], refreshMu, expiries)
          /\ \A s \in ClientRequests : CalmRequest(clientReq[s], memory, devs[memory.device])
      BY <1>5, <2>2 DEF Calm
    <3>2. memory.generation = 2
      BY <1>1, <3>1 DEF CalmRequest, ReqAt
    <3>3. CalmRequest(q, memory, devs[memory.device])
      BY <1>3, <2>1, <3>1, <3>2 DEF CalmRequest, CalmDevice
    <3> QED BY <1>1, <3>1, <3>3
  <2>3. CalmUnlessDisturbed'
    BY <1>1, <1>5, <2>2, CalmGoesOn
  <2> QED BY <1>1, <1>2, <2>3, QuietRequest DEF CredInv, Counted
<1> QED BY <1>4, <1>5

\* What devices that grow leave true of everything that names them.
LEMMA NamesStay ==
    ASSUME CredInv, DevicesSound', Grows(devs, devs'),
           UNCHANGED <<memory, vault, token, pairing, signOut, cleared>>
    PROVE  /\ CredentialsTyped' /\ SignOutSound' /\ Dead(cleared)'
           /\ UNCHANGED confirm => PairingSound'
<1>1. /\ \A d \in DOMAIN devs : devs[d].latest \in Nat
      /\ \A d \in DOMAIN devs' : devs'[d].latest \in Nat
  <2>1. (\A d \in DOMAIN devs : devs[d] \in Dev) /\ (\A d \in DOMAIN devs' : devs'[d] \in Dev)
    BY DEF CredInv, DevicesSound
  <2> QED BY <2>1 DEF Dev
<1>2. \A c : Held(c, devs) => Held(c, devs')
  BY <1>1, HeldStays
<1>3. DeviceIds \subseteq DeviceIds' /\ \A d \in DeviceIds : devs'[d].live => devs[d].live
  BY DEF Grows, DeviceIds
<1>4. CredentialsTyped'
  BY <1>2, <1>3 DEF CredInv, CredentialsTyped
<1>5. UNCHANGED confirm => PairingSound'
  BY <1>3 DEF CredInv, PairingSound
<1>6. \A ds : Dead(ds) => ds \subseteq DeviceIds' /\ \A d \in ds : ~devs'[d].live
  BY <1>3 DEF Dead
<1>7. SignOutSound'
  BY <1>2, <1>3, <1>6 DEF CredInv, SignOutSound, Dead
<1>8. Dead(cleared)'
  BY <1>6 DEF CredInv, Dead
<1> QED BY <1>4, <1>5, <1>7, <1>8

LEMMA RefreshTokenOnceKeeps ==
    ASSUME CredInv, NEW r \in ClientRequests, RefreshTokenOnce(r) PROVE CredInv'
<1> DEFINE p == [pc |-> "resend"]
           then == IF clientReq[r].with = NoCredentials THEN "rest" ELSE "resend"
           q == [pc |-> "refresh", token |-> memory, then |-> then]
<1>1. /\ ReqAt(r, "wait") /\ refreshMu = Nobody
      /\ UNCHANGED <<devs, memory, vault, token, pairing, login, confirm, signOut, cleared,
                     expiries, others>>
  BY DEF RefreshTokenOnce
<1>2. \/ AlreadyRotated(r) /\ ReqDo(r, p) /\ UNCHANGED <<refreshMu, refused>>
      \/ ~AlreadyRotated(r) /\ memory = NoCredentials /\ Reject(r) /\ UNCHANGED refreshMu
      \/ /\ ~AlreadyRotated(r) /\ memory # NoCredentials
         /\ ReqDo(r, q) /\ refreshMu' = r /\ UNCHANGED refused
  BY DEF RefreshTokenOnce
<1>3. /\ RequestShaped(p) /\ ~Renews(p) /\ p.pc = "resend"
      /\ RequestShaped(AtRest) /\ ~Renews(AtRest)
      /\ RequestShaped(q) /\ Renews(q) /\ q.pc = "refresh" /\ q.token = memory /\ q.then = then
  BY DEF RequestShaped, Renews, AtRest
<1>4. ~Renews(clientReq[r]) /\ clientReq[r].pc = "wait"
  BY <1>1 DEF Renews, ReqAt
<1>5. refused \in BOOLEAN /\ others \in 0..MaxOthers /\ expiries \in 0..MaxExpiries
  BY DEF CredInv, Counted
<1>6. ASSUME Calm
      PROVE  /\ memory # NoCredentials /\ memory.device # 0
             /\ memory = [device |-> memory.device, generation |-> memory.generation]
             /\ CalmDevice(memory, devs[memory.device], refreshMu, expiries)
             /\ \A s \in ClientRequests : CalmRequest(clientReq[s], memory, devs[memory.device])
             /\ clientReq[r].with = First(memory.device)
             /\ devs[memory.device].latest = 2 \/ devs[memory.device].ended
  <2>1. memory # NoCredentials
    BY <1>4, <1>6 DEF Calm
  <2>2. memory.device # 0 /\ memory = [device |-> memory.device, generation |-> memory.generation]
    BY <2>1, NoDeviceZero DEF CredInv, CredentialsTyped, Held, DeviceIds
  <2>3. /\ CalmDevice(memory, devs[memory.device], refreshMu, expiries)
        /\ \A s \in ClientRequests : CalmRequest(clientReq[s], memory, devs[memory.device])
    BY <1>6, <2>1 DEF Calm
  <2>4. /\ clientReq[r].with = First(memory.device)
        /\ devs[memory.device].latest = 2 \/ devs[memory.device].ended
    BY <1>4, <2>3 DEF CalmRequest
  <2> QED BY <2>1, <2>2, <2>3, <2>4
<1> HIDE DEF p, q
<1>7. CASE AlreadyRotated(r) /\ ReqDo(r, p) /\ UNCHANGED <<refreshMu, refused>>
  <2>1. memory # NoCredentials /\ memory # clientReq[r].with
    BY <1>7 DEF AlreadyRotated
  <2>2. ASSUME Calm PROVE CalmRequest(p, memory, devs[memory.device])
    <3>1. memory.generation \in 1..2
      BY <1>6, <2>2 DEF CalmDevice
    <3>2. memory.generation # 1
      BY <1>6, <2>1, <2>2 DEF First
    <3>3. memory.generation = 2
      BY <3>1, <3>2
    <3> QED BY <1>3, <3>3 DEF CalmRequest
  <2>3. CalmUnlessDisturbed'
    BY <1>1, <1>6, <1>7, <2>1, <2>2, CalmGoesOn
  <2> QED BY <1>1, <1>3, <1>4, <1>5, <1>7, <2>3, QuietRequest
<1>8. CASE ~AlreadyRotated(r) /\ memory = NoCredentials /\ Reject(r) /\ UNCHANGED refreshMu
  <2>1. ~Calm
    BY <1>6, <1>8
  <2>2. CalmUnlessDisturbed'
    BY <1>1, <2>1 DEF CredInv, CalmUnlessDisturbed
  <2> QED BY <1>1, <1>3, <1>4, <1>5, <1>8, <2>2, QuietRequest DEF Reject
<1>9. CASE /\ ~AlreadyRotated(r) /\ memory # NoCredentials
           /\ ReqDo(r, q) /\ refreshMu' = r /\ UNCHANGED refused
  <2>1. OneRenewal'
    BY <1>1, <1>3, <1>9, RenewalMoves DEF CredInv
  <2>2. /\ clientReq'[r] = q
        /\ \A s \in ClientRequests \ {r} : clientReq'[s] = clientReq[s]
    BY <1>9, RequestMoves DEF CredInv
  <2>3. \A s \in ClientRequests : ~Renews(clientReq[s])
    BY <1>1, SessionConstants DEF CredInv, OneRenewal, Nobody
  <2>4. Newest(memory, devs) /\ Newest(vault, devs)
    BY <1>1, SessionConstants DEF CredInv, NothingBehind, Renewing, Nobody
  <2>5. \A s \in ClientRequests : Renews(clientReq'[s]) => clientReq'[s].token = memory
    BY <1>3, <2>2, <2>3
  <2>6. NothingBehind'
    BY <1>1, <1>9, <2>4, <2>5 DEF CredInv, CredentialsTyped, NothingBehind
  <2>7. SignInSound'
    BY <1>1, <2>5 DEF CredInv, SignInSound, DeviceIds
  <2>8. ASSUME Calm
        PROVE  /\ CalmDevice(memory, devs[memory.device], refreshMu', expiries)
               /\ CalmRequest(q, memory, devs[memory.device])
    <3>1. clientReq[r].with # NoCredentials
      BY <1>6, <2>8 DEF First, NoCredentials
    <3>2. memory = clientReq[r].with
      BY <1>9, <3>1 DEF AlreadyRotated
    <3>3. memory.generation = 1
      BY <1>6, <2>8, <3>2 DEF First
    <3>4. devs[memory.device].latest = 1 /\ devs[memory.device].ended
      BY <1>1, <1>6, <2>8, <3>3 DEF CalmDevice
    <3>5. CalmRequest(q, memory, devs[memory.device])
      BY <1>3, <3>1, <3>3, <3>4 DEF CalmRequest
    <3>6. refreshMu' # Nobody
      BY <1>9, SessionConstants DEF Nobody
    <3>7. CalmDevice(memory, devs[memory.device], refreshMu', expiries)
      BY <1>6, <2>8, <3>6 DEF CalmDevice
    <3> QED BY <3>5, <3>7
  <2>9. CalmUnlessDisturbed'
    BY <1>1, <1>6, <1>9, <2>8, CalmGoesOn
  <2>10. DevicesSound' /\ CredentialsTyped'
    BY <1>1 DEF CredInv, DevicesSound, CredentialsTyped, DeviceIds
  <2>11. PairingSound' /\ SignOutSound' /\ Dead(cleared)'
    BY <1>1 DEF CredInv, PairingSound, SignOutSound, Dead, DeviceIds
  <2>12. Counted'
    BY <1>1, <1>9 DEF CredInv, Counted
  <2> QED BY <2>1, <2>6, <2>7, <2>9, <2>10, <2>11, <2>12 DEF CredInv
<1> QED BY <1>2, <1>7, <1>8, <1>9

LEMMA DevChanges ==
    ASSUME NEW x \in Dev
    PROVE  /\ x.latest \in Nat
           /\ [x EXCEPT !.latest = @ + 1, !.ended = FALSE] \in Dev
           /\ [x EXCEPT !.live = FALSE, !.replayed = TRUE] \in Dev
           /\ [x EXCEPT !.ended = TRUE] \in Dev
           /\ [x EXCEPT !.live = FALSE] \in Dev
           /\ LET y == [x EXCEPT !.lost = TRUE] IN
              y \in Dev /\ y.lost /\ y.latest = x.latest /\ y.live = x.live
<1> DEFINE Fields == {"kind", "live", "latest", "ended", "replayed", "lost"}
<1>1. x.latest \in Nat
  BY DEF Dev
<1>2. \A n \in Nat : [x EXCEPT !.latest = n, !.ended = FALSE] \in Dev
  <2> TAKE n \in Nat
  <2>1. DOMAIN [x EXCEPT !.latest = n, !.ended = FALSE] = Fields
    BY DEF Dev
  <2> QED BY <2>1 DEF Dev
<1>3. [x EXCEPT !.live = FALSE, !.replayed = TRUE] \in Dev
  <2>1. DOMAIN [x EXCEPT !.live = FALSE, !.replayed = TRUE] = Fields
    BY DEF Dev
  <2> QED BY <2>1 DEF Dev
<1>4. [x EXCEPT !.ended = TRUE] \in Dev /\ [x EXCEPT !.live = FALSE] \in Dev
  BY DEF Dev
<1>5. LET y == [x EXCEPT !.lost = TRUE] IN
      y \in Dev /\ y.lost /\ y.latest = x.latest /\ y.live = x.live
  BY DEF Dev
<1>6. x.latest + 1 \in Nat
  BY <1>1
<1>7. [x EXCEPT !.latest = x.latest + 1, !.ended = FALSE] \in Dev
  BY <1>2, <1>6
<1> QED BY <1>1, <1>3, <1>4, <1>5, <1>7

\* What a rotation makes of the devices.
LEMMA RotationSound ==
    ASSUME DevicesSound, NEW c, c # NoCredentials, Held(c, devs), Newest(c, devs)
    PROVE  /\ Rotation(c) \in Seq(Dev) /\ Len(Rotation(c)) = Len(devs)
           /\ DOMAIN Rotation(c) = DOMAIN devs
           /\ Grows(devs, Rotation(c))
           /\ \A d \in DeviceIds : Rotation(c)[d].replayed => Rotation(c)[d].lost
           /\ \A d \in DeviceIds \ {c.device} : Rotation(c)[d] = devs[d]
           /\ Rotates(c) => Rotation(c)[c.device] = [devs[c.device] EXCEPT !.latest = @ + 1,
                                                                            !.ended = FALSE]
           /\ ~Rotates(c) => Rotation(c)[c.device].latest = devs[c.device].latest
<1> DEFINE x == devs[c.device]
           y == [x EXCEPT !.latest = @ + 1, !.ended = FALSE]
           z == [x EXCEPT !.live = FALSE, !.replayed = TRUE]
<1>1. /\ c.device \in DeviceIds /\ devs \in Seq(Dev) /\ x \in Dev
      /\ \A d \in DeviceIds : devs[d] \in Dev
      /\ DeviceIds = 1..Len(devs) /\ Len(devs) \in Nat
  BY NoDeviceZero DEF Held, DevicesSound, DeviceIds
<1>2. y \in Dev /\ z \in Dev
  BY <1>1, DevChanges
<1>3. /\ y.latest = x.latest + 1 /\ y.lost = x.lost /\ y.live = x.live /\ y.replayed = x.replayed
      /\ z.latest = x.latest /\ z.lost = x.lost /\ z.live = FALSE
      /\ x.latest \in Nat
  BY <1>1 DEF Dev
<1>4. Rotates(c) <=> x.live /\ c.generation = x.latest
  BY DEF Rotates
<1> DEFINE w == IF ~x.live THEN x ELSE IF c.generation = x.latest THEN y ELSE z
<1>5. /\ w \in Dev /\ x.latest <= w.latest /\ (x.lost => w.lost) /\ (w.live => x.live)
      /\ w.replayed => w.lost
      /\ Rotates(c) => w = y
      /\ ~Rotates(c) => w.latest = x.latest
  <2>1. x.replayed => x.lost
    BY <1>1 DEF DevicesSound
  <2>2. x.lost \/ c.generation = x.latest
    BY DEF Newest
  <2> HIDE DEF y, z, x
  <2>3. CASE ~x.live
    BY <1>1, <1>3, <1>4, <2>1, <2>3
  <2>4. CASE x.live /\ c.generation = x.latest
    BY <1>2, <1>3, <1>4, <2>1, <2>4
  <2>5. CASE x.live /\ c.generation # x.latest
    BY <1>2, <1>3, <1>4, <2>2, <2>5
  <2> QED BY <2>3, <2>4, <2>5
<1>6. Rotation(c) = [devs EXCEPT ![c.device] = w]
  <2>1. CASE ~x.live
    <3>1. Rotation(c) = devs /\ w = devs[c.device]
      BY <2>1 DEF Rotation
    <3>2. [devs EXCEPT ![c.device] = devs[c.device]] = devs
      BY <1>1
    <3> QED BY <3>1, <3>2
  <2>2. CASE x.live /\ c.generation = x.latest
    BY <2>2 DEF Rotation
  <2>3. CASE x.live /\ c.generation # x.latest
    BY <2>3 DEF Rotation
  <2> QED BY <2>1, <2>2, <2>3
<1> HIDE DEF w, y, z
<1>7. /\ Rotation(c) \in Seq(Dev) /\ Len(Rotation(c)) = Len(devs)
      /\ DOMAIN Rotation(c) = DOMAIN devs
  BY <1>1, <1>5, <1>6
<1>8. Rotation(c)[c.device] = w /\ \A d \in DeviceIds \ {c.device} : Rotation(c)[d] = devs[d]
  BY <1>1, <1>6 DEF DeviceIds
<1>9. \A d \in DeviceIds : Rotation(c)[d].replayed => Rotation(c)[d].lost
  BY <1>5, <1>8 DEF DevicesSound
<1>10. \A d \in DeviceIds : /\ devs[d].latest <= Rotation(c)[d].latest
                            /\ devs[d].lost => Rotation(c)[d].lost
                            /\ Rotation(c)[d].live => devs[d].live
  <2>1. \A d \in DeviceIds : devs[d].latest \in Nat
    BY <1>1 DEF Dev
  <2>2. \A d \in DeviceIds \ {c.device} : devs[d].latest <= Rotation(c)[d].latest
    BY <1>8, <2>1
  <2> QED BY <1>5, <1>8, <2>2
<1>11. Grows(devs, Rotation(c))
  BY <1>7, <1>10 DEF Grows, DeviceIds
<1>12. Rotates(c) => Rotation(c)[c.device] = [devs[c.device] EXCEPT !.latest = @ + 1, !.ended = FALSE]
  BY <1>5, <1>8 DEF y
<1>13. ~Rotates(c) => Rotation(c)[c.device].latest = devs[c.device].latest
  BY <1>5, <1>8
<1> QED BY <1>7, <1>8, <1>9, <1>11, <1>12, <1>13

\* An answer to a rotation that is lost is recorded at its device.
LEMMA LostSound ==
    ASSUME NEW D \in Seq(Dev), NEW d \in DOMAIN D,
           \A e \in DOMAIN D : D[e].replayed => D[e].lost
    PROVE  LET E == [D EXCEPT ![d].lost = TRUE] IN
           /\ E \in Seq(Dev) /\ Len(E) = Len(D) /\ DOMAIN E = DOMAIN D
           /\ \A e \in DOMAIN D : E[e].replayed => E[e].lost
           /\ Grows(D, E) /\ E[d].lost
           /\ \A e \in DOMAIN D : E[e].latest = D[e].latest
<1> DEFINE w == [D[d] EXCEPT !.lost = TRUE]
           E == [D EXCEPT ![d] = w]
<1>1. \A e \in DOMAIN D : D[e] \in Dev /\ D[e].latest \in Nat
  <2>1. \A e \in DOMAIN D : D[e] \in Dev
    OBVIOUS
  <2> QED BY <2>1, DevChanges
<1>2. w \in Dev /\ w.lost /\ w.latest = D[d].latest /\ w.live = D[d].live
  BY <1>1, DevChanges
<1> HIDE DEF w
<1>3. E \in Seq(Dev) /\ Len(E) = Len(D) /\ DOMAIN E = DOMAIN D
  BY <1>2
<1>4. E[d] = w /\ \A e \in DOMAIN D \ {d} : E[e] = D[e]
  OBVIOUS
<1> HIDE DEF E
<1>5. \A e \in DOMAIN D : E[e].latest = D[e].latest /\ E[e].live = D[e].live
  BY <1>2, <1>4
<1>6. \A e \in DOMAIN D : (D[e].lost => E[e].lost) /\ (E[e].replayed => E[e].lost)
  BY <1>2, <1>4
<1>7. \A e \in DOMAIN D : D[e].latest <= E[e].latest
  BY <1>1, <1>5
<1>8. Grows(D, E)
  BY <1>3, <1>5, <1>6, <1>7 DEF Grows
<1>9. E = [D EXCEPT ![d].lost = TRUE]
  BY DEF E, w
<1> QED BY <1>2, <1>3, <1>4, <1>5, <1>6, <1>8, <1>9

\* A renewal that fails: its request ends and refreshMu is free.
LEMMA RenewalFails ==
    ASSUME CredInv, NEW r \in ClientRequests, Renews(clientReq[r]), ReqDo(r, AtRest),
           refreshMu' = Nobody, refused' \in BOOLEAN, others' \in 0..MaxOthers,
           UNCHANGED <<memory, vault, token, pairing, login, confirm, signOut, cleared,
                       expiries>>,
           DevicesSound', Grows(devs, devs'),
           \A d \in DeviceIds : devs'[d].latest = devs[d].latest \/ d = clientReq[r].token.device,
           Newest(memory, devs'), Newest(vault, devs'), CalmUnlessDisturbed'
    PROVE  CredInv'
<1>1. refreshMu = r
  BY DEF CredInv, OneRenewal
<1>2. RequestShaped(AtRest) /\ ~Renews(AtRest)
  BY DEF RequestShaped, Renews, AtRest
<1>3. OneRenewal'
  BY <1>1, <1>2, RenewalMoves DEF CredInv
<1>4. \A s \in ClientRequests : ~Renews(clientReq'[s])
  BY <1>3, SessionConstants DEF OneRenewal, Nobody
<1>5. NothingBehind'
  BY <1>4 DEF NothingBehind
<1>6. SignInSound'
  <2>1. login.pc \in {"save", "keep"} => /\ login.device \in DeviceIds
                                         /\ clientReq[r].token.device # login.device
    BY DEF CredInv, SignInSound
  <2>2. DeviceIds \subseteq DeviceIds'
    BY DEF Grows, DeviceIds
  <2> QED BY <1>4, <2>1, <2>2 DEF CredInv, SignInSound
<1>7. CredentialsTyped' /\ PairingSound' /\ SignOutSound' /\ Dead(cleared)'
  BY NamesStay
<1>8. Counted'
  BY DEF CredInv, Counted
<1> QED BY <1>3, <1>5, <1>6, <1>7, <1>8 DEF CredInv

\* At the server, before the answer.
LEMMA AtRefresh ==
    ASSUME CredInv, NEW r \in ClientRequests, ReqAt(r, "refresh")
    PROVE  LET c == clientReq[r].token IN
           /\ Renews(clientReq[r]) /\ refreshMu = r
           /\ c # NoCredentials /\ Held(c, devs) /\ Newest(c, devs)
           /\ Newest(memory, devs) /\ Newest(vault, devs)
           /\ Calm => /\ memory # NoCredentials /\ c = memory /\ c.generation = 1
                      /\ devs[c.device].latest = 1 /\ devs[c.device].live
                      /\ clientReq[r].then = "resend"
                      /\ CalmDevice(memory, devs[memory.device], refreshMu, expiries)
                      /\ \A s \in ClientRequests :
                            CalmRequest(clientReq[s], memory, devs[memory.device])
<1> DEFINE c == clientReq[r].token
<1>1. Renews(clientReq[r]) /\ clientReq[r].pc = "refresh"
  BY DEF ReqAt, Renews
<1>2. refreshMu = r
  BY <1>1 DEF CredInv, OneRenewal
<1>3. c # NoCredentials /\ Held(c, devs) /\ Newest(c, devs)
  BY <1>1 DEF CredInv, NothingBehind
<1>4. Newest(memory, devs) /\ Newest(vault, devs)
  BY <1>1, <1>2 DEF CredInv, NothingBehind, Renewing
<1>5. ASSUME Calm
      PROVE  /\ memory # NoCredentials /\ c = memory /\ c.generation = 1
             /\ devs[c.device].latest = 1 /\ devs[c.device].live
             /\ clientReq[r].then = "resend"
             /\ CalmDevice(memory, devs[memory.device], refreshMu, expiries)
             /\ \A s \in ClientRequests : CalmRequest(clientReq[s], memory, devs[memory.device])
  <2>1. memory # NoCredentials
    BY <1>1, <1>5 DEF Calm
  <2>2. /\ CalmDevice(memory, devs[memory.device], refreshMu, expiries)
        /\ \A s \in ClientRequests : CalmRequest(clientReq[s], memory, devs[memory.device])
    BY <1>5, <2>1 DEF Calm
  <2>3. CalmRequest(clientReq[r], memory, devs[memory.device])
    BY <2>2
  <2>4. /\ c = memory /\ memory.generation = 1 /\ devs[memory.device].latest = 1
        /\ clientReq[r].then = "resend"
    BY <1>1, <2>3 DEF CalmRequest
  <2>5. devs[memory.device].live
    BY <2>2 DEF CalmDevice
  <2> QED BY <2>1, <2>2, <2>4, <2>5
<1> QED BY <1>1, <1>2, <1>3, <1>4, <1>5

\* The server rotates the token and the answer arrives.
LEMMA Rotated ==
    ASSUME CredInv, NEW r \in ClientRequests, ReqAt(r, "refresh"), Rotates(clientReq[r].token),
           devs' = Rotation(clientReq[r].token),
           ReqDo(r, [pc |-> "save", token |-> [clientReq[r].token EXCEPT !.generation = @ + 1],
                     then |-> clientReq[r].then]),
           UNCHANGED <<memory, vault, token, pairing, refreshMu, login, confirm, signOut, cleared,
                       refused, expiries, others>>
    PROVE  CredInv'
<1> DEFINE c == clientReq[r].token
           n == [c EXCEPT !.generation = @ + 1]
           q == [pc |-> "save", token |-> n, then |-> clientReq[r].then]
           x == devs[c.device]
           y == devs'[c.device]
<1>1. /\ Renews(clientReq[r]) /\ refreshMu = r
      /\ c # NoCredentials /\ Held(c, devs) /\ Newest(c, devs)
      /\ Newest(memory, devs) /\ Newest(vault, devs)
  BY AtRefresh
<1>2. /\ c = [device |-> c.device, generation |-> c.generation]
      /\ c.device \in DeviceIds /\ c.generation \in Nat /\ c.device # 0
  BY <1>1, NoDeviceZero DEF Held, DeviceIds, CredInv
<1>3. n = [device |-> c.device, generation |-> c.generation + 1]
  BY <1>2
<1>4. /\ devs' \in Seq(Dev) /\ Len(devs') = Len(devs) /\ DOMAIN devs' = DOMAIN devs
      /\ Grows(devs, devs')
      /\ \A d \in DeviceIds : devs'[d].replayed => devs'[d].lost
      /\ \A d \in DeviceIds \ {c.device} : devs'[d] = devs[d]
      /\ y = [x EXCEPT !.latest = @ + 1, !.ended = FALSE]
  BY <1>1, RotationSound DEF CredInv
<1>5. x \in Dev
  BY <1>2 DEF CredInv, DevicesSound, DeviceIds
<1>6. y.latest = x.latest + 1 /\ y.ended = FALSE /\ y.live = x.live /\ x.latest \in Nat
  BY <1>4, <1>5 DEF Dev
<1>7. c.generation = x.latest
  BY DEF Rotates
<1>8. DevicesSound'
  BY <1>4 DEF CredInv, DevicesSound, DeviceIds
<1>9. CredentialsTyped' /\ PairingSound' /\ SignOutSound' /\ Dead(cleared)'
  BY <1>4, <1>8, NamesStay
<1>10. /\ n # NoCredentials /\ Held(n, devs') /\ Newest(n, devs')
       /\ n.device = c.device /\ n.generation = c.generation + 1
  <2>1. n.device = c.device /\ n.generation = c.generation + 1 /\ c.generation + 1 \in Nat
    BY <1>2, <1>3
  <2>2. n.generation = y.latest /\ y = devs'[n.device]
    BY <1>6, <1>7, <2>1
  <2>3. n # NoCredentials
    BY <1>2, <2>1 DEF NoCredentials
  <2>4. n.device \in DOMAIN devs'
    BY <1>2, <1>4, <2>1 DEF DeviceIds
  <2>5. n = [device |-> n.device, generation |-> n.generation]
    BY <1>3, <2>1
  <2>6. n.generation \in Nat /\ n.generation <= devs'[n.device].latest
    BY <2>1, <2>2
  <2> HIDE DEF n, y
  <2>7. Held(n, devs') /\ Newest(n, devs')
    BY <2>2, <2>4, <2>5, <2>6 DEF Held, Newest
  <2> QED BY <2>1, <2>3, <2>7
<1>11. RequestShaped(q) /\ Renews(q) /\ q.pc = "save" /\ q.token = n /\ q.then = clientReq[r].then
  BY <1>1 DEF CredInv, OneRenewal, RequestShaped, Renews
<1> HIDE DEF q, n, x, y
<1>12. ReqDo(r, q)
  BY DEF q, n
<1>13. OneRenewal'
  BY <1>1, <1>11, <1>12, RenewalMoves DEF CredInv
<1>14. /\ clientReq'[r] = q
       /\ \A s \in ClientRequests \ {r} : clientReq'[s] = clientReq[s]
  BY <1>12, RequestMoves DEF CredInv
<1>15. \A s \in ClientRequests : Renews(clientReq'[s]) => s = r
  BY <1>1, <1>13 DEF OneRenewal
<1>16. NothingBehind'
  <2>1. ASSUME NEW m, Held(m, devs), Newest(m, devs), NEW ps, "save" \in ps
        PROVE  \/ Newest(m, devs')
               \/ /\ refreshMu' \in ClientRequests /\ clientReq'[refreshMu'].pc \in ps
                  /\ clientReq'[refreshMu'].token.device = m.device
    <3>1. CASE m # NoCredentials /\ m.device = c.device
      BY <1>1, <1>10, <1>11, <1>14, <2>1, <3>1
    <3>2. CASE m # NoCredentials /\ m.device # c.device
      <4>1. devs'[m.device] = devs[m.device]
        BY <1>4, <2>1, <3>2 DEF Held, DeviceIds
      <4> QED BY <2>1, <4>1 DEF Newest
    <3>3. CASE m = NoCredentials
      BY <3>3 DEF Newest
    <3> QED BY <3>1, <3>2, <3>3
  <2>2. Held(memory, devs) /\ Held(vault, devs)
    BY DEF CredInv, CredentialsTyped
  <2>3. Newest(memory', devs') \/ Renewing(memory, {"save", "keep"})'
    BY <1>1, <2>1, <2>2 DEF Renewing
  <2>4. Newest(vault', devs') \/ Renewing(vault, {"save"})'
    BY <1>1, <2>1, <2>2 DEF Renewing
  <2>5. \A s \in ClientRequests : Renews(clientReq'[s]) =>
          /\ clientReq'[s].token # NoCredentials
          /\ Held(clientReq'[s].token, devs') /\ Newest(clientReq'[s].token, devs')
    BY <1>10, <1>11, <1>14, <1>15
  <2> QED BY <2>3, <2>4, <2>5 DEF NothingBehind
<1>17. SignInSound'
  <2>1. \A s \in ClientRequests : Renews(clientReq'[s]) => clientReq'[s].token.device = c.device
    BY <1>10, <1>11, <1>14, <1>15
  <2>2. login.pc \in {"save", "keep"} =>
           /\ login.device \in DeviceIds /\ login.device # c.device
           /\ devs[login.device].latest = 1
    BY <1>1 DEF CredInv, SignInSound
  <2>3. login.pc \in {"save", "keep"} =>
           login.device \in DeviceIds' /\ devs'[login.device].latest = 1
    BY <1>4, <2>2 DEF DeviceIds
  <2> QED BY <2>1, <2>2, <2>3 DEF CredInv, SignInSound
<1>18. CalmUnlessDisturbed'
  <2>1. ASSUME Calm
        PROVE  /\ memory # NoCredentials
               /\ CalmDevice(memory, devs'[memory.device], refreshMu', expiries)
               /\ CalmRequest(q, memory, devs'[memory.device])
               /\ \A s \in ClientRequests \ {r} :
                     CalmRequest(clientReq[s], memory, devs'[memory.device])
    <3>1. /\ memory # NoCredentials /\ c = memory /\ c.generation = 1
          /\ x.latest = 1 /\ x.live
          /\ clientReq[r].then = "resend"
          /\ CalmDevice(memory, x, refreshMu, expiries)
          /\ \A s \in ClientRequests : CalmRequest(clientReq[s], memory, x)
      BY <2>1, AtRefresh DEF x
    <3>2. y.latest = 2 /\ y.live /\ ~y.ended
      BY <1>6, <3>1
    <3>3. expiries # 0
      <4>1. CalmRequest(clientReq[r], memory, x)
        BY <3>1
      <4>2. x.ended
        BY <4>1 DEF CalmRequest, ReqAt
      <4> QED BY <3>1, <4>2 DEF CalmDevice
    <3>4. refreshMu # Nobody
      BY <1>1, SessionConstants DEF Nobody
    <3>5. CalmDevice(memory, y, refreshMu, expiries)
      BY <3>1, <3>2, <3>3, <3>4 DEF CalmDevice
    <3>6. CalmRequest(q, memory, y)
      <4>1. q.token = [device |-> memory.device, generation |-> 2]
        BY <1>3, <1>11, <3>1
      <4> QED BY <1>11, <3>1, <3>2, <4>1 DEF CalmRequest
    <3>7. \A s \in ClientRequests \ {r} : CalmRequest(clientReq[s], memory, y)
      <4> TAKE s \in ClientRequests \ {r}
      <4>1. CalmRequest(clientReq[s], memory, x) /\ ~Renews(clientReq[s])
        BY <1>1, <3>1 DEF CredInv, OneRenewal
      <4>2. clientReq[s].pc = "sent" => clientReq[s].with.generation \in 1..2
        BY <3>1, <4>1 DEF CalmRequest
      <4> QED BY <3>1, <3>2, <4>1, <4>2 DEF CalmRequest, Renews
    <3> QED BY <3>1, <3>5, <3>6, <3>7 DEF y
  <2>2. CASE ~Calm
    BY <2>2 DEF CredInv, CalmUnlessDisturbed
  <2>3. CASE Calm
    BY <1>12, <2>1, <2>3, CalmGoesOn
  <2> QED BY <2>2, <2>3
<1>19. Counted'
  BY DEF CredInv, Counted
<1> QED BY <1>8, <1>9, <1>13, <1>16, <1>17, <1>18, <1>19 DEF CredInv

\* Devices under which what a renewal of c leaves in memory and in the vault is
\* not behind.
Leaves(c, E) ==
    /\ E \in Seq(Dev) /\ Len(E) <= MaxDevices
    /\ \A d \in DOMAIN E : E[d].replayed => E[d].lost
    /\ Grows(devs, E)
    /\ \A d \in DeviceIds : E[d].latest = devs[d].latest \/ d = c.device
    /\ Newest(memory, E) /\ Newest(vault, E)

LEMMA SameLeaves ==
    ASSUME CredInv, NEW c, NEW E, E \in Seq(Dev), DOMAIN E = DOMAIN devs, Len(E) = Len(devs),
           \A d \in DOMAIN E : E[d].replayed => E[d].lost,
           Grows(devs, E), \A d \in DeviceIds : E[d].latest = devs[d].latest,
           Newest(memory, devs), Newest(vault, devs)
    PROVE  Leaves(c, E)
<1>1. Held(memory, devs) /\ Held(vault, devs)
  BY DEF CredInv, CredentialsTyped
<1>2. Newest(memory, E) /\ Newest(vault, E)
  BY <1>1, NewestStays DEF Held, DeviceIds
<1> QED BY <1>2 DEF CredInv, DevicesSound, Leaves

\* The answer does not arrive, or the token is not good any more.
LEMMA NotRotated ==
    ASSUME CredInv, NEW r \in ClientRequests, ReqAt(r, "refresh"),
           devs' \in {devs, IF Rotates(clientReq[r].token)
                            THEN [Rotation(clientReq[r].token)
                                     EXCEPT ![clientReq[r].token.device].lost = TRUE]
                            ELSE Rotation(clientReq[r].token)}
    PROVE  Leaves(clientReq[r].token, devs')
<1> DEFINE c == clientReq[r].token
           E == Rotation(c)
<1>1. /\ c # NoCredentials /\ Held(c, devs) /\ Newest(c, devs)
      /\ Newest(memory, devs) /\ Newest(vault, devs)
  BY AtRefresh
<1>2. /\ E \in Seq(Dev) /\ Len(E) = Len(devs) /\ DOMAIN E = DOMAIN devs
      /\ Grows(devs, E)
      /\ \A d \in DeviceIds : E[d].replayed => E[d].lost
      /\ \A d \in DeviceIds \ {c.device} : E[d] = devs[d]
      /\ ~Rotates(c) => E[c.device].latest = devs[c.device].latest
  BY <1>1, RotationSound DEF CredInv
<1>3. c.device \in DeviceIds
  BY <1>1 DEF Held, DeviceIds
<1>4. \A d \in DeviceIds : devs[d].latest \in Nat
  <2>1. \A d \in DeviceIds : devs[d] \in Dev
    BY DEF CredInv, DevicesSound, DeviceIds
  <2> QED BY <2>1 DEF Dev
<1> HIDE DEF E, c
<1>5. CASE devs' = devs
  <2>1. Grows(devs, devs)
    BY <1>4 DEF Grows, DeviceIds
  <2>2. /\ devs \in Seq(Dev) /\ \A d \in DOMAIN devs : devs[d].replayed => devs[d].lost
    BY DEF CredInv, DevicesSound, DeviceIds
  <2>3. Leaves(c, devs)
    BY <1>1, <2>1, <2>2, SameLeaves
  <2> QED BY <1>5, <2>3 DEF c
<1>6. CASE ~Rotates(c) /\ devs' = E
  <2>1. \A d \in DeviceIds : E[d].latest = devs[d].latest
    BY <1>2, <1>6
  <2>2. Leaves(c, E)
    BY <1>1, <1>2, <2>1, SameLeaves DEF DeviceIds
  <2> QED BY <1>6, <2>2 DEF c
<1>7. CASE devs' = [E EXCEPT ![c.device].lost = TRUE]
  <2>1. /\ devs' \in Seq(Dev) /\ Len(devs') = Len(devs) /\ DOMAIN devs' = DOMAIN devs
        /\ \A d \in DeviceIds : devs'[d].replayed => devs'[d].lost
        /\ Grows(E, devs') /\ devs'[c.device].lost
        /\ \A d \in DeviceIds : devs'[d].latest = E[d].latest
    BY <1>2, <1>3, <1>7, LostSound DEF DeviceIds
  <2>2. Grows(devs, devs')
    <3>1. \A d \in DeviceIds : devs[d].latest <= devs'[d].latest
      BY <1>2, <2>1 DEF Grows, DeviceIds
    <3> QED BY <1>2, <2>1, <3>1 DEF Grows, DeviceIds
  <2>3. \A d \in DeviceIds \ {c.device} : devs'[d].latest = devs[d].latest
    BY <1>2, <2>1
  <2>4. ASSUME NEW m, Held(m, devs), Newest(m, devs) PROVE Newest(m, devs')
    <3>1. CASE m # NoCredentials /\ m.device = c.device
      BY <2>1, <3>1 DEF Newest
    <3>2. CASE m = NoCredentials \/ m.device # c.device
      <4>1. m # NoCredentials => m.device \in DeviceIds \ {c.device}
        BY <2>4, <3>2 DEF Held, DeviceIds
      <4> QED BY <2>2, <2>3, <2>4, <4>1, NewestStays
    <3> QED BY <3>1, <3>2
  <2>5. Newest(memory, devs') /\ Newest(vault, devs')
    BY <1>1, <2>4 DEF CredInv, CredentialsTyped
  <2>6. \A d \in DeviceIds : devs'[d].latest = devs[d].latest \/ d = c.device
    BY <2>3
  <2> QED BY <2>1, <2>2, <2>5, <2>6 DEF Leaves, CredInv, DevicesSound, DeviceIds, c
<1> QED BY <1>5, <1>6, <1>7 DEF c, E

LEMMA LeftBehind ==
    ASSUME CredInv, NEW r \in ClientRequests, Renews(clientReq[r]), Reject(r),
           refreshMu' = Nobody, others' \in 0..MaxOthers, Leaves(clientReq[r].token, devs'),
           UNCHANGED <<memory, vault, token, pairing, login, confirm, signOut, cleared,
                       expiries>>,
           CalmUnlessDisturbed'
    PROVE  CredInv'
<1>1. DevicesSound'
  BY DEF Leaves, DevicesSound, DeviceIds
<1> QED BY <1>1, RenewalFails DEF Leaves, Reject

LEMMA RefreshKeeps == ASSUME CredInv, NEW r \in ClientRequests, Refresh(r) PROVE CredInv'
<1> DEFINE c == clientReq[r].token
           q == [pc |-> "save", token |-> [c EXCEPT !.generation = @ + 1],
                 then |-> clientReq[r].then]
<1>1. /\ ReqAt(r, "refresh")
      /\ UNCHANGED <<memory, vault, token, pairing, login, confirm, signOut, cleared, expiries>>
  BY DEF Refresh
<1>2. \/ /\ devs' = Rotation(c) /\ Rotates(c) /\ ReqDo(r, q)
         /\ UNCHANGED <<refreshMu, refused, others>>
      \/ devs' = Rotation(c) /\ ~Rotates(c) /\ Reject(r) /\ refreshMu' = Nobody /\ UNCHANGED others
      \/ /\ Disturb /\ Reject(r) /\ refreshMu' = Nobody
         /\ devs' \in {devs, IF Rotates(c) THEN [Rotation(c) EXCEPT ![c.device].lost = TRUE]
                             ELSE Rotation(c)}
  BY DEF Refresh
<1>3. Renews(clientReq[r])
  BY <1>1, AtRefresh
<1>4. CASE /\ devs' = Rotation(c) /\ Rotates(c) /\ ReqDo(r, q)
           /\ UNCHANGED <<refreshMu, refused, others>>
  BY <1>1, <1>4, Rotated
<1>5. CASE devs' = Rotation(c) /\ ~Rotates(c) /\ Reject(r) /\ refreshMu' = Nobody /\ UNCHANGED others
  <2>1. Leaves(c, devs')
    BY <1>1, <1>5, NotRotated
  <2>2. ~Calm
    <3> SUFFICES ASSUME Calm PROVE FALSE
      OBVIOUS
    <3>1. c.generation = 1 /\ devs[c.device].latest = 1 /\ devs[c.device].live
      BY <1>1, AtRefresh
    <3> QED BY <1>5, <3>1 DEF Rotates
  <2>3. CalmUnlessDisturbed' /\ others' \in 0..MaxOthers
    BY <1>1, <1>5, <2>2 DEF CredInv, CalmUnlessDisturbed, Counted
  <2> HIDE DEF c
  <2>4. Leaves(clientReq[r].token, devs')
    BY <2>1 DEF c
  <2> QED BY <1>1, <1>3, <1>5, <2>3, <2>4, LeftBehind
<1>6. CASE /\ Disturb /\ Reject(r) /\ refreshMu' = Nobody
           /\ devs' \in {devs, IF Rotates(c) THEN [Rotation(c) EXCEPT ![c.device].lost = TRUE]
                               ELSE Rotation(c)}
  <2>1. Leaves(c, devs')
    BY <1>1, <1>6, NotRotated
  <2>2. CalmUnlessDisturbed' /\ others' \in 0..MaxOthers
    BY <1>6, DisturbedIsCounted
  <2>3. Leaves(clientReq[r].token, devs')
    BY <2>1
  <2> HIDE DEF c
  <2> QED BY <1>1, <1>3, <1>6, <2>2, <2>3, LeftBehind
<1> QED BY <1>2, <1>4, <1>5, <1>6

LEMMA SaveToVaultKeeps == ASSUME CredInv, NEW r \in ClientRequests, SaveToVault(r) PROVE CredInv'
<1> DEFINE c == clientReq[r].token
           q == [clientReq[r] EXCEPT !.pc = "keep"]
<1>1. /\ ReqAt(r, "save")
      /\ UNCHANGED <<memory, token, pairing, login, confirm, signOut, cleared, expiries>>
  BY DEF SaveToVault
<1>2. \/ /\ vault' = c /\ ReqDo(r, q) /\ UNCHANGED <<devs, refreshMu, refused, others>>
      \/ /\ Disturb /\ Reject(r) /\ refreshMu' = Nobody
         /\ devs' = [devs EXCEPT ![c.device].lost = TRUE] /\ UNCHANGED vault
  BY DEF SaveToVault
<1>3. Renews(clientReq[r]) /\ refreshMu = r /\ clientReq[r].pc = "save"
  BY <1>1 DEF ReqAt, Renews, CredInv, OneRenewal
<1>4. c # NoCredentials /\ Held(c, devs) /\ Newest(c, devs)
  BY <1>3 DEF CredInv, NothingBehind
<1>5. /\ clientReq[r] = [pc |-> "save", token |-> c, then |-> clientReq[r].then]
      /\ clientReq[r].then \in {"rest", "resend"}
  BY <1>3 DEF CredInv, OneRenewal, RequestShaped
<1> HIDE DEF c
<1>6. q = [pc |-> "keep", token |-> c, then |-> clientReq[r].then]
  BY <1>5
<1>7. q.pc = "keep" /\ q.token = c /\ q.then = clientReq[r].then
  BY <1>6
<1> HIDE DEF q
<1>8. RequestShaped(q) /\ Renews(q)
  BY <1>5, <1>6, <1>7 DEF RequestShaped, Renews
<1>9. CASE vault' = c /\ ReqDo(r, q) /\ UNCHANGED <<devs, refreshMu, refused, others>>
  <2>1. /\ clientReq'[r] = q
        /\ \A s \in ClientRequests \ {r} : clientReq'[s] = clientReq[s]
    BY <1>9, RequestMoves DEF CredInv
  <2>2. OneRenewal'
    BY <1>3, <1>8, <1>9, RenewalMoves DEF CredInv
  <2>3. \A s \in ClientRequests : Renews(clientReq'[s]) => s = r
    BY <1>3, <1>9, <2>2 DEF OneRenewal
  <2>4. NothingBehind'
    <3>1. Newest(memory', devs') \/ Renewing(memory, {"save", "keep"})'
      BY <1>1, <1>3, <1>7, <1>9, <2>1 DEF CredInv, NothingBehind, Renewing, c
    <3>2. \A s \in ClientRequests : Renews(clientReq'[s]) =>
            /\ clientReq'[s].token # NoCredentials
            /\ Held(clientReq'[s].token, devs') /\ Newest(clientReq'[s].token, devs')
      BY <1>4, <1>7, <1>9, <2>1, <2>3
    <3> QED BY <1>4, <1>9, <3>1, <3>2 DEF NothingBehind
  <2>5. SignInSound'
    <3>1. \A s \in ClientRequests :
             Renews(clientReq'[s]) => Renews(clientReq[s]) /\ clientReq'[s].token = clientReq[s].token
      BY <1>3, <1>7, <2>1, <2>3 DEF c
    <3> QED BY <1>1, <1>9, <3>1 DEF CredInv, SignInSound, DeviceIds
  <2>6. CredentialsTyped' /\ DevicesSound'
    BY <1>1, <1>4, <1>9 DEF CredInv, CredentialsTyped, DevicesSound, DeviceIds
  <2>7. PairingSound' /\ SignOutSound' /\ Dead(cleared)'
    BY <1>1, <1>9 DEF CredInv, PairingSound, SignOutSound, Dead, DeviceIds
  <2>8. Counted'
    BY <1>1, <1>9 DEF CredInv, Counted
  <2>9. ASSUME Calm
        PROVE  /\ memory # NoCredentials
               /\ CalmDevice(memory, devs[memory.device], refreshMu, expiries)
               /\ CalmRequest(q, memory, devs[memory.device])
               /\ \A s \in ClientRequests : CalmRequest(clientReq[s], memory, devs[memory.device])
    <3>1. memory # NoCredentials
      BY <1>3, <2>9 DEF Calm
    <3>2. /\ CalmDevice(memory, devs[memory.device], refreshMu, expiries)
          /\ \A s \in ClientRequests : CalmRequest(clientReq[s], memory, devs[memory.device])
      BY <2>9, <3>1 DEF Calm
    <3>3. CalmRequest(clientReq[r], memory, devs[memory.device])
      BY <3>2
    <3>4. CalmRequest(q, memory, devs[memory.device])
      BY <1>3, <1>7, <3>3 DEF CalmRequest, c
    <3> QED BY <3>1, <3>2, <3>4
  <2>10. CalmUnlessDisturbed'
    <3>1. CASE ~Calm
      BY <1>1, <1>9, <3>1 DEF CredInv, CalmUnlessDisturbed
    <3>2. CASE Calm
      BY <1>1, <1>9, <2>9, <3>2, CalmGoesOn
    <3> QED BY <3>1, <3>2
  <2> QED BY <2>2, <2>4, <2>5, <2>6, <2>7, <2>8, <2>10 DEF CredInv
<1>10. CASE /\ Disturb /\ Reject(r) /\ refreshMu' = Nobody
            /\ devs' = [devs EXCEPT ![c.device].lost = TRUE] /\ UNCHANGED vault
  <2>1. c.device \in DOMAIN devs
    BY <1>4 DEF Held
  <2>2. /\ devs' \in Seq(Dev) /\ Len(devs') = Len(devs) /\ DOMAIN devs' = DOMAIN devs
        /\ \A d \in DeviceIds : devs'[d].replayed => devs'[d].lost
        /\ Grows(devs, devs') /\ devs'[c.device].lost
        /\ \A d \in DeviceIds : devs'[d].latest = devs[d].latest
    BY <1>10, <2>1, LostSound DEF CredInv, DevicesSound, DeviceIds
  <2>3. Held(memory, devs) /\ Held(vault, devs)
    BY DEF CredInv, CredentialsTyped
  <2>4. ASSUME NEW m, Held(m, devs), Newest(m, devs) \/ m.device = c.device PROVE Newest(m, devs')
    <3>1. CASE m.device = c.device
      BY <2>2, <3>1 DEF Newest
    <3>2. CASE Newest(m, devs)
      <4>1. m # NoCredentials => m.device \in DeviceIds
        BY <2>4 DEF Held, DeviceIds
      <4> QED BY <2>2, <2>4, <3>2, <4>1, NewestStays
    <3> QED BY <2>4, <3>1, <3>2
  <2>5. /\ Newest(memory, devs) \/ memory.device = c.device
        /\ Newest(vault, devs) \/ vault.device = c.device
    BY <1>3 DEF CredInv, NothingBehind, Renewing, c
  <2>6. Newest(memory, devs') /\ Newest(vault, devs')
    BY <2>3, <2>4, <2>5
  <2>7. Leaves(c, devs')
    BY <2>2, <2>6 DEF Leaves, CredInv, DevicesSound, DeviceIds
  <2>8. CalmUnlessDisturbed' /\ others' \in 0..MaxOthers
    BY <1>10, DisturbedIsCounted
  <2> QED BY <1>1, <1>3, <1>10, <2>7, <2>8, LeftBehind DEF c
<1> QED BY <1>2, <1>9, <1>10 DEF c, q

LEMMA KeepInMemoryKeeps ==
    ASSUME CredInv, NEW r \in ClientRequests, KeepInMemory(r) PROVE CredInv'
<1> DEFINE c == clientReq[r].token
           q == [pc |-> clientReq[r].then]
<1>1. /\ ReqAt(r, "keep") /\ memory' = c /\ refreshMu' = Nobody /\ ReqDo(r, q)
      /\ UNCHANGED <<devs, vault, token, pairing, login, confirm, signOut, cleared, refused,
                     expiries, others>>
  BY DEF KeepInMemory
<1>2. Renews(clientReq[r]) /\ refreshMu = r /\ clientReq[r].pc = "keep"
  BY <1>1 DEF ReqAt, Renews, CredInv, OneRenewal
<1>3. c # NoCredentials /\ Held(c, devs) /\ Newest(c, devs)
  BY <1>2 DEF CredInv, NothingBehind
<1>4. clientReq[r].then \in {"rest", "resend"} /\ q.pc = clientReq[r].then
  BY <1>2 DEF CredInv, OneRenewal, RequestShaped
<1> HIDE DEF c, q
<1>5. RequestShaped(q) /\ ~Renews(q)
  BY <1>4 DEF RequestShaped, Renews
<1>6. OneRenewal'
  BY <1>1, <1>2, <1>5, RenewalMoves DEF CredInv
<1>7. \A s \in ClientRequests : ~Renews(clientReq'[s])
  BY <1>1, <1>6, SessionConstants DEF OneRenewal, Nobody
<1>8. /\ clientReq'[r] = q
      /\ \A s \in ClientRequests \ {r} : clientReq'[s] = clientReq[s]
  BY <1>1, RequestMoves DEF CredInv
<1>9. NothingBehind'
  <2>1. Newest(vault, devs)
    BY <1>2 DEF CredInv, NothingBehind, Renewing
  <2> QED BY <1>1, <1>3, <1>7, <2>1 DEF NothingBehind
<1>10. SignInSound'
  <2>1. login.pc \in {"save", "keep"} => c.device # login.device
    BY <1>2 DEF CredInv, SignInSound, c
  <2> QED BY <1>1, <1>7, <2>1 DEF CredInv, SignInSound, DeviceIds
<1>11. CredentialsTyped' /\ DevicesSound'
  BY <1>1, <1>3 DEF CredInv, CredentialsTyped, DevicesSound, DeviceIds
<1>12. PairingSound' /\ SignOutSound' /\ Dead(cleared)'
  BY <1>1 DEF CredInv, PairingSound, SignOutSound, Dead, DeviceIds
<1>13. Counted'
  BY <1>1 DEF CredInv, Counted
<1>14. CalmUnlessDisturbed'
  <2> SUFFICES ASSUME others = 0, expiries <= 1 PROVE Calm'
    BY <1>1 DEF CalmUnlessDisturbed
  <2>1. Calm
    BY DEF CredInv, CalmUnlessDisturbed
  <2>2. memory # NoCredentials
    BY <1>2, <2>1 DEF Calm
  <2> DEFINE x == devs[memory.device]
  <2>3. /\ CalmDevice(memory, x, refreshMu, expiries)
        /\ \A s \in ClientRequests : CalmRequest(clientReq[s], memory, x)
    BY <2>1, <2>2 DEF Calm
  <2>4. CalmRequest(clientReq[r], memory, x)
    BY <2>3
  <2> HIDE DEF x
  <2>5. /\ c = [device |-> memory.device, generation |-> 2] /\ x.latest = 2
        /\ clientReq[r].then = "resend"
    BY <1>2, <2>4 DEF CalmRequest, c
  <2>6. c.device = memory.device /\ c.generation = 2
    BY <2>5
  <2>7. CalmDevice(c, x, refreshMu', expiries)
    BY <2>3, <2>5, <2>6 DEF CalmDevice
  <2>8. ASSUME NEW s \in ClientRequests PROVE CalmRequest(clientReq'[s], c, x)
    <3>1. CASE s = r
      BY <1>4, <1>8, <2>5, <2>6, <3>1 DEF CalmRequest
    <3>2. CASE s # r
      <4>1. clientReq'[s] = clientReq[s] /\ ~Renews(clientReq[s])
        BY <1>2, <1>8, <3>2 DEF CredInv, OneRenewal
      <4>2. CalmRequest(clientReq[s], memory, x)
        BY <2>3
      <4> QED BY <2>6, <4>1, <4>2 DEF CalmRequest, Renews
    <3> QED BY <3>1, <3>2
  <2>9. devs'[memory'.device] = x
    BY <1>1, <2>6 DEF x
  <2>10. CalmDevice(memory', devs'[memory'.device], refreshMu', expiries')
    BY <1>1, <2>7, <2>9
  <2>11. \A s \in ClientRequests : CalmRequest(clientReq'[s], memory', devs'[memory'.device])
    BY <1>1, <2>8, <2>9
  <2> QED BY <1>1, <1>3, <2>1, <2>10, <2>11 DEF Calm
<1> QED BY <1>6, <1>9, <1>10, <1>11, <1>12, <1>13, <1>14 DEF CredInv

LEMMA AccessEndsKeeps == ASSUME CredInv, NEW d \in DeviceIds, AccessEnds(d) PROVE CredInv'
<1> DEFINE y == [devs[d] EXCEPT !.ended = TRUE]
<1>1. /\ expiries < MaxExpiries /\ expiries' = expiries + 1 /\ ~devs[d].ended
      /\ devs' = [devs EXCEPT ![d] = y]
      /\ UNCHANGED <<memory, vault, token, pairing, clientReq, refreshMu, login, confirm,
                     signOut, cleared, refused, others>>
  BY DEF AccessEnds
<1>2. \A e \in DeviceIds : devs[e] \in Dev /\ devs[e].latest \in Nat
  <2>1. \A e \in DeviceIds : devs[e] \in Dev
    BY DEF CredInv, DevicesSound, DeviceIds
  <2> QED BY <2>1, DevChanges
<1>3. /\ y \in Dev /\ y.latest = devs[d].latest /\ y.lost = devs[d].lost
      /\ y.live = devs[d].live /\ y.replayed = devs[d].replayed
  BY <1>2, DevChanges DEF Dev
<1> HIDE DEF y
<1>4. devs' \in Seq(Dev) /\ Len(devs') = Len(devs) /\ DOMAIN devs' = DOMAIN devs
  BY <1>1, <1>3 DEF CredInv, DevicesSound, DeviceIds
<1>5. \A e \in DeviceIds : devs'[e] = IF e = d THEN y ELSE devs[e]
  BY <1>1 DEF DeviceIds
<1>6. \A e \in DeviceIds :
         /\ devs'[e].latest = devs[e].latest /\ devs'[e].live = devs[e].live
         /\ devs'[e].lost = devs[e].lost /\ devs'[e].replayed = devs[e].replayed
  BY <1>3, <1>5
<1>7. DevicesSound'
  BY <1>4, <1>6 DEF CredInv, DevicesSound, DeviceIds
<1>8. Grows(devs, devs')
  <2>1. \A e \in DeviceIds : devs[e].latest <= devs'[e].latest
    BY <1>2, <1>6
  <2> QED BY <1>4, <1>6, <2>1 DEF Grows, DeviceIds
<1>9. CredentialsTyped' /\ PairingSound' /\ SignOutSound' /\ Dead(cleared)'
  BY <1>1, <1>7, <1>8, NamesStay
<1>10. OneRenewal'
  BY <1>1 DEF CredInv, OneRenewal
<1>11. NothingBehind'
  <2>1. ASSUME NEW m, Held(m, devs) PROVE Held(m, devs') /\ (Newest(m, devs) => Newest(m, devs'))
    <3>1. (\A e \in DOMAIN devs : devs[e].latest \in Nat) /\ (\A e \in DOMAIN devs' : devs'[e].latest \in Nat)
      BY <1>2, <1>4, <1>6 DEF DeviceIds
    <3>2. m # NoCredentials => devs'[m.device].latest = devs[m.device].latest
      BY <1>6, <2>1 DEF Held, DeviceIds
    <3>3. Held(m, devs')
      BY <1>8, <2>1, <3>1, HeldStays
    <3> QED BY <1>8, <2>1, <3>2, <3>3, NewestStays
  <2>2. Newest(memory', devs') \/ Renewing(memory, {"save", "keep"})'
    BY <1>1, <2>1 DEF CredInv, CredentialsTyped, NothingBehind, Renewing
  <2>3. Newest(vault', devs') \/ Renewing(vault, {"save"})'
    BY <1>1, <2>1 DEF CredInv, CredentialsTyped, NothingBehind, Renewing
  <2>4. \A s \in ClientRequests : Renews(clientReq'[s]) =>
          /\ clientReq'[s].token # NoCredentials
          /\ Held(clientReq'[s].token, devs') /\ Newest(clientReq'[s].token, devs')
    BY <1>1, <2>1 DEF CredInv, NothingBehind
  <2> QED BY <2>2, <2>3, <2>4 DEF NothingBehind
<1>12. SignInSound'
  <2>1. login.pc \in {"save", "keep"} =>
           login.device \in DeviceIds' /\ devs'[login.device].latest = 1
    BY <1>4, <1>6 DEF CredInv, SignInSound, DeviceIds
  <2> QED BY <1>1, <2>1 DEF CredInv, SignInSound
<1>13. expiries \in 0..MaxExpiries /\ MaxExpiries \in Nat /\ expiries' \in 1..MaxExpiries
  BY <1>1, SessionConstants DEF CredInv, Counted
<1>14. Counted'
  BY <1>1, <1>13 DEF CredInv, Counted
<1>15. CalmUnlessDisturbed'
  <2> SUFFICES ASSUME others = 0, expiries' <= 1 PROVE Calm'
    BY <1>1 DEF CalmUnlessDisturbed
  <2>1. expiries = 0 /\ expiries' = 1
    BY <1>1, <1>13
  <2>2. Calm
    BY <2>1 DEF CredInv, CalmUnlessDisturbed
  <2>3. CASE memory = NoCredentials
    BY <1>1, <2>2, <2>3 DEF Calm
  <2>4. CASE memory # NoCredentials
    <3> DEFINE x == devs[memory.device]
               z == devs'[memory.device]
    <3>1. /\ CalmDevice(memory, x, refreshMu, expiries)
          /\ \A s \in ClientRequests : CalmRequest(clientReq[s], memory, x)
      BY <2>2, <2>4 DEF Calm
    <3>2. memory.device \in DeviceIds
      BY <2>4 DEF CredInv, CredentialsTyped, Held, DeviceIds
    <3>3. z.latest = x.latest /\ z.live = x.live
      BY <1>6, <3>2
    <3> HIDE DEF x, z
    <3>4. x.latest = 1 /\ ~x.ended
      BY <2>1, <3>1 DEF CalmDevice
    <3>5. CalmDevice(memory, z, refreshMu, 1)
      BY <3>1, <3>3, <3>4 DEF CalmDevice
    <3>6. \A s \in ClientRequests : CalmRequest(clientReq[s], memory, z)
      <4> TAKE s \in ClientRequests
      <4>1. CalmRequest(clientReq[s], memory, x)
        BY <3>1
      <4> QED BY <3>3, <3>4, <4>1 DEF CalmRequest
    <3>7. CalmDevice(memory', devs'[memory'.device], refreshMu', expiries')
      BY <1>1, <2>1, <3>5 DEF z
    <3>8. \A s \in ClientRequests : CalmRequest(clientReq'[s], memory', devs'[memory'.device])
      BY <1>1, <3>6 DEF z
    <3> QED BY <1>1, <2>2, <2>4, <3>7, <3>8 DEF Calm
  <2> QED BY <2>3, <2>4
<1> QED BY <1>7, <1>9, <1>10, <1>11, <1>12, <1>14, <1>15 DEF CredInv

\* A step that can only be taken when the calm is over, or ends it.
LEMMA CalmIsOver ==
    ASSUME CredInv, UNCHANGED expiries, ~Calm \/ Disturb, UNCHANGED others \/ Disturb
    PROVE  CalmUnlessDisturbed' /\ others' \in 0..MaxOthers /\ expiries' \in 0..MaxExpiries
<1>1. expiries' \in 0..MaxExpiries
  BY DEF CredInv, Counted
<1>2. CASE Disturb
  <2>1. others' \in 0..MaxOthers /\ CalmUnlessDisturbed'
    BY <1>2, DisturbedIsCounted
  <2> QED BY <1>1, <2>1
<1>3. CASE ~Calm /\ UNCHANGED others
  BY <1>1, <1>3 DEF CredInv, CalmUnlessDisturbed, Counted
<1> QED BY <1>2, <1>3

\* What stays when neither devices nor requests move.
LEMMA RequestsRest ==
    ASSUME CredInv, UNCHANGED <<devs, clientReq, refreshMu, refused, expiries>>,
           ~Calm \/ Disturb, UNCHANGED others \/ Disturb
    PROVE  /\ DevicesSound' /\ OneRenewal' /\ Counted' /\ CalmUnlessDisturbed'
           /\ UNCHANGED cleared => Dead(cleared)'
           /\ UNCHANGED signOut => SignOutSound'
           /\ UNCHANGED confirm => PairingSound'
           /\ UNCHANGED <<memory, login>> => SignInSound'
           /\ UNCHANGED <<memory, vault>> => NothingBehind'
           /\ UNCHANGED <<memory, vault, token, pairing>> => CredentialsTyped'
<1>1. CalmUnlessDisturbed' /\ others' \in 0..MaxOthers /\ expiries' \in 0..MaxExpiries
  BY CalmIsOver
<1>2. Counted'
  BY <1>1 DEF CredInv, Counted
<1>3. DevicesSound' /\ OneRenewal'
  BY DEF CredInv, DevicesSound, OneRenewal, DeviceIds
<1>4. /\ UNCHANGED cleared => Dead(cleared)'
      /\ UNCHANGED signOut => SignOutSound'
      /\ UNCHANGED confirm => PairingSound'
  BY DEF CredInv, Dead, SignOutSound, PairingSound, DeviceIds
<1>5. UNCHANGED <<memory, login>> => SignInSound'
  BY DEF CredInv, SignInSound, DeviceIds
<1>6. UNCHANGED <<memory, vault>> => NothingBehind'
  BY DEF CredInv, NothingBehind, Renewing
<1>7. UNCHANGED <<memory, vault, token, pairing>> => CredentialsTyped'
  BY DEF CredInv, CredentialsTyped, DeviceIds
<1> QED BY <1>1, <1>2, <1>3, <1>4, <1>5, <1>6, <1>7

LEMMA BeginLoginKeeps == ASSUME CredInv, BeginLogin PROVE CredInv'
<1>1. /\ Disturb /\ login' = [pc |-> "pending", spent |-> FALSE]
      /\ UNCHANGED <<devs, memory, vault, token, pairing, clientReq, refreshMu, confirm,
                     signOut, cleared, refused, expiries>>
  BY DEF BeginLogin
<1>2. SignInSound'
  BY <1>1 DEF SignInSound
<1> QED BY <1>1, <1>2, RequestsRest DEF CredInv

\* A device more, for which nothing stands yet.
LEMMA NewDevice ==
    ASSUME CredInv, NEW kind \in {"login", "paired"}, Len(devs) < MaxDevices,
           devs' = Append(devs, Device(kind)),
           UNCHANGED <<memory, vault, token, pairing, clientReq, refreshMu, signOut, cleared>>
    PROVE  /\ DevicesSound' /\ CredentialsTyped' /\ OneRenewal' /\ NothingBehind'
           /\ SignOutSound' /\ Dead(cleared)'
           /\ UNCHANGED confirm => PairingSound'
           /\ UNCHANGED login => SignInSound'
           /\ Len(devs) + 1 \in DeviceIds' /\ Len(devs) + 1 \notin DeviceIds \cup {0}
           /\ devs'[Len(devs) + 1].latest = 1
<1> DEFINE n == Len(devs) + 1
           y == Device(kind)
<1>1. y \in Dev /\ y.latest = 1 /\ ~y.replayed
  BY DEF Device, Dev
<1> HIDE DEF y
<1>2. devs \in Seq(Dev) /\ Len(devs) \in Nat /\ DeviceIds = 1..Len(devs)
  BY NoDeviceZero DEF CredInv, DevicesSound
<1>3. /\ devs' \in Seq(Dev) /\ Len(devs') = n /\ DeviceIds' = 1..n
      /\ devs'[n] = y /\ \A d \in DeviceIds : devs'[d] = devs[d]
  <2>1. devs' = Append(devs, y)
    BY DEF y
  <2> QED BY <1>1, <1>2, <2>1 DEF DeviceIds
<1>4. n \in DeviceIds' /\ n \notin DeviceIds \cup {0} /\ DeviceIds' = DeviceIds \cup {n}
  BY <1>2, <1>3
<1> HIDE DEF n
<1>5. DevicesSound'
  <2>1. \A d \in DeviceIds' : devs'[d].replayed => devs'[d].lost
    BY <1>1, <1>3, <1>4 DEF CredInv, DevicesSound
  <2>2. Len(devs') <= MaxDevices
    BY <1>2, <1>3, SessionConstants DEF n
  <2> QED BY <1>3, <2>1, <2>2 DEF DevicesSound
<1>6. \A d \in DeviceIds : devs[d].latest \in Nat
  <2>1. \A d \in DeviceIds : devs[d] \in Dev
    BY <1>2 DEF DeviceIds
  <2> QED BY <2>1 DEF Dev
<1>7. Grows(devs, devs')
  <2>1. ASSUME NEW d \in DeviceIds
        PROVE  devs[d].latest <= devs'[d].latest /\ devs'[d] = devs[d]
    <3>1. devs'[d] = devs[d] /\ devs[d].latest \in Nat
      BY <1>3, <1>6
    <3> QED BY <3>1
  <2> QED BY <1>4, <2>1 DEF Grows, DeviceIds
<1>8. /\ CredentialsTyped' /\ SignOutSound' /\ Dead(cleared)'
      /\ UNCHANGED confirm => PairingSound'
  BY <1>5, <1>7, NamesStay
<1>9. OneRenewal'
  BY DEF CredInv, OneRenewal
<1>10. ASSUME NEW m, Held(m, devs) PROVE Held(m, devs') /\ (Newest(m, devs) => Newest(m, devs'))
  <2>1. m # NoCredentials => m.device \in DeviceIds
    BY <1>10 DEF Held, DeviceIds
  <2>2. m # NoCredentials => m.device \in DeviceIds' /\ devs'[m.device] = devs[m.device]
    BY <1>3, <1>4, <2>1
  <2> QED BY <1>10, <2>2 DEF Held, Newest, DeviceIds
<1>11. NothingBehind'
  <2>1. Newest(memory', devs') \/ Renewing(memory, {"save", "keep"})'
    BY <1>10 DEF CredInv, CredentialsTyped, NothingBehind, Renewing
  <2>2. Newest(vault', devs') \/ Renewing(vault, {"save"})'
    BY <1>10 DEF CredInv, CredentialsTyped, NothingBehind, Renewing
  <2>3. \A s \in ClientRequests : Renews(clientReq'[s]) =>
          /\ clientReq'[s].token # NoCredentials
          /\ Held(clientReq'[s].token, devs') /\ Newest(clientReq'[s].token, devs')
    BY <1>10 DEF CredInv, NothingBehind
  <2> QED BY <2>1, <2>2, <2>3 DEF NothingBehind
<1>12. UNCHANGED login => SignInSound'
  BY <1>3, <1>4 DEF CredInv, SignInSound
<1>13. n \in DeviceIds' /\ n \notin DeviceIds \cup {0} /\ devs'[n].latest = 1
  BY <1>1, <1>3, <1>4
<1> QED BY <1>5, <1>8, <1>9, <1>11, <1>12, <1>13 DEF n

LEMMA CompleteLoginKeeps == ASSUME CredInv, CompleteLogin PROVE CredInv'
<1> DEFINE n == Len(devs) + 1
<1>1. /\ login.pc = "pending" /\ Len(devs) < MaxDevices /\ devs' = Append(devs, Device("login"))
      /\ \/ login' = [pc |-> "save", device |-> n] /\ UNCHANGED others
         \/ Disturb /\ login' = [login EXCEPT !.spent = TRUE]
      /\ UNCHANGED <<memory, vault, token, pairing, clientReq, refreshMu, confirm, signOut,
                     cleared, refused, expiries>>
  BY DEF CompleteLogin
<1>2. /\ DevicesSound' /\ CredentialsTyped' /\ OneRenewal' /\ NothingBehind'
      /\ SignOutSound' /\ Dead(cleared)' /\ PairingSound'
      /\ n \in DeviceIds' /\ n \notin DeviceIds \cup {0} /\ devs'[n].latest = 1
  BY <1>1, NewDevice
<1> HIDE DEF n
<1>3. SignInSound'
  <2>1. CASE login' = [pc |-> "save", device |-> n]
    <3>1. memory.device # n
      <4>1. memory.device \in DeviceIds \cup {0}
        BY DEF CredInv, CredentialsTyped, Held, NoCredentials, DeviceIds
      <4> QED BY <1>2, <4>1
    <3>2. \A s \in ClientRequests : Renews(clientReq[s]) => clientReq[s].token.device # n
      <4>1. \A s \in ClientRequests : Renews(clientReq[s]) => clientReq[s].token.device \in DeviceIds
        BY DEF CredInv, NothingBehind, Held, DeviceIds
      <4> QED BY <1>2, <4>1
    <3> QED BY <1>1, <1>2, <2>1, <3>1, <3>2 DEF SignInSound
  <2>2. CASE login' = [login EXCEPT !.spent = TRUE]
    <3>1. login = [pc |-> "pending", spent |-> login.spent]
      BY <1>1 DEF CredInv, SignInSound
    <3>2. login' = [pc |-> "pending", spent |-> TRUE]
      <4>1. PICK b : login = [pc |-> "pending", spent |-> b]
        BY <3>1
      <4>2. login' = [[pc |-> "pending", spent |-> b] EXCEPT !.spent = TRUE]
        BY <2>2, <4>1
      <4> QED BY <4>2
    <3> QED BY <3>2 DEF SignInSound
  <2> QED BY <1>1, <2>1, <2>2
<1>4. ~Calm
  BY <1>1 DEF Calm, AtRest
<1>5. CalmUnlessDisturbed' /\ others' \in 0..MaxOthers /\ expiries' \in 0..MaxExpiries
  BY <1>1, <1>4, CalmIsOver
<1>6. Counted'
  BY <1>1, <1>5 DEF CredInv, Counted
<1> QED BY <1>2, <1>3, <1>5, <1>6 DEF CredInv

LEMMA ConfirmPairingKeeps == ASSUME CredInv, ConfirmPairing PROVE CredInv'
<1> DEFINE n == Len(devs) + 1
<1>1. /\ Len(devs) < MaxDevices /\ Disturb /\ devs' = Append(devs, Device("paired"))
      /\ confirm' = [pc |-> "token", device |-> n]
      /\ UNCHANGED <<memory, vault, token, pairing, clientReq, refreshMu, login, signOut,
                     cleared, refused, expiries>>
  BY DEF ConfirmPairing
<1>2. /\ DevicesSound' /\ CredentialsTyped' /\ OneRenewal' /\ NothingBehind'
      /\ SignOutSound' /\ Dead(cleared)' /\ SignInSound'
      /\ n \in DeviceIds'
  BY <1>1, NewDevice
<1> HIDE DEF n
<1>3. PairingSound'
  BY <1>1, <1>2 DEF PairingSound
<1>4. CalmUnlessDisturbed' /\ others' \in 0..MaxOthers /\ expiries' \in 0..MaxExpiries
  BY <1>1, CalmIsOver
<1>5. Counted'
  BY <1>1, <1>4 DEF CredInv, Counted
<1> QED BY <1>2, <1>3, <1>4, <1>5 DEF CredInv

\* The credentials of a device nobody has renewed.
LEMMA FirstIsNewest ==
    ASSUME NEW d \in DeviceIds, devs[d].latest = 1
    PROVE  Held(First(d), devs) /\ Newest(First(d), devs) /\ First(d).device = d
<1>1. /\ First(d) = [device |-> d, generation |-> 1]
      /\ First(d).device = d /\ First(d).generation = 1
  BY DEF First
<1> QED BY <1>1 DEF Held, Newest, DeviceIds

LEMMA SaveLoginKeeps == ASSUME CredInv, SaveLogin PROVE CredInv'
<1>1. /\ login.pc = "save"
      /\ \/ vault' = First(login.device) /\ login' = [login EXCEPT !.pc = "keep"] /\ UNCHANGED others
         \/ Disturb /\ login' = AtRest /\ UNCHANGED vault
      /\ UNCHANGED <<devs, memory, token, pairing, clientReq, refreshMu, confirm, signOut,
                     cleared, refused, expiries>>
  BY DEF SaveLogin
<1>2. ~Calm
  BY <1>1 DEF Calm, AtRest
<1>3. /\ DevicesSound' /\ OneRenewal' /\ Counted' /\ CalmUnlessDisturbed'
      /\ Dead(cleared)' /\ SignOutSound' /\ PairingSound'
  BY <1>1, <1>2, RequestsRest
<1>4. /\ login = [pc |-> "save", device |-> login.device]
      /\ login.device \in DeviceIds /\ devs[login.device].latest = 1
      /\ memory.device # login.device
      /\ \A s \in ClientRequests : Renews(clientReq[s]) => clientReq[s].token.device # login.device
  BY <1>1 DEF CredInv, SignInSound
<1>5. CASE vault' = First(login.device) /\ login' = [login EXCEPT !.pc = "keep"]
  <2>1. Held(vault', devs) /\ Newest(vault', devs)
    BY <1>4, <1>5, FirstIsNewest
  <2>2. login' = [pc |-> "keep", device |-> login.device]
    BY <1>4, <1>5
  <2>3. SignInSound'
    BY <1>1, <1>4, <2>2 DEF SignInSound, DeviceIds
  <2>4. NothingBehind'
    BY <1>1, <2>1 DEF CredInv, NothingBehind, Renewing
  <2>5. CredentialsTyped'
    BY <1>1, <2>1 DEF CredInv, CredentialsTyped, DeviceIds
  <2> QED BY <1>3, <2>3, <2>4, <2>5 DEF CredInv
<1>6. CASE login' = AtRest /\ UNCHANGED vault
  <2>1. SignInSound'
    BY <1>6 DEF SignInSound, AtRest
  <2>2. NothingBehind' /\ CredentialsTyped'
    BY <1>1, <1>2, <1>6, RequestsRest
  <2> QED BY <1>3, <2>1, <2>2 DEF CredInv
<1> QED BY <1>1, <1>5, <1>6

LEMMA KeepLoginKeeps == ASSUME CredInv, KeepLogin PROVE CredInv'
<1>1. /\ login.pc = "keep" /\ memory' = First(login.device) /\ login' = AtRest
      /\ \/ token' = [memory |-> login.device, vault |-> login.device] /\ UNCHANGED others
         \/ Disturb /\ UNCHANGED token
      /\ UNCHANGED <<devs, vault, pairing, clientReq, refreshMu, confirm, signOut, cleared,
                     refused, expiries>>
  BY DEF KeepLogin
<1>2. ~Calm
  BY <1>1 DEF Calm, AtRest
<1>3. /\ DevicesSound' /\ OneRenewal' /\ Counted' /\ CalmUnlessDisturbed'
      /\ Dead(cleared)' /\ SignOutSound' /\ PairingSound'
  BY <1>1, <1>2, RequestsRest
<1>4. login.device \in DeviceIds /\ devs[login.device].latest = 1
  BY <1>1 DEF CredInv, SignInSound
<1>5. Held(memory', devs) /\ Newest(memory', devs)
  BY <1>1, <1>4, FirstIsNewest
<1>6. SignInSound'
  BY <1>1 DEF SignInSound, AtRest
<1>7. NothingBehind'
  BY <1>1, <1>5 DEF CredInv, NothingBehind, Renewing
<1>8. CredentialsTyped'
  BY <1>1, <1>4, <1>5 DEF CredInv, CredentialsTyped, DeviceIds
<1> QED BY <1>3, <1>6, <1>7, <1>8 DEF CredInv

LEMMA SaveTokenKeeps == ASSUME CredInv, SaveToken PROVE CredInv'
<1>1. /\ confirm.pc = "token"
      /\ \/ /\ token' = [memory |-> confirm.device, vault |-> confirm.device]
            /\ confirm' = [confirm EXCEPT !.pc = "pairing"] /\ UNCHANGED others
         \/ Disturb /\ confirm' = AtRest /\ UNCHANGED token
      /\ UNCHANGED <<devs, memory, vault, pairing, clientReq, refreshMu, login, signOut, cleared,
                     refused, expiries>>
  BY DEF SaveToken
<1>2. ~Calm
  BY <1>1 DEF Calm, AtRest
<1>3. /\ DevicesSound' /\ OneRenewal' /\ Counted' /\ CalmUnlessDisturbed'
      /\ Dead(cleared)' /\ SignOutSound' /\ SignInSound' /\ NothingBehind'
  BY <1>1, <1>2, RequestsRest
<1>4. confirm = [pc |-> "token", device |-> confirm.device] /\ confirm.device \in DeviceIds
  BY <1>1 DEF CredInv, PairingSound
<1>5. CredentialsTyped'
  BY <1>1, <1>4 DEF CredInv, CredentialsTyped, DeviceIds
<1>6. PairingSound'
  <2>1. CASE confirm' = AtRest
    BY <2>1 DEF PairingSound, AtRest
  <2>2. CASE confirm' = [confirm EXCEPT !.pc = "pairing"]
    <3>1. confirm' = [pc |-> "pairing", device |-> confirm.device]
      BY <1>4, <2>2
    <3> QED BY <1>1, <1>4, <3>1 DEF PairingSound, DeviceIds
  <2> QED BY <1>1, <2>1, <2>2
<1> QED BY <1>3, <1>5, <1>6 DEF CredInv

LEMMA SavePairingKeeps == ASSUME CredInv, SavePairing PROVE CredInv'
<1>1. /\ confirm.pc = "pairing" /\ confirm' = AtRest
      /\ \/ pairing' = [memory |-> confirm.device, stored |-> confirm.device] /\ UNCHANGED others
         \/ Disturb /\ UNCHANGED pairing
      /\ UNCHANGED <<devs, memory, vault, token, clientReq, refreshMu, login, signOut, cleared,
                     refused, expiries>>
  BY DEF SavePairing
<1>2. ~Calm
  BY <1>1 DEF Calm, AtRest
<1>3. /\ DevicesSound' /\ OneRenewal' /\ Counted' /\ CalmUnlessDisturbed'
      /\ Dead(cleared)' /\ SignOutSound' /\ SignInSound' /\ NothingBehind'
  BY <1>1, <1>2, RequestsRest
<1>4. confirm.device \in DeviceIds
  BY <1>1 DEF CredInv, PairingSound
<1>5. CredentialsTyped'
  BY <1>1, <1>4 DEF CredInv, CredentialsTyped, DeviceIds
<1>6. PairingSound'
  BY <1>1 DEF PairingSound, AtRest
<1> QED BY <1>3, <1>5, <1>6 DEF CredInv

LEMMA ClearKeeps == ASSUME CredInv, Clear PROVE CredInv'
<1>1. /\ Disturb
      /\ \/ /\ pairing.memory # 0
            /\ signOut' = [pc |-> "revoke", device |-> pairing.memory, token |-> token.memory,
                           with |-> memory]
         \/ signOut' = [pc |-> "wipe", known |-> {}]
      /\ UNCHANGED <<devs, memory, vault, token, pairing, clientReq, refreshMu, login, confirm,
                     cleared, refused, expiries>>
  BY DEF Clear
<1>2. /\ DevicesSound' /\ OneRenewal' /\ Counted' /\ CalmUnlessDisturbed' /\ Dead(cleared)'
      /\ PairingSound' /\ SignInSound' /\ NothingBehind' /\ CredentialsTyped'
  BY <1>1, RequestsRest
<1>3. SignOutSound'
  <2>1. CASE signOut' = [pc |-> "wipe", known |-> {}]
    BY <2>1 DEF SignOutSound, Dead
  <2>2. CASE /\ pairing.memory # 0
             /\ signOut' = [pc |-> "revoke", device |-> pairing.memory, token |-> token.memory,
                            with |-> memory]
    <3>1. pairing.memory \in DeviceIds /\ Held(memory, devs)
      BY <2>2 DEF CredInv, CredentialsTyped
    <3>2. signOut'.pc = "revoke" /\ signOut'.device = pairing.memory /\ signOut'.with = memory
      BY <2>2
    <3> QED BY <1>1, <3>1, <3>2 DEF SignOutSound, DeviceIds
  <2> QED BY <1>1, <2>1, <2>2
<1> QED BY <1>2, <1>3 DEF CredInv

LEMMA RevokeRemoteKeeps == ASSUME CredInv, RevokeRemote PROVE CredInv'
<1> DEFINE E == [d \in DeviceIds |-> IF d \in Revocable THEN [devs[d] EXCEPT !.live = FALSE]
                                     ELSE devs[d]]
<1>1. /\ signOut.pc = "revoke" /\ devs' = E
      /\ \/ /\ signOut' = IF Revocable # {} THEN [pc |-> "wipe", known |-> Revocable] ELSE AtRest
            /\ UNCHANGED others
         \/ Disturb /\ signOut' = AtRest
      /\ UNCHANGED <<memory, vault, token, pairing, clientReq, refreshMu, login, confirm, cleared,
                     refused, expiries>>
  BY DEF RevokeRemote
<1>2. Revocable \subseteq DeviceIds
  BY <1>1 DEF CredInv, SignOutSound, Held, Revocable, DeviceIds
<1>3. /\ devs \in Seq(Dev) /\ DeviceIds = 1..Len(devs) /\ Len(devs) \in Nat
      /\ \A d \in DeviceIds : devs[d] \in Dev /\ devs[d].latest \in Nat
  <2>1. devs \in Seq(Dev) /\ DeviceIds = 1..Len(devs) /\ Len(devs) \in Nat
    BY NoDeviceZero DEF CredInv, DevicesSound
  <2>2. \A d \in DeviceIds : devs[d] \in Dev
    BY <2>1
  <2> QED BY <2>1, <2>2, DevChanges
<1>4. ASSUME NEW d \in DeviceIds
      PROVE  /\ E[d] \in Dev /\ E[d].latest = devs[d].latest /\ E[d].lost = devs[d].lost
             /\ E[d].replayed = devs[d].replayed /\ (E[d].live => devs[d].live)
             /\ d \in Revocable => ~E[d].live
  <2> DEFINE x == devs[d]
             y == [x EXCEPT !.live = FALSE]
  <2>1. x \in Dev
    BY <1>3
  <2>2. /\ y \in Dev /\ y.latest = x.latest /\ y.lost = x.lost /\ y.replayed = x.replayed
        /\ y.live = FALSE
    BY <2>1, DevChanges DEF Dev
  <2>3. E[d] = IF d \in Revocable THEN y ELSE x
    OBVIOUS
  <2> HIDE DEF x, y, E
  <2>4. x.live \in BOOLEAN
    BY <2>1 DEF Dev
  <2> QED BY <2>1, <2>2, <2>3, <2>4 DEF x
<1>5. E \in Seq(Dev) /\ Len(E) = Len(devs) /\ DOMAIN E = DeviceIds
  <2>1. DOMAIN E = 1..Len(devs) /\ E = [d \in 1..Len(devs) |-> E[d]]
    BY <1>3
  <2>2. \A d \in 1..Len(devs) : E[d] \in Dev
    BY <1>3, <1>4
  <2> HIDE DEF E
  <2> QED BY <1>3, <2>1, <2>2
<1> HIDE DEF E
<1>6. DevicesSound'
  BY <1>1, <1>4, <1>5 DEF CredInv, DevicesSound, DeviceIds
<1>7. Grows(devs, devs')
  <2>1. \A d \in DeviceIds : devs[d].latest <= E[d].latest
    BY <1>3, <1>4
  <2> QED BY <1>1, <1>4, <1>5, <2>1 DEF Grows, DeviceIds
<1>8. OneRenewal'
  BY <1>1 DEF CredInv, OneRenewal
<1>9. ASSUME NEW m, Held(m, devs) PROVE Held(m, devs') /\ (Newest(m, devs) => Newest(m, devs'))
  <2>1. m # NoCredentials => m.device \in DeviceIds
    BY <1>9 DEF Held, DeviceIds
  <2>2. m # NoCredentials => /\ m.device \in DOMAIN devs'
                             /\ devs'[m.device].latest = devs[m.device].latest
                             /\ devs'[m.device].lost = devs[m.device].lost
    BY <1>1, <1>4, <1>5, <2>1
  <2> QED BY <1>9, <2>2 DEF Held, Newest
<1>10. NothingBehind'
  <2>1. Newest(memory', devs') \/ Renewing(memory, {"save", "keep"})'
    BY <1>1, <1>9 DEF CredInv, CredentialsTyped, NothingBehind, Renewing
  <2>2. Newest(vault', devs') \/ Renewing(vault, {"save"})'
    BY <1>1, <1>9 DEF CredInv, CredentialsTyped, NothingBehind, Renewing
  <2>3. \A s \in ClientRequests : Renews(clientReq'[s]) =>
          /\ clientReq'[s].token # NoCredentials
          /\ Held(clientReq'[s].token, devs') /\ Newest(clientReq'[s].token, devs')
    BY <1>1, <1>9 DEF CredInv, NothingBehind
  <2> QED BY <2>1, <2>2, <2>3 DEF NothingBehind
<1>11. DeviceIds' = DeviceIds
  BY <1>1, <1>5 DEF DeviceIds
<1>12. SignInSound'
  <2>1. login.pc \in {"save", "keep"} =>
           login.device \in DeviceIds' /\ devs'[login.device].latest = 1
    BY <1>1, <1>4, <1>11 DEF CredInv, SignInSound
  <2> QED BY <1>1, <2>1 DEF CredInv, SignInSound
<1>13. CredentialsTyped'
  BY <1>1, <1>9, <1>11 DEF CredInv, CredentialsTyped
<1>14. PairingSound'
  BY <1>1, <1>11 DEF CredInv, PairingSound
<1>15. Dead(cleared)'
  BY <1>1, <1>4, <1>11 DEF CredInv, Dead
<1>16. SignOutSound'
  <2>1. CASE signOut' = AtRest
    BY <2>1 DEF SignOutSound, AtRest
  <2>2. CASE signOut' = [pc |-> "wipe", known |-> Revocable]
    <3>1. Revocable \subseteq DeviceIds' /\ \A d \in Revocable : ~devs'[d].live
      BY <1>1, <1>2, <1>4, <1>11
    <3> DEFINE R == Revocable
    <3>2. signOut' = [pc |-> "wipe", known |-> R]
      BY <2>2
    <3>3. R \subseteq DeviceIds' /\ \A d \in R : ~devs'[d].live
      BY <3>1
    <3> HIDE DEF R
    <3> QED BY <3>2, <3>3 DEF SignOutSound, Dead
  <2> QED BY <1>1, <2>1, <2>2
<1>17. ~Calm
  BY <1>1 DEF Calm, AtRest
<1>18. CalmUnlessDisturbed' /\ others' \in 0..MaxOthers /\ expiries' \in 0..MaxExpiries
  BY <1>1, <1>17, CalmIsOver
<1>19. Counted'
  BY <1>1, <1>18 DEF CredInv, Counted
<1> QED
  BY <1>6, <1>8, <1>10, <1>12, <1>13, <1>14, <1>15, <1>16, <1>18, <1>19 DEF CredInv

LEMMA NothingIsNewest == Held(NoCredentials, devs) /\ Newest(NoCredentials, devs)
BY DEF Held, Newest

LEMMA WipeMemoryKeeps == ASSUME CredInv, WipeMemory PROVE CredInv'
<1>1. /\ signOut.pc = "wipe" /\ token' = [token EXCEPT !.memory = 0] /\ memory' = NoCredentials
      /\ signOut' = [signOut EXCEPT !.pc = "delete"]
      /\ UNCHANGED <<devs, vault, pairing, clientReq, refreshMu, login, confirm, cleared,
                     refused, expiries, others>>
  BY DEF WipeMemory
<1>2. ~Calm
  BY <1>1 DEF Calm, AtRest
<1>3. /\ DevicesSound' /\ OneRenewal' /\ Counted' /\ CalmUnlessDisturbed'
      /\ Dead(cleared)' /\ PairingSound'
  BY <1>1, <1>2, RequestsRest
<1>4. Held(memory', devs) /\ Newest(memory', devs) /\ memory'.device = 0
  BY <1>1, NothingIsNewest DEF NoCredentials
<1>5. NothingBehind'
  BY <1>1, <1>4 DEF CredInv, NothingBehind, Renewing
<1>6. CredentialsTyped'
  <2>1. token' = [memory |-> 0, vault |-> token.vault]
    BY <1>1 DEF CredInv, CredentialsTyped
  <2> QED BY <1>1, <1>4, <2>1 DEF CredInv, CredentialsTyped, DeviceIds
<1>7. SignInSound'
  <2>1. 0 \notin DeviceIds
    BY NoDeviceZero DEF CredInv
  <2> QED BY <1>1, <1>4, <2>1 DEF CredInv, SignInSound, DeviceIds
<1>8. SignOutSound'
  <2>1. signOut = [pc |-> "wipe", known |-> signOut.known] /\ Dead(signOut.known)
    BY <1>1 DEF CredInv, SignOutSound
  <2>2. signOut' = [pc |-> "delete", known |-> signOut.known]
    BY <1>1, <2>1
  <2> QED BY <1>1, <2>1, <2>2 DEF SignOutSound, Dead, DeviceIds
<1> QED BY <1>3, <1>5, <1>6, <1>7, <1>8 DEF CredInv

LEMMA DeleteSecretsKeeps == ASSUME CredInv, DeleteSecrets PROVE CredInv'
<1>1. /\ signOut.pc = "delete"
      /\ \/ /\ vault' = NoCredentials /\ token' = [token EXCEPT !.vault = 0]
            /\ signOut' = [signOut EXCEPT !.pc = "forget"] /\ UNCHANGED others
         \/ /\ Disturb /\ signOut' = AtRest
            /\ vault' \in {vault, NoCredentials} /\ UNCHANGED token
      /\ UNCHANGED <<devs, memory, pairing, clientReq, refreshMu, login, confirm, cleared,
                     refused, expiries>>
  BY DEF DeleteSecrets
<1>2. ~Calm
  BY <1>1 DEF Calm, AtRest
<1>3. /\ DevicesSound' /\ OneRenewal' /\ Counted' /\ CalmUnlessDisturbed'
      /\ Dead(cleared)' /\ PairingSound' /\ SignInSound'
  BY <1>1, <1>2, RequestsRest
<1>4. vault' = vault \/ vault' = NoCredentials
  BY <1>1
<1>5. NothingBehind'
  BY <1>1, <1>4, NothingIsNewest DEF CredInv, NothingBehind, Renewing
<1>6. CredentialsTyped'
  <2>1. Held(vault', devs)
    BY <1>4, NothingIsNewest DEF CredInv, CredentialsTyped
  <2>2. /\ token' = [memory |-> token'.memory, vault |-> token'.vault]
        /\ token'.memory \in {0} \cup DeviceIds /\ token'.vault \in {0} \cup DeviceIds
    <3>1. CASE token' = [token EXCEPT !.vault = 0]
      <4>1. token' = [memory |-> token.memory, vault |-> 0]
        BY <3>1 DEF CredInv, CredentialsTyped
      <4> QED BY <4>1 DEF CredInv, CredentialsTyped
    <3>2. CASE UNCHANGED token
      BY <3>2 DEF CredInv, CredentialsTyped
    <3> QED BY <1>1, <3>1, <3>2
  <2> QED BY <1>1, <2>1, <2>2 DEF CredInv, CredentialsTyped, DeviceIds
<1>7. SignOutSound'
  <2>1. signOut = [pc |-> "delete", known |-> signOut.known] /\ Dead(signOut.known)
    BY <1>1 DEF CredInv, SignOutSound
  <2>2. CASE signOut' = AtRest
    BY <2>2 DEF SignOutSound, AtRest
  <2>3. CASE signOut' = [signOut EXCEPT !.pc = "forget"]
    <3>1. signOut' = [pc |-> "forget", known |-> signOut.known]
      BY <2>1, <2>3
    <3> QED BY <1>1, <2>1, <3>1 DEF SignOutSound, Dead, DeviceIds
  <2> QED BY <1>1, <2>2, <2>3
<1> QED BY <1>3, <1>5, <1>6, <1>7 DEF CredInv

LEMMA ForgetPairingKeeps == ASSUME CredInv, ForgetPairing PROVE CredInv'
<1>1. /\ signOut.pc = "forget" /\ pairing' = [memory |-> 0, stored |-> 0]
      /\ cleared' = cleared \cup signOut.known /\ signOut' = AtRest
      /\ UNCHANGED <<devs, memory, vault, token, clientReq, refreshMu, login, confirm, refused,
                     expiries, others>>
  BY DEF ForgetPairing
<1>2. ~Calm
  BY <1>1 DEF Calm, AtRest
<1>3. /\ DevicesSound' /\ OneRenewal' /\ Counted' /\ CalmUnlessDisturbed'
      /\ PairingSound' /\ SignInSound' /\ NothingBehind'
  BY <1>1, <1>2, RequestsRest
<1>4. Dead(signOut.known) /\ Dead(cleared)
  BY <1>1 DEF CredInv, SignOutSound
<1>5. Dead(cleared)'
  BY <1>1, <1>4 DEF Dead, DeviceIds
<1>6. SignOutSound'
  BY <1>1 DEF SignOutSound, AtRest
<1>7. CredentialsTyped'
  BY <1>1 DEF CredInv, CredentialsTyped, DeviceIds
<1> QED BY <1>3, <1>5, <1>6, <1>7 DEF CredInv

LEMMA RestartAppKeeps == ASSUME CredInv, RestartApp PROVE CredInv'
<1> DEFINE Lost(d) == devs[d].lost \/ \E r \in ClientRequests :
                         ReqAt(r, "save") /\ clientReq[r].token.device = d
           E == [d \in DeviceIds |-> [devs[d] EXCEPT !.lost = Lost(d)]]
<1>1. /\ Disturb /\ memory' = vault /\ token' = [token EXCEPT !.memory = token.vault]
      /\ pairing' = [pairing EXCEPT !.memory = pairing.stored]
      /\ clientReq' = [r \in ClientRequests |-> AtRest] /\ refreshMu' = Nobody
      /\ login' = AtRest /\ confirm' = AtRest /\ signOut' = AtRest
      /\ devs' = E
      /\ UNCHANGED <<vault, cleared, refused, expiries>>
  BY DEF RestartApp
<1>2. /\ devs \in Seq(Dev) /\ DeviceIds = 1..Len(devs) /\ Len(devs) \in Nat
      /\ \A d \in DeviceIds : devs[d] \in Dev /\ devs[d].latest \in Nat
  <2>1. devs \in Seq(Dev) /\ DeviceIds = 1..Len(devs) /\ Len(devs) \in Nat
    BY NoDeviceZero DEF CredInv, DevicesSound
  <2>2. \A d \in DeviceIds : devs[d] \in Dev
    BY <2>1
  <2> QED BY <2>1, <2>2, DevChanges
<1>3. ASSUME NEW d \in DeviceIds
      PROVE  /\ E[d] \in Dev /\ E[d].latest = devs[d].latest /\ (E[d].lost <=> Lost(d))
             /\ E[d].replayed = devs[d].replayed /\ E[d].live = devs[d].live
  <2> DEFINE x == devs[d]
             b == Lost(d)
             y == [x EXCEPT !.lost = b]
  <2>1. x \in Dev
    BY <1>2
  <2>2. b \in BOOLEAN
    <3>1. devs[d].lost \in BOOLEAN
      BY <2>1 DEF Dev
    <3> QED BY <3>1
  <2>3. E[d] = y
    OBVIOUS
  <2> HIDE DEF x, b, E
  <2>4. y \in Dev /\ y.latest = x.latest /\ y.lost = b /\ y.replayed = x.replayed /\ y.live = x.live
    BY <2>1, <2>2 DEF Dev
  <2> QED BY <2>3, <2>4 DEF x, b
<1>4. E \in Seq(Dev) /\ Len(E) = Len(devs) /\ DOMAIN E = DeviceIds
  <2>1. DOMAIN E = 1..Len(devs) /\ E = [d \in 1..Len(devs) |-> E[d]]
    BY <1>2
  <2>2. \A d \in 1..Len(devs) : E[d] \in Dev
    BY <1>2, <1>3
  <2> HIDE DEF E
  <2> QED BY <1>2, <2>1, <2>2
<1> HIDE DEF E
<1>5. DeviceIds' = DeviceIds
  BY <1>1, <1>4 DEF DeviceIds
<1>6. \A d \in DeviceIds : devs[d].lost => Lost(d)
  OBVIOUS
<1>7. DevicesSound'
  BY <1>1, <1>3, <1>4, <1>5, <1>6 DEF CredInv, DevicesSound
<1>8. ASSUME NEW m, Held(m, devs) PROVE Held(m, devs') /\ (Newest(m, devs) => Newest(m, devs'))
  <2>1. m # NoCredentials => m.device \in DeviceIds
    BY <1>8 DEF Held, DeviceIds
  <2>2. m # NoCredentials => /\ m.device \in DOMAIN devs'
                             /\ devs'[m.device].latest = devs[m.device].latest
                             /\ devs[m.device].lost => devs'[m.device].lost
    BY <1>1, <1>3, <1>4, <1>6, <2>1
  <2> QED BY <1>8, <2>2 DEF Held, Newest
<1>9. Held(vault, devs)
  BY DEF CredInv, CredentialsTyped
<1>10. Newest(vault, devs')
  <2>1. CASE Newest(vault, devs)
    BY <1>8, <1>9, <2>1
  <2>2. CASE Renewing(vault, {"save"}) /\ vault # NoCredentials
    <3>1. vault.device \in DeviceIds
      BY <1>9, <2>2 DEF Held, DeviceIds
    <3>2. Lost(vault.device)
      BY <2>2 DEF Renewing, ReqAt
    <3> QED BY <1>1, <1>3, <3>1, <3>2 DEF Newest
  <2>3. CASE vault = NoCredentials
    BY <2>3 DEF Newest
  <2> QED BY <2>1, <2>2, <2>3 DEF CredInv, NothingBehind
<1>11. /\ OneRenewal' /\ \A s \in ClientRequests : ~Renews(clientReq'[s])
  <2>1. RequestShaped(AtRest) /\ ~Renews(AtRest)
    BY DEF RequestShaped, Renews, AtRest
  <2> QED BY <1>1, <2>1, SessionConstants DEF OneRenewal, Nobody
<1>12. NothingBehind'
  BY <1>1, <1>10, <1>11 DEF NothingBehind
<1>13. CredentialsTyped'
  <2>1. Held(memory', devs') /\ Held(vault', devs')
    BY <1>1, <1>8, <1>9
  <2>2. /\ token' = [memory |-> token.vault, vault |-> token.vault]
        /\ pairing' = [memory |-> pairing.stored, stored |-> pairing.stored]
    BY <1>1 DEF CredInv, CredentialsTyped
  <2> QED BY <1>5, <2>1, <2>2 DEF CredInv, CredentialsTyped
<1>14. SignInSound' /\ PairingSound' /\ SignOutSound'
  BY <1>1 DEF SignInSound, PairingSound, SignOutSound, AtRest
<1>15. Dead(cleared)'
  BY <1>1, <1>3, <1>5 DEF CredInv, Dead
<1>16. CalmUnlessDisturbed' /\ others' \in 0..MaxOthers /\ expiries' \in 0..MaxExpiries
  BY <1>1, CalmIsOver
<1>17. Counted'
  BY <1>1, <1>16 DEF CredInv, Counted
<1> QED BY <1>7, <1>11, <1>12, <1>13, <1>14, <1>15, <1>16, <1>17 DEF CredInv

LEMMA InitCredentials == ASSUME SessionInit PROVE CredInv
<1>1. \A kind \in {"login", "paired"} :
         LET y == Device(kind) IN
         y \in Dev /\ y.latest = 1 /\ y.live /\ ~y.ended /\ ~y.replayed /\ ~y.lost
  BY DEF Device, Dev
<1>2. /\ devs \in Seq(Dev) /\ Len(devs) \in Nat /\ Len(devs) <= 2 /\ DeviceIds = 1..Len(devs)
      /\ \A d \in DeviceIds : /\ devs[d].latest = 1 /\ devs[d].live
                              /\ ~devs[d].ended /\ ~devs[d].replayed
  <2> DEFINE a == Device("login")
             b == Device("paired")
  <2>1. devs = << >> \/ devs = <<a>> \/ devs = <<b>> \/ devs = <<a, b>>
    BY DEF SessionInit
  <2>2. \A y \in {a, b} : y \in Dev /\ y.latest = 1 /\ y.live /\ ~y.ended /\ ~y.replayed
    BY <1>1
  <2> HIDE DEF a, b
  <2>3. CASE devs = << >>
    BY <2>3 DEF DeviceIds
  <2>4. CASE devs = <<a>>
    BY <2>2, <2>4 DEF DeviceIds
  <2>5. CASE devs = <<b>>
    BY <2>2, <2>5 DEF DeviceIds
  <2>6. CASE devs = <<a, b>>
    BY <2>2, <2>6 DEF DeviceIds
  <2> QED BY <2>1, <2>3, <2>4, <2>5, <2>6
<1>3. /\ memory = NoCredentials \/ \E d \in DeviceIds : memory = First(d)
      /\ token = [memory |-> Len(devs), vault |-> Len(devs)]
      /\ \E d \in {0} \cup DeviceIds : pairing = [memory |-> d, stored |-> d]
      /\ vault = memory /\ clientReq = [r \in ClientRequests |-> AtRest] /\ refreshMu = Nobody
      /\ login = AtRest /\ confirm = AtRest /\ signOut = AtRest
      /\ cleared = {} /\ refused = FALSE /\ expiries = 0 /\ others = 0
  <2> DEFINE of(kind) == {d \in DeviceIds : devs[d].kind = kind}
             one(S) == IF S = {} THEN 0 ELSE CHOOSE d \in S : TRUE
  <2>1. /\ memory = IF of("login") = {} THEN NoCredentials ELSE First(one(of("login")))
        /\ pairing = [memory |-> one(of("paired")), stored |-> one(of("paired"))]
        /\ token = [memory |-> Len(devs), vault |-> Len(devs)]
    BY DEF SessionInit
  <2>2. \A S \in SUBSET DeviceIds : one(S) \in {0} \cup DeviceIds /\ (S # {} => one(S) \in DeviceIds)
    OBVIOUS
  <2>3. of("login") \in SUBSET DeviceIds /\ of("paired") \in SUBSET DeviceIds
    OBVIOUS
  <2> HIDE DEF of, one
  <2>4. one(of("paired")) \in {0} \cup DeviceIds
    BY <2>2, <2>3
  <2>5. of("login") # {} => one(of("login")) \in DeviceIds
    BY <2>2, <2>3
  <2> QED BY <2>1, <2>4, <2>5 DEF SessionInit
<1>4. DevicesSound
  BY <1>2, SessionConstants DEF DevicesSound
<1>5. Held(memory, devs) /\ Newest(memory, devs)
  BY <1>2, <1>3, FirstIsNewest, NothingIsNewest
<1>6. CredentialsTyped
  <2>1. Len(devs) \in {0} \cup DeviceIds
    BY <1>2
  <2> QED BY <1>3, <1>5, <2>1 DEF CredentialsTyped
<1>7. RequestShaped(AtRest) /\ ~Renews(AtRest) /\ AtRest.pc = "rest"
  BY DEF RequestShaped, Renews, AtRest
<1>8. OneRenewal
  BY <1>3, <1>7, SessionConstants DEF OneRenewal, Nobody
<1>9. NothingBehind
  BY <1>3, <1>5, <1>7 DEF NothingBehind
<1>10. SignInSound /\ PairingSound /\ SignOutSound /\ Dead(cleared)
  BY <1>3, <1>7 DEF SignInSound, PairingSound, SignOutSound, Dead
<1>11. Counted
  <2>1. 0 \in 0..MaxExpiries /\ 0 \in 0..MaxOthers
    BY SessionConstants
  <2>2. FALSE \in BOOLEAN
    OBVIOUS
  <2> QED BY <1>3, <2>1, <2>2, Zenon DEF Counted
<1>12. CalmUnlessDisturbed
  <2>1. ASSUME memory # NoCredentials
        PROVE  CalmDevice(memory, devs[memory.device], refreshMu, expiries)
    <3>1. memory.device \in DeviceIds /\ memory.generation = 1
      BY <1>3, <2>1 DEF First
    <3> QED BY <1>2, <1>3, <3>1 DEF CalmDevice
  <2>2. \A r \in ClientRequests : CalmRequest(clientReq[r], memory, devs[memory.device])
    BY <1>3, <1>7 DEF CalmRequest
  <2> QED BY <1>3, <1>7, <2>1, <2>2 DEF CalmUnlessDisturbed, Calm
<1> QED BY <1>4, <1>6, <1>8, <1>9, <1>10, <1>11, <1>12 DEF CredInv

LEMMA CredStep == ASSUME CredInv, [SessionNext]_sessionVars PROVE CredInv'
<1>1. ASSUME NEW r \in ClientRequests,
             \/ Send(r) \/ Answered(r) \/ RefreshToken(r) \/ RefreshTokenOnce(r) \/ Refresh(r)
             \/ SaveToVault(r) \/ KeepInMemory(r) \/ Resend(r)
      PROVE  CredInv'
  BY <1>1, SendKeeps, AnsweredKeeps, RefreshTokenKeeps, RefreshTokenOnceKeeps, RefreshKeeps,
     SaveToVaultKeeps, KeepInMemoryKeeps, ResendKeeps
<1>2. CASE BeginLogin \/ CompleteLogin \/ SaveLogin \/ KeepLogin
  BY <1>2, BeginLoginKeeps, CompleteLoginKeeps, SaveLoginKeeps, KeepLoginKeeps
<1>3. CASE ConfirmPairing \/ SaveToken \/ SavePairing
  BY <1>3, ConfirmPairingKeeps, SaveTokenKeeps, SavePairingKeeps
<1>4. CASE Clear \/ RevokeRemote \/ WipeMemory \/ DeleteSecrets \/ ForgetPairing
  BY <1>4, ClearKeeps, RevokeRemoteKeeps, WipeMemoryKeeps, DeleteSecretsKeeps, ForgetPairingKeeps
<1>5. CASE RestartApp
  BY <1>5, RestartAppKeeps
<1>6. ASSUME NEW d \in DeviceIds, AccessEnds(d) PROVE CredInv'
  BY <1>6, AccessEndsKeeps
<1>7. CASE UNCHANGED sessionVars
  BY <1>7
  DEF CredInv, DevicesSound, CredentialsTyped, OneRenewal, NothingBehind, Renewing, SignInSound,
      PairingSound, SignOutSound, Dead, Counted, CalmUnlessDisturbed, Calm, DeviceIds, sessionVars
<1> QED BY <1>1, <1>2, <1>3, <1>4, <1>5, <1>6, <1>7 DEF SessionNext

\* For any number of requests, devices, expiries and disturbances: the client
\* presents no refresh token that it has used unless a rotation never reached
\* its vault, one access token that ends fails no request, and a device that a
\* successful sign-out revoked stays revoked (relay.go, refreshTokenOnce).
THEOREM CredentialsStaySound == SessionSpec => []CredentialsAreSound
<1>1. SessionInit => CredInv
  BY InitCredentials
<1>2. CredInv /\ [SessionNext]_sessionVars => CredInv'
  BY CredStep
<1>3. CredInv => CredentialsAreSound
  BY CredInvIsEnough
<1> QED BY <1>1, <1>2, <1>3, PTL DEF SessionSpec
=============================================================================
