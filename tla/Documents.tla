----------------------------- MODULE Documents -----------------------------
(***************************************************************************)
(* A versioned document that several clients edit: the settings of         *)
(* relay-server/internal/settings, and the notification preferences of     *)
(* internal/notifications in memory and in the database.  Each client      *)
(* edits a field of its own and puts the whole document back.              *)
(***************************************************************************)
EXTENDS Integers

CONSTANTS Editors,     \* the clients; each one's field carries its name
          MaxVersion   \* bound: versions of the document

ASSUME DocAssumption == MaxVersion \in Nat \ {0}

VARIABLES store,    \* "settings", "preferences" or "preferences table"
          doc,      \* the stored document: version and fields, or none
          copy,     \* each client's copy, and the edit it wants to keep
          edit,     \* each client's request in the server
          kept      \* each field's value in the last edit the server accepted

docVars == <<store, doc, copy, edit, kept>>

Blank == [f \in Editors |-> 0]
NoDoc == [version |-> 0, fields |-> Blank]
FirstDoc == [version |-> 1, fields |-> Blank]
NoEdit == [at |-> "idle"]

DocTypeOK ==
    /\ store \in {"settings", "preferences", "preferences table"}
    /\ doc.version \in 0..MaxVersion
    /\ \A c \in Editors : /\ copy[c].version \in 0..MaxVersion
                          /\ edit[c].at \in {"idle", "insert", "check", "swap"}

DocInit ==
    /\ store \in {"settings", "preferences", "preferences table"}
    /\ doc = NoDoc
    /\ copy = [c \in Editors |-> NoDoc]
    /\ edit = [c \in Editors |-> NoEdit]
    /\ kept = Blank

Now(d) == IF d = NoDoc THEN FirstDoc ELSE d

\* The ETag is the version and a digest of the values.
ETag(d) == <<d.version, d.fields>>

\* GET: memory makes the first document on the way; the table is read, and
\* GetPreferences inserts the first document when it finds none.
GetDoc(c) ==
    /\ edit[c].at = "idle"
    /\ IF store = "preferences table" /\ doc = NoDoc
       THEN edit' = [edit EXCEPT ![c] = [at |-> "insert"]] /\ UNCHANGED <<doc, copy>>
       ELSE doc' = Now(doc) /\ copy' = [copy EXCEPT ![c] = Now(doc)] /\ edit' = edit
    /\ UNCHANGED <<store, kept>>

\* ON CONFLICT DO NOTHING, and the row is read again.
InsertFirst(c) ==
    /\ edit[c].at = "insert"
    /\ doc' = Now(doc)
    /\ copy' = [copy EXCEPT ![c] = Now(doc)]
    /\ edit' = [edit EXCEPT ![c] = NoEdit]
    /\ UNCHANGED <<store, kept>>

\* PUT: the client's copy with its own field edited, based on what it read.
\* Settings may also be reset.  A base version below 1 is refused.
PutDoc(c) ==
    /\ edit[c].at = "idle" /\ copy[c].version \in 1..MaxVersion - 1
    /\ \E reset \in BOOLEAN :
          /\ reset => store = "settings"
          /\ LET fields == IF reset THEN Blank
                           ELSE [copy[c].fields EXCEPT ![c] = copy[c].version]
             IN  edit' = [edit EXCEPT ![c] = [at |-> "check", base |-> copy[c],
                                              fields |-> fields, reset |-> reset]]
    /\ UNCHANGED <<store, doc, copy, kept>>

Matches(c, d) == d.version = edit[c].base.version /\ ETag(d) = ETag(edit[c].base)
\* A mutated form: the version that the swap finds is not compared.
Whatever(c, d) == TRUE
Unchanged(c, d) == Matches(c, d)

Conflict(c) ==
    /\ copy' = [copy EXCEPT ![c] = Now(doc)]
    /\ edit' = [edit EXCEPT ![c] = NoEdit]
    /\ UNCHANGED <<store, doc, kept>>

\* The edit is stored.  Its answer may be lost: the client keeps its old copy.
Swap(c) ==
    /\ doc' = [version |-> edit[c].base.version + 1, fields |-> edit[c].fields]
    /\ kept' = IF edit[c].reset THEN Blank ELSE [kept EXCEPT ![c] = edit[c].fields[c]]
    /\ edit' = [edit EXCEPT ![c] = NoEdit]
    /\ \/ copy' = [copy EXCEPT ![c] = doc']
       \/ copy' = copy
    /\ UNCHANGED store

\* Update reads the document and compares; preferences in memory are stored
\* under the same lock.
Check(c) ==
    /\ edit[c].at = "check"
    /\ \/ ~Matches(c, Now(doc)) /\ Conflict(c)
       \/ /\ Matches(c, Now(doc)) /\ store # "preferences"
          /\ edit' = [edit EXCEPT ![c].at = "swap"]
          /\ UNCHANGED <<store, doc, copy, kept>>
       \/ Matches(c, Now(doc)) /\ store = "preferences" /\ Swap(c)

\* CompareAndSwap, or UPDATE ... WHERE version AND etag: compared once more.
CompareAndSwap(c) ==
    /\ edit[c].at = "swap"
    /\ IF Unchanged(c, Now(doc)) THEN Swap(c) ELSE Conflict(c)

DocFails(c) ==
    /\ edit[c].at # "idle" /\ edit' = [edit EXCEPT ![c] = NoEdit]
    /\ UNCHANGED <<store, doc, copy, kept>>

\* Memory is gone with the server; requests in progress end with it.
RestartServer ==
    /\ doc' = IF store = "preferences table" THEN doc ELSE NoDoc
    /\ kept' = IF store = "preferences table" THEN kept ELSE Blank
    /\ edit' = [c \in Editors |-> NoEdit]
    /\ UNCHANGED <<store, copy>>

DocNext ==
    \/ \E c \in Editors : \/ GetDoc(c) \/ InsertFirst(c) \/ PutDoc(c) \/ Check(c)
                          \/ CompareAndSwap(c) \/ DocFails(c)
    \/ RestartServer

DocSpec == DocInit /\ [][DocNext]_docVars

-----------------------------------------------------------------------------
\* No edit is lost: each field of the stored document holds what the last
\* accepted edit of it put there, although every client puts back the whole
\* document it once read (settings.UpdateRequest's base version and If-Match).
NoLostUpdate == doc.fields = kept

\* The documents have their types and no edit of them is lost.
DocInvariant == DocTypeOK /\ NoLostUpdate
=============================================================================
