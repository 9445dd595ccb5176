---------------------------- MODULE Preferences -----------------------------
(***************************************************************************)
(* One namespaced preference of one user: a JSON document with a revision, *)
(* read, written and deleted by the user's clients.  A client shows what   *)
(* it read and saves with the revision of that as its base (or without     *)
(* one); the server compares the base with the revision it reads and then  *)
(* writes in a second statement, which compares nothing.  A document is    *)
(* told apart by the save that made it.  Root has no preferences.          *)
(***************************************************************************)
EXTENDS Naturals, Requests

CONSTANTS Client,
    MaxSaves    \* bound: documents ever written

VARIABLES
    pref,       \* the row of user_preferences: revision 0 stands for no row
    saves,      \* documents written so far
    client,     \* where every client's request stands and what it shows
    overtaken,  \* history: saves between whose two statements the row changed
    overwrote,  \* history: saves whose document replaced one not shown to them
    given,      \* history: how many documents every revision was given to
    disturbed   \* history: whether a save was overtaken or the row deleted

ASSUME PreferencesAssumption == MaxSaves \in Nat /\ None \notin Nat

prefVars == <<pref, saves, client, overtaken, overwrote, given, disturbed>>

NoRow == [revision |-> 0, data |-> 0]

PrefTypeOK ==
    /\ pref \in [revision : 0..MaxSaves, data : 0..MaxSaves] /\ saves \in 0..MaxSaves
    /\ \A c \in Client : client[c].pc \in {"idle", "called", "read"}
    /\ overtaken \cup overwrote \subseteq Client
    /\ given \in [1..MaxSaves -> 0..MaxSaves] /\ disturbed \in BOOLEAN

PrefInit ==
    /\ pref = NoRow /\ saves = 0
    /\ client = [c \in Client |-> [pc |-> "idle", shown |-> NoRow, base |-> None, revision |-> 0]]
    /\ overtaken = {} /\ overwrote = {}
    /\ given = [r \in 1..MaxSaves |-> 0] /\ disturbed = FALSE

(* One of the four namespaces, and not root. *)
Admitted(root, named) == ~root /\ named

(* get_one: 404 when there is none, which the client shows as no document. *)
get(c) ==
    /\ client' = [client EXCEPT ![c].shown = pref]
    /\ UNCHANGED <<pref, saves, overtaken, overwrote, given, disturbed>>
get_one(c, root, named) == client[c].pc = "idle" /\ Admitted(root, named) /\ get(c)

(* update: the client names the revision it shows, or none.                *)
update(c, root, named, based) ==
    /\ client[c].pc = "idle" /\ Admitted(root, named)
    /\ client' = [client EXCEPT ![c].pc = "called",
                                ![c].base = IF based THEN client[c].shown.revision ELSE None]
    /\ overtaken' = overtaken \ {c} /\ overwrote' = overwrote \ {c}
    /\ UNCHANGED <<pref, saves, given, disturbed>>

(* Mutant: the base is not compared. *)
UpsertReadBlind(c) ==
    /\ client[c].pc = "called"
    /\ client' = [client EXCEPT ![c].pc = "read", ![c].revision = pref.revision]
    /\ UNCHANGED <<pref, saves, overtaken, overwrote, given, disturbed>>
(* upsert, first statement: the revision is read and compared.             *)
UpsertRead(c) ==
    /\ client[c].pc = "called"
    /\ IF client[c].base # None /\ client[c].base # pref.revision
       THEN client' = [client EXCEPT ![c].pc = "idle"]
       ELSE client' = [client EXCEPT ![c].pc = "read", ![c].revision = pref.revision]
    /\ UNCHANGED <<pref, saves, overtaken, overwrote, given, disturbed>>

(* The row changes: for the saves at work what they read is out of date.   *)
Overtakes(c) == overtaken' = overtaken \cup {d \in Client \ {c} : client[d].pc = "read"}

(* upsert, second statement: INSERT ... ON CONFLICT DO UPDATE; the client  *)
(* then shows the row it is given back.                                    *)
UpsertWrite(c) ==
    /\ client[c].pc = "read" /\ saves < MaxSaves
    /\ saves' = saves + 1
    /\ pref' = [revision |-> client[c].revision + 1, data |-> saves + 1]
    /\ overwrote' = IF client[c].base # None /\ pref # client[c].shown THEN overwrote \cup {c} ELSE overwrote
    /\ client' = [client EXCEPT ![c].pc = "idle", ![c].shown = pref']
    /\ given' = [given EXCEPT ![pref'.revision] = @ + 1]
    /\ Overtakes(c) /\ disturbed' = (disturbed \/ overtaken' # {})

delete(c) ==
    /\ pref' = NoRow /\ disturbed' = TRUE
    /\ Overtakes(c) /\ UNCHANGED <<saves, client, overwrote, given>>
delete_one(c, root, named) == client[c].pc = "idle" /\ Admitted(root, named) /\ delete(c)

PrefNext == \E c \in Client :
    \/ \E root \in BOOLEAN, named \in BOOLEAN :
         \/ get_one(c, root, named) \/ delete_one(c, root, named)
         \/ \E based \in BOOLEAN : update(c, root, named, based)
    \/ UpsertRead(c) \/ UpsertWrite(c)

PrefSpec == PrefInit /\ [][PrefNext]_prefVars

(* Optimistic concurrency, as far as the code provides it: a save with a   *)
(* base replaces a document its client had not shown only when the row     *)
(* changed between its two statements or its base is the revision of two   *)
(* documents; and no revision is given twice unless a save was overtaken   *)
(* or the row deleted.  preferences/mod.rs:46-60, 62-76.                   *)
SavesSeeWhatTheyReplace ==
    /\ PrefTypeOK
    /\ \A c \in overwrote \ overtaken : client[c].base > 0 /\ given[client[c].base] > 1
    /\ ~disturbed => \A r \in 1..MaxSaves : given[r] <= 1
=============================================================================
