------------------------------ MODULE PmpConfig ------------------------------
(***************************************************************************)
(* Editing PMP's server_config.yml: config/routes.rs over config/pmp.rs    *)
(* and config/repo.rs, and the PPF build configuration, a row of the       *)
(* database.                                                               *)
(*                                                                         *)
(* A save reads the file, merges the form into it, keeps the text it read  *)
(* as a snapshot, writes a temporary file, renames it over the file and    *)
(* has PMP reload it.  Every request uses the same temporary name, so the  *)
(* model keeps what the names stand for: inodes.  A document is a function *)
(* from fields to values; Torn is a text that is not one (an empty file,   *)
(* or two texts written over each other).                                  *)
(***************************************************************************)
EXTENDS Requests, Naturals, Sequences, FiniteSets

CONSTANTS
    Form,          \* what clients send: functions from some fields to values
    MaxSnapshots,  \* bound on the snapshots taken
    MaxRevision,   \* bound on the revisions of the PPF configuration
    Torn

VARIABLES
    inode,      \* inode -> its text, None when it is free
    file, tmp,  \* the inodes the two names stand for; tmp may be None
    running,    \* the document PMP runs with
    snaps,      \* the snapshots, oldest first
    restored,   \* the snapshots a rollback has marked
    op,         \* what every handler does
    overlapped, \* two writes have been in flight at the same time
    ppf         \* the revision of the PPF configuration, 0 without one

configVars == <<inode, file, tmp, running, snaps, restored, op, overlapped, ppf>>
disk == <<inode, file, tmp>>

\* The descriptor's fields: a number, a switch, a secret.  The field
\* "extra" is in the file and not in the descriptor.
Descriptor == {"port", "chat", "token"}
Sensitive == {"token"}
Field == Descriptor \cup {"extra"}
Redacted == "[REDACTED]"
\* The values of the first document, and what clients send.
Value == {"1", "on"} \cup UNION {{form[f] : f \in DOMAIN form} : form \in Form}
Document == [Field -> Value]
ASSUME ConfigAssumption ==
    Torn \notin Document /\ None \notin (Document \cup Nat) /\ Torn # None

Original == [f \in Field |-> IF f = "chat" THEN "on" ELSE "1"]
Inode == 0..(Cardinality(Handler) + 1)

ConfigInit ==
    /\ inode = [i \in Inode |-> IF i = 0 THEN Original ELSE None]
    /\ file = 0 /\ tmp = None
    /\ running = Original
    /\ snaps = <<>> /\ restored = {}
    /\ op = [h \in Handler |-> Idle]
    /\ overlapped = FALSE
    /\ ppf = 0

-----------------------------------------------------------------------------
(* The form.                                                               *)

kept(f, v) == f \in Sensitive /\ v = Redacted

\* A value of the wrong type is refused; fields the descriptor does not
\* know are ignored.
type_ok(f, v) ==
    CASE f = "port" -> v \in {"1", "2"}
      [] f = "chat" -> v \in {"on", "off"}
      [] OTHER      -> TRUE
validate_values(form) ==
    \A f \in DOMAIN form \cap Descriptor : kept(f, form[f]) \/ type_ok(f, form[f])

merge_yaml_patchBlind(doc, form) ==
    [f \in Field |-> IF f \in DOMAIN form \cap Descriptor THEN form[f] ELSE doc[f]]
merge_yaml_patch(doc, form) ==
    [f \in Field |-> IF f \in DOMAIN form \cap Descriptor /\ ~kept(f, form[f])
                     THEN form[f] ELSE doc[f]]
\* A form that changes no field: an empty file, YAML's null, survives it.
Unchanging(form) == \A f \in DOMAIN form \cap Descriptor : kept(f, form[f])
Merged(text, form) == IF text = Torn THEN Torn ELSE merge_yaml_patch(text, form)

-----------------------------------------------------------------------------
(* POST /admin/config/save and /admin/config/rollback.                     *)

Set(h, s) == op' = [op EXCEPT ![h] = s]

\* A text that does not parse, or is no mapping when a field is to be set,
\* ends the save.
SaveBegin(h, form) ==
    LET prev == inode[file] IN
    /\ op[h] = Idle
    /\ validate_values(form) /\ (prev = Torn => Unchanging(form))
    /\ Set(h, [pc |-> "snapshot", prev |-> prev, yaml |-> Merged(prev, form)])
    /\ UNCHANGED <<disk, running, snaps, restored, overlapped, ppf>>

insert_snapshot(h) ==
    /\ op[h].pc = "snapshot" /\ Len(snaps) < MaxSnapshots
    /\ snaps' = Append(snaps, op[h].prev)
    /\ Set(h, [pc |-> "create", yaml |-> op[h].yaml, snap |-> 0])
    /\ UNCHANGED <<disk, running, restored, overlapped, ppf>>

get_snapshot(i) == snaps[i]
\* A rollback keeps no snapshot of the text it replaces.
RollbackBegin(h, i) ==
    /\ op[h] = Idle
    /\ Set(h, [pc |-> "create", yaml |-> get_snapshot(i), snap |-> i])
    /\ UNCHANGED <<disk, running, snaps, restored, overlapped, ppf>>

\* A database error ends a request before it has touched the file, an I/O
\* error later; the caller gets an error in both cases.
Fails(h) ==
    /\ op[h].pc \in {"snapshot", "create", "write", "rename", "mark"}
    /\ Set(h, Idle)
    /\ UNCHANGED <<disk, running, snaps, restored, overlapped, ppf>>

-----------------------------------------------------------------------------
(* write_yaml_atomic: create or truncate the temporary file, write it,     *)
(* rename it.                                                              *)

Writing == {h \in Handler : op[h].pc \in {"write", "rename"}}
Unused == {i \in Inode : i # file /\ i # tmp /\ \A h \in Writing : op[h].fd # i}
\* One of them (there always is one, and which one makes no difference).
FirstUnused == {i \in Unused : \A j \in Unused : i <= j}

WriteCreateInPlace(h) ==
    /\ op[h].pc = "create"
    /\ inode' = [inode EXCEPT ![file] = Torn]
    /\ op' = [op EXCEPT ![h] = [pc |-> "write", yaml |-> op[h].yaml, snap |-> op[h].snap, fd |-> file]]
    /\ tmp' = file
    /\ overlapped' = (overlapped \/ Writing # {})
    /\ UNCHANGED <<file, running, snaps, restored, ppf>>
WriteCreate(h) ==
    /\ op[h].pc = "create"
    /\ \E fd \in IF tmp # None THEN {tmp} ELSE FirstUnused :
          /\ inode' = [i \in Inode |-> IF i = fd THEN Torn ELSE IF i \in Unused THEN None ELSE inode[i]]
          /\ tmp' = fd
          /\ op' = [op EXCEPT ![h] = [pc |-> "write", yaml |-> op[h].yaml, snap |-> op[h].snap, fd |-> fd]]
    /\ overlapped' = (overlapped \/ Writing # {})
    /\ UNCHANGED <<file, running, snaps, restored, ppf>>

\* A text written over another one, longer than it, leaves its end behind.
WriteAll(h) ==
    LET s == op[h] IN
    /\ s.pc = "write"
    /\ \E text \in {s.yaml} \cup (IF inode[s.fd] = Torn THEN {} ELSE {Torn}) :
          inode' = [inode EXCEPT ![s.fd] = text]
    /\ op' = [op EXCEPT ![h].pc = "rename"]
    /\ UNCHANGED <<file, tmp, running, snaps, restored, overlapped, ppf>>

\* Whatever the temporary name stands for now is renamed; without one the
\* rename fails.
WriteRename(h) ==
    /\ op[h].pc = "rename"
    /\ IF tmp = None
       THEN Set(h, Idle) /\ UNCHANGED <<file, tmp>>
       ELSE /\ file' = tmp /\ tmp' = None
            /\ Set(h, [pc |-> "reload", snap |-> op[h].snap])
    /\ UNCHANGED <<inode, running, snaps, restored, overlapped, ppf>>

\* PMP runs with what it reads, if that is a document; its answer may be
\* lost.
Reload(h) ==
    /\ op[h].pc = "reload"
    /\ IF inode[file] = Torn
       THEN Set(h, Idle) /\ UNCHANGED running
       ELSE /\ running' = inode[file]
            /\ \/ Set(h, Idle)
               \/ op[h].snap # 0 /\ op' = [op EXCEPT ![h].pc = "mark"]
    /\ UNCHANGED <<disk, snaps, restored, overlapped, ppf>>

mark_restored(h) ==
    /\ op[h].pc = "mark"
    /\ restored' = restored \cup {op[h].snap}
    /\ Set(h, Idle)
    /\ UNCHANGED <<disk, running, snaps, overlapped, ppf>>

-----------------------------------------------------------------------------
\* The server stops and starts again: the files stay as they are.
Crash ==
    /\ \E h \in Handler : op[h] # Idle
    /\ op' = [h \in Handler |-> Idle]
    /\ UNCHANGED <<disk, running, snaps, restored, overlapped, ppf>>

\* PUT /admin/config/ppf; an unknown key, a bad URL or analytics provider
\* is refused before this.
put_ppf_config == ppf' = ppf + 1
ppf_config_update ==
    /\ ppf < MaxRevision
    /\ put_ppf_config
    /\ UNCHANGED <<disk, running, snaps, restored, op, overlapped>>

ConfigNext ==
    \/ \E h \in Handler :
        \/ \E form \in Form : SaveBegin(h, form)
        \/ \E i \in 1..Len(snaps) : RollbackBegin(h, i)
        \/ insert_snapshot(h) \/ Fails(h)
        \/ WriteCreate(h) \/ WriteAll(h) \/ WriteRename(h)
        \/ Reload(h) \/ mark_restored(h)
    \/ Crash
    \/ ppf_config_update

ConfigSpec == ConfigInit /\ [][ConfigNext]_configVars

-----------------------------------------------------------------------------
ConfigTypeOK ==
    /\ inode \in [Inode -> Document \cup {Torn, None}]
    /\ inode[file] # None /\ tmp \in Inode \cup {None}
    /\ running \in Document
    /\ \A i \in 1..Len(snaps) : snaps[i] \in Document \cup {Torn}
    /\ restored \subseteq 1..Len(snaps)

Texts == {inode[i] : i \in Inode} \cup {snaps[i] : i \in 1..Len(snaps)} \cup {running}

(* No sequence of saves, rollbacks and failures writes the placeholder of  *)
(* a secret into a file or a snapshot, or loses a field the form does not  *)
(* know, and the typed fields keep their types.                            *)
(* config/routes.rs:195-239, "never rebuild from values".                  *)
MergeKeeps ==
    \A d \in Texts \ {Torn, None} :
        d["token"] # Redacted /\ d["extra"] = Original["extra"]
        /\ type_ok("port", d["port"]) /\ type_ok("chat", d["chat"])

(* The file is a whole document at every moment, and after a crash at any  *)
(* step, as long as no two requests were writing at the same time, and so  *)
(* is every snapshot a rollback may go back to.  config/pmp.rs:175-185.    *)
WholeIfAlone ==
    ~overlapped => inode[file] # Torn /\ \A i \in 1..Len(snaps) : snaps[i] # Torn

(* No save loses what it was not sent: secrets shown as [REDACTED] and     *)
(* fields the form does not know stay, typed fields keep their types, and  *)
(* writes that overlap no other leave PMP's file and its snapshots whole   *)
(* at every moment.  config/routes.rs:195-239, pmp.rs:175-186.             *)
ConfigIsKept == ConfigTypeOK /\ MergeKeeps /\ WholeIfAlone

(* config/pmp.rs:175 calls write_yaml_atomic an "Atomic write": a reader   *)
(* of the file never sees a part of a text.  Two saves share the name of   *)
(* their temporary file.                                                   *)
FileIsWhole == inode[file] # Torn
=============================================================================
