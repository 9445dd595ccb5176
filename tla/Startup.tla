------------------------------ MODULE Startup -------------------------------
(***************************************************************************)
(* Where ppb-server takes its configuration from, and what the recovery    *)
(* tool ppctl says about it.  The order of the sources (--config, then     *)
(* PPB_RUNTIME_CONFIG, then config/ppb.toml, then baked defaults) is       *)
(* written down three times: by the server, by `ppctl doctor' and by       *)
(* `ppctl config check'.  An operator edits files and the environment      *)
(* between their runs; what a run said holds until the next edit.          *)
(* Secrets (ppb.env) and the texts the tools print are left out.           *)
(***************************************************************************)
CONSTANTS
    Missing,        \* no such file
    Contents        \* what a configuration file may hold

VARIABLES
    source,         \* path -> contents or Missing
    env,            \* whether PPB_RUNTIME_CONFIG and the two VAPID variables are set
    args,           \* how --config was passed
    check, update, staged, doctor, server  \* what the last run of each said, Unsaid after an edit

startVars == <<source, env, args, check, update, staged, doctor, server>>

(* The file --config names, the one the environment names, config/ppb.toml. *)
Path == {"flag", "env", "default"}
(* nothing; --config p; --config=p; a bare --config at the end; both of these *)
Args == {"none", "spaced", "joined", "bare", "joined_bare"}
Defaults == "<defaults>"
Unsaid == [from |-> "nowhere", ok |-> FALSE, push |-> FALSE]
(* The baked configuration is valid and configures no push. *)
Baked == [parses |-> TRUE, origins |-> "listed", auth_mode |-> "approve", samesite |-> "lax",
          legal |-> "off", push |-> FALSE]

Outcome == [from : Path \cup {Defaults, "nowhere"}, ok : BOOLEAN, push : BOOLEAN]
StartTypeOK ==
    /\ source \in [Path -> Contents \cup {Baked, Missing}]
    /\ env \in [runtime : BOOLEAN, vapid : BOOLEAN] /\ args \in Args
    /\ {check, update, staged, doctor, server} \subseteq Outcome

StartInit ==
    /\ source = [p \in Path |-> Missing]
    /\ env \in [runtime : BOOLEAN, vapid : BOOLEAN] /\ args \in Args
    /\ check = Unsaid /\ update = Unsaid /\ staged = Unsaid /\ doctor = Unsaid /\ server = Unsaid

-----------------------------------------------------------------------------
(* Loading one source. *)

validate(c) ==
    /\ c.origins # "star"                       \* the default is credentials = true
    /\ c.auth_mode \in {"token", "approve"}
    /\ c.samesite \in {"lax", "strict", "none"}
    /\ c.legal \in {"off", "complete"}          \* else a document is missing or its URL unsafe
apply_env_overrides(c) == [c EXCEPT !.push = @ \/ env.vapid]
Failed(p) == [from |-> p, ok |-> FALSE, push |-> FALSE]
Load(p, c) == [from |-> p, ok |-> validate(c), push |-> validate(c) /\ apply_env_overrides(c).push]
from_toml_file(p) == IF source[p] = Missing \/ ~source[p].parses THEN Failed(p) ELSE Load(p, source[p])
from_toml_str(p) == IF ~source[p].parses THEN Failed(p) ELSE Load(p, source[p])

(* The server: --config, else the environment, the file, the defaults.     *)
config_flag == args \in {"spaced", "joined_bare"}
resolve_runtime_config ==
    IF env.runtime THEN from_toml_file("env")
    ELSE IF source["default"] # Missing THEN from_toml_file("default")
    ELSE [from |-> Defaults, ok |-> TRUE, push |-> apply_env_overrides(Baked).push]
Start ==
    /\ server' = IF config_flag THEN from_toml_file("flag") ELSE resolve_runtime_config
    /\ UNCHANGED <<source, env, args, check, update, staged, doctor>>
(* ppb-server --check-config p loads one file and stops. *)
StageCheck(p) ==
    /\ staged' = from_toml_file(p)
    /\ UNCHANGED <<source, env, args, check, update, doctor, server>>

-----------------------------------------------------------------------------
(* ppctl *)

flag_value == args = "spaced"
Read(p) == IF source[p] = Missing THEN Failed(p) ELSE from_toml_str(p)
(* Without any file the check fails; the server would run on the defaults. *)
config_check(flag) ==
    IF flag THEN Read("flag")
    ELSE IF env.runtime THEN Read("env")
    ELSE IF source["default"] # Missing THEN Read("default")
    ELSE Failed(Defaults)
(* Mutant: the environment wins over --config. *)
run_config_checkEnvFirst ==
    /\ check' = config_check(flag_value /\ ~env.runtime)
    /\ UNCHANGED <<source, env, args, update, staged, doctor, server>>
run_config_check ==
    /\ check' = config_check(flag_value)
    /\ UNCHANGED <<source, env, args, update, staged, doctor, server>>
(* `update --check-config p' checks p.  A plain `update' runs the config   *)
(* check without its own arguments: a --config is not passed on.           *)
run_update(p) == staged' = Read(p) /\ UNCHANGED <<source, env, args, check, update, doctor, server>>
run_update_plain ==
    /\ update' = config_check(FALSE)
    /\ UNCHANGED <<source, env, args, check, staged, doctor, server>>
resolve_config_for_doctor ==
    IF flag_value THEN Read("flag")
    ELSE IF env.runtime THEN Read("env")
    ELSE IF source["default"] # Missing THEN Read("default")
    ELSE [from |-> Defaults, ok |-> TRUE, push |-> Baked.push]
(* The doctor also wants push; what it finds of the database, PMP, GitHub  *)
(* and the public URLs is not this module's: `world'.                      *)
doctor_checks(world) ==
    LET c == resolve_config_for_doctor
    IN  [from |-> c.from, ok |-> c.ok /\ c.push /\ world, push |-> c.push]
run_doctor ==
    /\ \E world \in BOOLEAN : doctor' = doctor_checks(world)
    /\ UNCHANGED <<source, env, args, check, update, staged, server>>

-----------------------------------------------------------------------------
(* The operator edits: every verdict is out of date. *)

Outdated == check' = Unsaid /\ update' = Unsaid /\ staged' = Unsaid /\ doctor' = Unsaid /\ server' = Unsaid
(* init writes the defaults to a file of its own, over what was there.     *)
run_init(p) ==
    /\ source' = [source EXCEPT ![p] = Baked]
    /\ Outdated /\ UNCHANGED <<env, args>>
EditFile(p, c) ==
    /\ source[p] # c /\ source' = [source EXCEPT ![p] = c]
    /\ Outdated /\ UNCHANGED <<env, args>>

StartNext ==
    \/ Start \/ run_config_check \/ run_update_plain \/ run_doctor
    \/ \E p \in Path : StageCheck(p) \/ run_update(p) \/ run_init(p)
    \/ \E p \in Path, c \in Contents \cup {Missing} : EditFile(p, c)

StartSpec == StartInit /\ [][StartNext]_startVars

-----------------------------------------------------------------------------
(* What the tools say is what the server does.  With the same arguments,   *)
(* environment and files: a file `config check' accepts is the file the    *)
(* server loads, and one it refuses stops the server (only where there is  *)
(* no file at all the check fails and the server starts, on the defaults); *)
(* a staged file passes exactly if the server loads it; and when `doctor'  *)
(* passes, the server starts from the same source with push configured.    *)
(* A plain `update' is about the server's file only where the server is    *)
(* started without --config, which it does not look at (ppctl.rs:531).     *)
(* Not claimed for --config=p followed by a bare --config, which only the  *)
(* server understands.  Two texts are wrong about the arguments: the       *)
(* server does read --config p, which docs/getting-started.md:108 and      *)
(* docs/deployment.md:89 deny, and it does not read --config=p alone,      *)
(* which the comment of main.rs:59 says it does; the tools read the first  *)
(* and not the second as well, so they agree with the server in both.      *)
(* main.rs:36-40, config/mod.rs:425-439, bin/ppctl.rs:378-435.             *)
VerdictsHold ==
    (server # Unsaid /\ args # "joined_bare") =>
        /\ (check # Unsaid /\ check.from # Defaults) => check = server
        /\ check.from = Defaults => server.from = Defaults
        /\ (update # Unsaid /\ args # "spaced") =>
              IF update.from = Defaults THEN server.from = Defaults ELSE update = server
        /\ staged.from = server.from => staged = server
        /\ doctor.ok => /\ server.ok /\ server.push /\ server.from = doctor.from

(* What `ppctl config check', a plain `ppctl update' (for a server without *)
(* --config), the staged check and `ppctl doctor' accept, the server       *)
(* starts from.  config/mod.rs:425-439, bin/ppctl.rs:378-435, 531.         *)
StartsAsChecked == StartTypeOK /\ VerdictsHold
=============================================================================
