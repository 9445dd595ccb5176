-------------------------- MODULE MCAdministration --------------------------
(***************************************************************************)
(* What administrators and operators are trusted with, and the limit on    *)
(* the attempts to get there: permission groups, GitHub identities, the    *)
(* root password and re-authentication, PMP's configuration file, the      *)
(* start of the server and the rate limiter.  The parts share no state, so *)
(* one run explores each of them from its own initial states: `part' says  *)
(* which.                                                                  *)
(***************************************************************************)
EXTENDS Groups, GithubLogin, Elevation, PmpConfig, Startup, RateLimiter, TLC

CONSTANTS s1, s2   \* the sessions: one of root, one of a user

VARIABLE part

Accounts == s1 :> "root" @@ s2 :> "alice"
\* A change, a value that validation refuses, and a secret as it was shown
\* together with a field the descriptor does not have.
Forms == {"port" :> "2" @@ "chat" :> "off", "port" :> "on",
          "token" :> "[REDACTED]" @@ "extra" :> "2"}
\* Files that do not parse, configure push, or are not valid.
Files == {[Baked EXCEPT !.parses = FALSE], [Baked EXCEPT !.push = TRUE],
          [Baked EXCEPT !.legal = "incomplete"]}

\* The start has several initial states, of which the other parts need one.
Init ==
    /\ part \in {"groups", "github", "elevation", "config", "startup", "rate"}
    /\ GroupsInit /\ GithubInit /\ ElevInit /\ ConfigInit /\ StartInit /\ RateInit
    /\ part # "startup" => args = "none" /\ env = [runtime |-> FALSE, vapid |-> FALSE]

GroupsStep == part = "groups" /\ GroupsNext
    /\ UNCHANGED <<part, githubVars, elevVars, configVars, startVars, rateVars>>
GithubStep == part = "github" /\ GithubNext
    /\ UNCHANGED <<part, groupVars, elevVars, configVars, startVars, rateVars>>
ElevationStep == part = "elevation" /\ ElevNext
    /\ UNCHANGED <<part, groupVars, githubVars, configVars, startVars, rateVars>>
ConfigStep == part = "config" /\ ConfigNext
    /\ UNCHANGED <<part, groupVars, githubVars, elevVars, startVars, rateVars>>
StartupStep == part = "startup" /\ StartNext
    /\ UNCHANGED <<part, groupVars, githubVars, elevVars, configVars, rateVars>>
RateStep == part = "rate" /\ RateNext
    /\ UNCHANGED <<part, groupVars, githubVars, elevVars, configVars, startVars>>

Next ==
    \/ GroupsStep \/ GithubStep \/ ElevationStep \/ ConfigStep \/ StartupStep \/ RateStep

vars == <<part, groupVars, githubVars, elevVars, configVars, startVars, rateVars>>
Symmetry == Permutations(Handler)
Spec == Init /\ [][Next]_vars
=============================================================================
