----------------------------- MODULE ProviderAuth -----------------------------
(***************************************************************************)
(* Credentials: where the OAuth token is kept (the system keyring, under   *)
(* two service names, and credentials.json, under the current and the      *)
(* legacy home; runtime oauth.rs), the commands that write it (login,      *)
(* logout, a refresh at start or in doctor; CLI main.rs, api               *)
(* openyak_provider.rs), and the requests sent with it.  Each command is a *)
(* process; one that is killed takes no further step.  A load is one step; *)
(* every write takes the steps the code takes.                             *)
(***************************************************************************)
EXTENDS Integers, Sequences, FiniteSets

CONSTANTS Commands, Kinds,       \* the kinds of commands that may be started
          MaxTokens,             \* tokens the provider may issue
          MaxChanges,            \* changes of the keyring's condition
          max_retries, initial_backoff, max_backoff

\* What the first delay is multiplied by before the nth repetition: the shift
\* of a u32, which fails from the 33rd on.
multiplier(n) == 2 ^ (n - 1)
shifts(n) == n <= 32

ASSUME AuthAssumption == {max_retries, initial_backoff, max_backoff} \subseteq Nat
ASSUME DoublingAssumption ==   \* true of every n, but powers are beyond the provers
  \A n \in 1..max_retries : multiplier(n) \in Nat /\ multiplier(n) <= multiplier(n + 1)

VARIABLES settings,   \* environment variables, settings.oauth, provider of the model
          keyring,    \* condition of the keyring: "up", "down" (fall back) or "broken"
          ring, token_file, \* token stored per path (and service), 0 for none
          tmp,        \* credentials.json.tmp
          issued, expired, refreshable,
          cmd,        \* the commands
          latest,     \* history: the token last stored, 0 after a logout
          stored_before,     \* history: what was stored before that
          signed_out, \* history: nobody has logged in since a logout
          muddled,    \* history: the keyring changed, or two commands wrote at once
          changes

authVars == <<settings, keyring, ring, token_file, tmp, issued, expired, refreshable, cmd,
              latest, stored_before, signed_out, muddled, changes>>

Paths == {"current", "legacy"}
NoSecrets == [openyak |-> 0, claw |-> 0]   \* the two services' entries
store == <<keyring, ring, token_file, tmp>>
tokens == <<issued, expired, refreshable>>
history == <<latest, stored_before, signed_out, muddled>>
Idle == [pc |-> "idle", kind |-> "none", tok |-> 0, attempts |-> 0, slept |-> <<>>, stale |-> FALSE, said |-> "none"]

WritingPcs == {"ring", "tidy", "tmp", "remove", "rename", "unfile", "unring", "legacy"}
Writing(c) == cmd[c].pc \in WritingPcs
ends(c, said) == cmd' = [cmd EXCEPT ![c].pc = "done", ![c].said = said]
goes(c, pc) == cmd' = [cmd EXCEPT ![c].pc = pc]

(***************************************************************************)
(* Reading.                                                                *)
(***************************************************************************)
\* The keyring's secret, under either service, or else the file's.
load_token_file(p) ==
  IF keyring = "up" /\ ring[p].openyak # 0 THEN ring[p].openyak
  ELSE IF keyring = "up" /\ ring[p].claw # 0 THEN ring[p].claw
  ELSE token_file[p]

load_oauth_credentials ==
  IF load_token_file("current") # 0 THEN load_token_file("current") ELSE load_token_file("legacy")

\* A token found in a file moves to the keyring; one found under the legacy
\* path moves to the current one, and the legacy path is cleared.
Migrated ==
  LET t == load_oauth_credentials
      here == load_token_file("current") # 0
      moves == ~here \/ (ring["current"].openyak = 0 /\ ring["current"].claw = 0) IN
  IF t = 0 THEN UNCHANGED <<ring, token_file>>
  ELSE IF keyring = "up"
  THEN /\ ring' = IF ~moves THEN ring
                  ELSE [p \in Paths |-> IF p = "current" THEN [ring[p] EXCEPT !.openyak = t]
                                        ELSE IF here THEN ring[p] ELSE NoSecrets]
       /\ token_file' = IF ~moves THEN token_file ELSE [p \in Paths |-> IF here /\ p = "legacy" THEN token_file[p] ELSE 0]
  ELSE /\ ring' = ring
       /\ token_file' = IF here THEN token_file ELSE [p \in Paths |-> IF p = "current" THEN t ELSE 0]

oauth_token_is_expired(t) == t \in expired

(***************************************************************************)
(* Starting a command.                                                     *)
(***************************************************************************)
AuthInit ==
  /\ settings \in [env : {"none", "key"}, oauth : {"missing", "incomplete", "full"}]
  /\ keyring \in {"up", "down"}
  /\ \E at \in {"nowhere", "file", "legacy_file", "ring", "old_service"} :
       /\ ring = [p \in Paths |-> [openyak |-> IF at = "ring" /\ p = "current" THEN 1 ELSE 0,
                                   claw |-> IF at = "old_service" /\ p = "current" THEN 1 ELSE 0]]
       /\ token_file = [p \in Paths |-> IF at = (IF p = "current" THEN "file" ELSE "legacy_file") THEN 1 ELSE 0]
       /\ keyring = "down" => at \notin {"ring", "old_service"}
       /\ latest = (IF at = "nowhere" THEN 0 ELSE 1)
  /\ tmp = 0 /\ issued = 1 /\ expired \in {{}, {1}} /\ refreshable \in {{}, {1}}
  /\ cmd = [c \in Commands |-> Idle]
  /\ stored_before = latest /\ signed_out = FALSE /\ muddled = FALSE /\ changes = 0

configured_oauth_config == settings.oauth

\* Once the settings are complete: listen, open the browser, wait.
run_login(c) ==
  /\ cmd[c].pc = "idle" /\ "login" \in Kinds
  /\ cmd' = [cmd EXCEPT ![c] = IF configured_oauth_config # "full"
                               THEN [Idle EXCEPT !.pc = "done", !.kind = "login", !.said = "not_configured"]
                               ELSE IF \E d \in Commands : cmd[d].pc = "waiting"   \* the port is taken
                               THEN [Idle EXCEPT !.pc = "done", !.kind = "login", !.said = "bind_failed"]
                               ELSE [Idle EXCEPT !.pc = "waiting", !.kind = "login"]]
  /\ UNCHANGED <<settings, store, tokens, history, changes>>

\* The browser calls back with a state; the code is exchanged for a token.
wait_for_oauth_callback(c, state) ==
  /\ cmd[c].pc = "waiting"
  /\ \/ state # c /\ ends(c, "oauth_state_mismatch") /\ UNCHANGED tokens
     \/ ends(c, "authorization_failed") /\ UNCHANGED tokens
     \/ /\ state = c /\ issued < MaxTokens
        /\ issued' = issued + 1
        /\ \E r \in BOOLEAN : refreshable' = IF r THEN refreshable \cup {issued + 1} ELSE refreshable
        /\ cmd' = [cmd EXCEPT ![c].pc = "ring", ![c].tok = issued + 1]
        /\ UNCHANGED expired
  /\ muddled' = (muddled \/ \E d \in Commands \ {c} : Writing(d))
  /\ UNCHANGED <<settings, store, latest, stored_before, signed_out, changes>>

run_logout(c) ==
  /\ cmd[c].pc = "idle" /\ "logout" \in Kinds
  /\ cmd' = [cmd EXCEPT ![c] = [Idle EXCEPT !.pc = "unfile", !.kind = "logout"]]
  /\ muddled' = (muddled \/ \E d \in Commands : Writing(d) \/ cmd[d].pc = "refreshing")
  /\ UNCHANGED <<settings, store, tokens, latest, stored_before, signed_out, changes>>

\* What a token calls for at start.
resolve_startup_auth_source(t) ==
  CASE t = 0 -> "missing_credentials"
    [] t # 0 /\ ~oauth_token_is_expired(t) -> "token"
    [] t # 0 /\ oauth_token_is_expired(t) /\ t \notin refreshable -> "expired"
    [] OTHER -> IF configured_oauth_config = "full" THEN "refresh" ELSE "oauth_config_missing"

\* Doctor warns of whatever would keep a prompt from being sent.
doctor_active_model_auth_check(what) == IF what \in {"key", "token"} THEN "ok" ELSE what

\* A prompt, or doctor's check of the active model: an environment variable
\* goes first, then the saved token.
start_command(c, kind) ==
  LET t == load_oauth_credentials
      what == IF settings.env = "key" THEN "key"
              ELSE IF keyring = "broken" THEN "keyring_error" ELSE resolve_startup_auth_source(t) IN
  /\ cmd[c].pc = "idle" /\ kind \in Kinds
  /\ cmd' = [cmd EXCEPT ![c] =
       [Idle EXCEPT !.kind = kind, !.tok = IF what \in {"token", "refresh"} THEN t ELSE 0,
                    !.stale = what = "token" /\ oauth_token_is_expired(t),
                    !.pc = IF what = "refresh" THEN "refreshing"
                           ELSE IF what \in {"key", "token"} THEN (IF kind = "prompt" THEN "sending" ELSE "done")
                           ELSE "done",
                    !.said = IF kind = "doctor" THEN doctor_active_model_auth_check(what) ELSE what]]
  /\ IF what \in {"key", "keyring_error"} THEN UNCHANGED <<ring, token_file>> ELSE Migrated
  /\ muddled' = (muddled \/ ((ring' # ring \/ token_file' # token_file) /\ \E d \in Commands : Writing(d)))
  /\ UNCHANGED <<settings, keyring, tmp, tokens, latest, stored_before, signed_out, changes>>

\* The new token set keeps the old refresh token when none is returned.
resolve_saved_oauth_token_set(c) ==
  /\ cmd[c].pc = "refreshing"
  /\ \/ ends(c, "refresh_failed") /\ UNCHANGED <<tokens, muddled>>
     \/ /\ issued < MaxTokens
        /\ issued' = issued + 1
        /\ refreshable' = refreshable \cup {issued + 1}
        /\ cmd' = [cmd EXCEPT ![c].pc = "ring", ![c].tok = issued + 1]
        /\ muddled' = (muddled \/ \E d \in Commands \ {c} : Writing(d))
        /\ UNCHANGED expired
  /\ UNCHANGED <<settings, store, latest, stored_before, signed_out, changes>>

(***************************************************************************)
(* Writing.                                                                *)
(***************************************************************************)
stored(c) ==
  /\ stored_before' = latest /\ latest' = cmd[c].tok
  /\ signed_out' = (signed_out /\ cmd[c].kind # "login")
  /\ UNCHANGED muddled

\* Into the keyring, or towards the file when there is none to write to.
save_secret_to_system_store(c) ==
  /\ cmd[c].pc = "ring"
  /\ CASE keyring = "up" ->
            /\ ring' = [ring EXCEPT !["current"].openyak = cmd[c].tok]
            /\ goes(c, "tidy") /\ stored(c)
       [] keyring = "down" -> goes(c, "tmp") /\ UNCHANGED <<ring, history>>
       [] OTHER -> ends(c, "keyring_error") /\ UNCHANGED <<ring, history>>
  /\ UNCHANGED <<settings, keyring, token_file, tmp, tokens, changes>>

remove_oauth_credentials_from_file(c) ==
  /\ cmd[c].pc \in {"tidy", "unfile"}
  /\ token_file' = [token_file EXCEPT !["current"] = 0]
  /\ goes(c, IF cmd[c].pc = "tidy" THEN "legacy" ELSE "unring")
  /\ UNCHANGED <<settings, keyring, ring, tmp, tokens, history, changes>>

write_restricted_credentials_file(c) ==
  /\ cmd[c].pc = "tmp"
  /\ tmp' = cmd[c].tok
  /\ goes(c, "remove")
  /\ UNCHANGED <<settings, keyring, ring, token_file, tokens, history, changes>>

\* replace_credentials_file: remove the old file, then rename the new one.
remove_old_file(c) ==
  /\ cmd[c].pc = "remove"
  /\ token_file' = [token_file EXCEPT !["current"] = 0]
  /\ goes(c, "rename")
  /\ UNCHANGED <<settings, keyring, ring, tmp, tokens, history, changes>>

rename_new_file(c) ==
  /\ cmd[c].pc = "rename"
  /\ IF tmp = 0 THEN ends(c, "rename_failed") /\ UNCHANGED <<token_file, tmp, history>>
     ELSE token_file' = [token_file EXCEPT !["current"] = tmp] /\ tmp' = 0 /\ goes(c, "legacy") /\ stored(c)
  /\ UNCHANGED <<settings, keyring, ring, tokens, changes>>

\* Mutant: the entry under the old service name stays.
clear_secret_openyak(p) == IF keyring = "up" THEN [ring EXCEPT ![p].openyak = 0] ELSE ring

\* Both services' entries; a keyring that cannot be reached is passed over.
clear_secret_from_system_store(p) == IF keyring = "up" THEN [ring EXCEPT ![p] = NoSecrets] ELSE ring

unring(c) ==
  /\ cmd[c].pc = "unring"
  /\ IF keyring = "broken" THEN ends(c, "keyring_error") /\ UNCHANGED ring
     ELSE ring' = clear_secret_from_system_store("current") /\ goes(c, "legacy")
  /\ UNCHANGED <<settings, keyring, token_file, tmp, tokens, history, changes>>

\* Clearing the legacy path: whatever fails there is ignored.
clear_legacy(c) ==
  /\ cmd[c].pc = "legacy"
  /\ token_file' = [token_file EXCEPT !["legacy"] = 0]
  /\ ring' = clear_secret_from_system_store("legacy")
  /\ IF cmd[c].kind = "prompt" THEN goes(c, "sending")
     ELSE ends(c, IF cmd[c].kind = "logout" THEN "cleared" ELSE "ok")
  /\ IF cmd[c].kind = "logout"
     THEN latest' = 0 /\ stored_before' = 0 /\ signed_out' = TRUE /\ UNCHANGED muddled
     ELSE UNCHANGED history
  /\ UNCHANGED <<settings, keyring, tmp, tokens, changes>>

(***************************************************************************)
(* Sending the request.                                                    *)
(***************************************************************************)
backoff_for_attempt(n) ==
  LET d == initial_backoff * multiplier(n) IN IF d < max_backoff THEN d ELSE max_backoff

exhausted(n) == n > max_retries

send_with_retry(c) ==
  LET n == cmd[c].attempts + 1
      sent(said) == cmd' = [cmd EXCEPT ![c].attempts = n, ![c].pc = "done", ![c].said = said] IN
  /\ cmd[c].pc = "sending"
  /\ \/ sent("answered")
     \/ sent("refused")                       \* an error that is not retryable
     \/ IF exhausted(n) THEN sent("retries_exhausted")
        ELSE IF ~ shifts(n) THEN sent("backoff_overflow")
        ELSE cmd' = [cmd EXCEPT ![c].attempts = n, ![c].slept = Append(@, backoff_for_attempt(n))]
  /\ UNCHANGED <<settings, store, tokens, history, changes>>

(***************************************************************************)
(* The surroundings.                                                       *)
(***************************************************************************)
token_expires ==
  /\ \E t \in 1..issued : expired' = expired \cup {t}
  /\ UNCHANGED <<settings, store, issued, refreshable, cmd, history, changes>>

keyring_changes ==
  /\ changes < MaxChanges /\ changes' = changes + 1
  /\ keyring' \in {"up", "down", "broken"} \ {keyring}
  /\ muddled' = TRUE
  /\ UNCHANGED <<settings, ring, token_file, tmp, tokens, cmd, latest, stored_before, signed_out>>

AuthNext ==
  \/ \E c \in Commands :
       \/ run_login(c) \/ run_logout(c) \/ start_command(c, "prompt") \/ start_command(c, "doctor")
       \/ \E s \in Commands : wait_for_oauth_callback(c, s)
       \/ resolve_saved_oauth_token_set(c)
       \/ save_secret_to_system_store(c) \/ remove_oauth_credentials_from_file(c)
       \/ write_restricted_credentials_file(c) \/ remove_old_file(c) \/ rename_new_file(c)
       \/ unring(c) \/ clear_legacy(c)
       \/ send_with_retry(c)
  \/ token_expires \/ keyring_changes

----------------------------------------------------------------------------
(***************************************************************************)
(* Properties.                                                             *)
(***************************************************************************)
\* While one command writes at a time and the keyring stays as it is, what
\* the next command loads is the token stored last, and nothing once logged
\* out; a command killed while it writes leaves the old token or the new one,
\* except between the removal of the old file and the rename of the new one.
LoadsWhatWasStored ==
  (~muddled /\ keyring # "broken") =>
    IF \A c \in Commands : ~Writing(c) THEN load_oauth_credentials = latest
    ELSE load_oauth_credentials \in {latest, stored_before}
           \cup {cmd[c].tok : c \in {d \in Commands : Writing(d)}}
           \cup (IF \E c \in Commands : cmd[c].pc \in {"rename", "unring", "legacy"} THEN {0} ELSE {})

\* No prompt is sent with a token that had expired when the command chose it:
\* it is refreshed first, or the command fails; doctor never calls it usable.
NeverSentExpired == \A c \in Commands : cmd[c].attempts > 0 \/ cmd[c].said = "ok" => ~cmd[c].stale

\* A request is sent at most max_retries + 1 times, with a delay before each
\* repetition that never shrinks and never exceeds max_backoff; it is given
\* up only after the last attempt.
RetriesBounded ==
  \A c \in Commands :
    LET s == cmd[c].slept IN
    /\ cmd[c].attempts <= max_retries + 1
    /\ cmd[c].attempts > 0 => Len(s) \in {cmd[c].attempts - 1, cmd[c].attempts}
    /\ cmd[c].said = "retries_exhausted" => cmd[c].attempts = max_retries + 1
    /\ \A i \in 1..Len(s) : s[i] <= max_backoff /\ (i > 1 => s[i - 1] <= s[i])

\* What is stored is what is loaded, used and retried.
CredentialsSound == LoadsWhatWasStored /\ NeverSentExpired /\ RetriesBounded
=============================================================================
