------------------------------ MODULE Lifecycle ------------------------------
(***************************************************************************)
(* How a node comes up: the page asks whether there is a vault, the user   *)
(* creates or unlocks it (main.js, commands.rs, vault.rs), and             *)
(* complete_initialize builds the AppState from its key, starts the        *)
(* services that announce the node, and starts Tor, whose status the page  *)
(* gets from events and by polling (state.rs).                             *)
(*                                                                         *)
(* The process may crash, the page may be reloaded with commands under     *)
(* way, the user may mistype, the database may fail to open.  A call of    *)
(* create_vault or unlock_vault runs on whatever becomes of its page.      *)
(***************************************************************************)
EXTENDS Naturals

CONSTANTS
  None,
  Torn,      \* what is in the vault file while it is written
  MAX_FAULTS \* bound on crashes, reloads, typing errors and failures

ASSUME LifecycleAssumption ==
  /\ MAX_FAULTS \in Nat
  /\ None \notin Nat /\ Torn \notin Nat /\ None # Torn

\* Calls of create_vault and unlock_vault that start the services or are cut off:
\* one, and one more for every fault.
Call == 1..MAX_FAULTS + 1

\* The key that a call generates bears its number; 0 is the key that an older
\* version has left in the keyring.
Key == 0..MAX_FAULTS + 1

VARIABLES
  keyring,   \* 0 or None
  vault,     \* vault.key: a key, Torn, or None when there is no such file
  calls,     \* where every call is, its key, and the page it answers
  page,      \* how often the page has been reloaded
  screen,    \* what the page shows
  app,       \* the managed AppState: the key, and the call that has built it
  tor,       \* tor[c]: tor_ctx of the AppState that call c has built
  unsent,    \* calls whose Tor task has a tor_status to emit
  chip,      \* the Tor status that the page shows
  polled,    \* the reply to get_tor_status on its way, None without one
  announced, \* keys whose node id has been announced
  raced,     \* a page that asks to create the vault is up while a call creates
             \* it, or after a call has announced its key and failed
  faults     \* spent so far

vars == <<keyring, vault, calls, page, screen, app, tor, unsent, chip, polled,
          announced, raced, faults>>

\* stalled is bootstrapping too, without a task that could end it.
Status == {"unavailable", "bootstrapping", "stalled", "ready", "failed"}
Unused == [at |-> "unused", key |-> None, page |-> 0]
Done == [Unused EXCEPT !.at = "done"]

TypeOK ==
  /\ keyring \in {0, None}
  /\ vault \in Key \cup {Torn, None}
  /\ calls \in [Call -> [at : {"unused", "derive", "write", "read", "init",
                               "ok", "late", "error", "done"},
                         key : Key \cup {None}, page : 0..MAX_FAULTS]]
  /\ page \in 0..MAX_FAULTS
  /\ screen \in {"check", "create", "unlock", "main"}
  /\ app = None \/ app \in [key : Key, call : Call]
  /\ tor \in [Call -> Status]
  /\ unsent \subseteq Call
  /\ chip \in Status
  /\ polled \in Status \cup {None}
  /\ announced \subseteq Key
  /\ raced \in BOOLEAN
  /\ faults \in 0..MAX_FAULTS

Init ==
  /\ keyring \in {0, None}
  /\ vault = None
  /\ calls = [c \in Call |-> Unused]
  /\ page = 0 /\ screen = "check"
  /\ app = None
  /\ tor = [c \in Call |-> "unavailable"] /\ unsent = {}
  /\ chip = "unavailable" /\ polled = None
  /\ announced = {} /\ raced = FALSE
  /\ faults = 0

Fault == faults < MAX_FAULTS /\ faults' = faults + 1

InFlight == {c \in Call : calls[c].at \notin {"unused", "done"}}

-----------------------------------------------------------------------------
(* The page: initApp, setupVaultScreens *)

\* check_vault_exists: a torn file exists too.  When the check fails, so does
\* create_vault, for the same reason, and the step is left out.
CheckVault ==
  /\ screen = "check"
  /\ screen' = IF vault # None THEN "unlock" ELSE "create"
  /\ raced' = (raced \/ \E c \in InFlight : calls[c].at \in {"derive", "write"})
  /\ UNCHANGED <<keyring, vault, calls, page, app, tor, unsent, chip, polled, announced,
                 faults>>

\* The button is disabled until the reply to this page is there.
Submit(c, call) ==
  /\ calls[c] = Unused /\ \A d \in 1..c-1 : calls[d] # Unused
  /\ \A d \in InFlight : calls[d].page # page
  /\ calls' = [calls EXCEPT ![c] = call]
  /\ UNCHANGED <<keyring, vault, page, screen, app, tor, unsent, chip, polled, announced,
                 raced, faults>>

\* create_vault takes the key of the keyring, or a new one.
Create(c) ==
  /\ screen = "create"
  /\ Submit(c, [at |-> "derive", key |-> IF keyring = None THEN c ELSE keyring,
                page |-> page])

Unlock(c) ==
  /\ screen = "unlock"
  /\ Submit(c, [at |-> "read", key |-> None, page |-> page])

\* proceedAfterVault, or the error below the password, and the number of the
\* call is free again; a page that has been reloaded gets neither.
Reply(c) ==
  /\ calls[c].at \in {"ok", "late", "error"}
  /\ calls' = [calls EXCEPT ![c] = IF @.at = "error" THEN Unused ELSE Done]
  /\ screen' = IF calls[c].at = "ok" /\ calls[c].page = page THEN "main" ELSE screen
  /\ UNCHANGED <<keyring, vault, page, app, tor, unsent, chip, polled, announced, raced,
                 faults>>

Reload ==
  /\ Fault
  /\ page' = page + 1 /\ screen' = "check"
  /\ chip' = "unavailable" /\ polled' = None
  /\ UNCHANGED <<keyring, vault, calls, app, tor, unsent, announced, raced>>

-----------------------------------------------------------------------------
(* create_vault, unlock_vault *)

At(c, from, to) ==
  /\ calls[c].at = from
  /\ calls' = [calls EXCEPT ![c].at = to]

\* The salt, the key derivation, and the file is truncated.
BeginWrite(c) ==
  /\ At(c, "derive", "write")
  /\ vault' = Torn
  /\ UNCHANGED <<keyring, page, screen, app, tor, unsent, chip, polled, announced, raced,
                 faults>>

EndWrite(c) ==
  /\ At(c, "write", "init")
  /\ vault' = calls[c].key
  /\ UNCHANGED <<keyring, page, screen, app, tor, unsent, chip, polled, announced, raced,
                 faults>>

\* The directory cannot be made or the file not opened, or the disk is full: a
\* file that has been truncated stays so.
WriteFails(c) ==
  /\ Fault
  /\ At(c, "derive", "error") \/ At(c, "write", "error")
  /\ UNCHANGED <<keyring, vault, page, screen, app, tor, unsent, chip, polled, announced,
                 raced>>

\* Fault: a file that is torn is replaced by a new key.
OpenVaultAnew(c) == IF vault \in Key THEN vault ELSE c

\* Fault: the salt is a new one each time, not the one in the file.
OpenVaultResalted(c) == IF page = 0 THEN vault ELSE None

\* The key in the file, for a call that was given the right password.
OpenVault(c) == vault

\* Fault: the length is not looked at.
ReadVaultUnchecked(c) ==
  /\ calls[c].at = "read"
  /\ calls' = [calls EXCEPT ![c].at = "init", ![c].key = vault]
  /\ UNCHANGED <<keyring, vault, page, screen, app, tor, unsent, chip, polled, announced,
                 raced, faults>>

ReadVault(c) ==
  /\ calls[c].at = "read"
  /\ calls' = [calls EXCEPT ![c].at = IF OpenVault(c) \in Key THEN "init" ELSE "error",
                            ![c].key = IF OpenVault(c) \in Key THEN OpenVault(c) ELSE None]
  /\ UNCHANGED <<keyring, vault, page, screen, app, tor, unsent, chip, polled, announced,
                 raced, faults>>

\* A wrong passphrase.
Mistype(c) ==
  /\ Fault
  /\ At(c, "read", "error")
  /\ UNCHANGED <<keyring, vault, page, screen, app, tor, unsent, chip, polled, announced,
                 raced>>

-----------------------------------------------------------------------------
(* complete_initialize *)

\* The database does not open; the vault has been written.
InitFails(c) ==
  /\ Fault
  /\ At(c, "init", "error")
  /\ UNCHANGED <<keyring, vault, page, screen, app, tor, unsent, chip, polled, announced,
                 raced>>

\* The AppState is set, and the broadcaster announces the node.
StartServices(c) ==
  /\ app' = [key |-> calls[c].key, call |-> c]
  /\ announced' = announced \cup {calls[c].key}

\* node_ready cannot be emitted, or the directory for Tor is not found: an error
\* is returned, the services run, and Tor is never started.
InitFailsLate(c) ==
  /\ Fault
  /\ At(c, "init", "late")
  /\ StartServices(c)
  /\ tor' = [tor EXCEPT ![c] = "stalled"]
  /\ raced' = (raced \/ (screen = "create" /\ calls[c].page = page))
  /\ UNCHANGED <<keyring, vault, page, screen, unsent, chip, polled>>

\* The Tor task begins with an event.
CompleteInitialize(c) ==
  /\ At(c, "init", "ok")
  /\ StartServices(c)
  /\ tor' = [tor EXCEPT ![c] = "bootstrapping"]
  /\ unsent' = unsent \cup {c}
  /\ UNCHANGED <<keyring, vault, page, screen, chip, polled, raced, faults>>

\* TorContext::launch comes back, or its 180 seconds are over.
TorSettles(c) ==
  /\ tor[c] = "bootstrapping" /\ c \notin unsent
  /\ \E s \in {"ready", "failed"} : tor' = [tor EXCEPT ![c] = s]
  /\ unsent' = unsent \cup {c}
  /\ UNCHANGED <<keyring, vault, calls, page, screen, app, chip, polled, announced, raced,
                 faults>>

\* tor_status.  What the chip gets before it can be seen is left out: a page
\* that has no listener yet misses it.
TorEmits(c) ==
  /\ c \in unsent
  /\ unsent' = unsent \ {c}
  /\ chip' = IF screen = "main" THEN tor[c] ELSE chip
  /\ UNCHANGED <<keyring, vault, calls, page, screen, app, tor, polled, announced, raced,
                 faults>>

-----------------------------------------------------------------------------
(* pollTorStatus, get_tor_status *)

Poll ==
  /\ screen = "main" /\ polled = None
  /\ polled' = tor[app.call]
  /\ UNCHANGED <<keyring, vault, calls, page, screen, app, tor, unsent, chip, announced,
                 raced, faults>>

\* Fault: a status that is final is not shown over another.
ShowOnce ==
  /\ polled # None
  /\ chip' = IF chip \in {"ready", "failed"} THEN chip ELSE polled
  /\ polled' = None
  /\ UNCHANGED <<keyring, vault, calls, page, screen, app, tor, unsent, announced, raced,
                 faults>>

ShowPolled ==
  /\ polled # None
  /\ chip' = polled
  /\ polled' = None
  /\ UNCHANGED <<keyring, vault, calls, page, screen, app, tor, unsent, announced, raced,
                 faults>>

-----------------------------------------------------------------------------
\* The process ends, wherever its calls are, and is started again.
Crash ==
  /\ Fault
  /\ calls' = [c \in Call |-> IF c \in InFlight THEN Done ELSE calls[c]]
  /\ page' = page + 1 /\ screen' = "check"
  /\ app' = None
  /\ tor' = [c \in Call |-> "unavailable"] /\ unsent' = {}
  /\ chip' = "unavailable" /\ polled' = None
  /\ UNCHANGED <<keyring, vault, announced, raced>>

Serve(c) ==
  \/ Reply(c) \/ BeginWrite(c) \/ EndWrite(c) \/ ReadVault(c) \/ CompleteInitialize(c)

Next ==
  \/ CheckVault \/ Reload \/ Crash
  \/ Poll \/ ShowPolled
  \/ \E c \in Call :
       \/ Create(c) \/ Unlock(c)
       \/ Serve(c) \/ Mistype(c) \/ WriteFails(c) \/ InitFails(c) \/ InitFailsLate(c)
       \/ TorSettles(c) \/ TorEmits(c)

Spec == Init /\ [][Next]_vars

\* The user answers the screen that is shown, calls are executed, launch ends
\* by its timeout at the latest, and the page polls every ten seconds.
FairSpec ==
  /\ Spec
  /\ WF_vars(CheckVault)
  /\ WF_vars(Poll \/ ShowPolled)
  /\ WF_vars(\E c \in Call : Create(c) \/ Unlock(c))
  /\ \A c \in Call : WF_vars(Serve(c)) /\ WF_vars(TorSettles(c)) /\ WF_vars(TorEmits(c))

-----------------------------------------------------------------------------
(* Properties *)

\* The identity that a node has announced is the one in its vault, whatever
\* crashed, failed or was called twice.  Only a page loaded while the vault was
\* being created, or one whose call has announced it and then failed, can bring
\* a node to create a second one over it.
IdentityKept == ~raced => announced \subseteq {vault}

\* The node comes up in the end, with crashes, reloads, wrong passwords and
\* failures on the way, and stays up, except when a crash, or a write that fails
\* and a reload, leaves a torn vault file: it then exists, cannot be opened, and
\* cannot be created again.
EventuallyRuns == <>[](vault = Torn \/ (app # None /\ screen = "main"))

\* The Tor status that the page shows comes to be the one of the AppState that
\* the commands use, with events that were missed or that an earlier AppState
\* has sent, and replies that events have overtaken.  It is final, unless that
\* AppState is of a call that failed before it started Tor.
TorStatusSettles ==
  <>[](screen = "main" =>
         chip = tor[app.call] /\ chip \in {"ready", "failed", "stalled"})
=============================================================================
