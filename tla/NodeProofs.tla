------------------------------ MODULE NodeProofs ------------------------------
(***************************************************************************)
(* Theorems about the two state machines that a node keeps for itself: its *)
(* vault and life cycle (Lifecycle), and the state of its network          *)
(* (Emergency), for every number of faults, changes and commands.          *)
(***************************************************************************)
EXTENDS Lifecycle, Emergency, TLAPS

-----------------------------------------------------------------------------
(* The vault and the life cycle *)

(***************************************************************************)
(* The inductive invariant.  HasKey, Built and PagesBounded complete types.*)
(* The vault is missing only until the first call begins to write it, and  *)
(* a page shows more than the screen to create it only when it is there.   *)
(* As long as the node was not brought to create a second vault, a call    *)
(* that is about to write it is the only one under way, and has been       *)
(* submitted before anything was announced.  A call that has failed and    *)
(* has only its reply to give is not under way any more.                   *)
(***************************************************************************)
Active == {c \in InFlight : calls[c].at # "error"}

HasKey ==
  \A c \in Call : calls[c].at \in {"derive", "write", "init"} => calls[c].key \in Key

PagesBounded == page <= faults

Built ==
  screen = "main" \/ (\E c \in Call : calls[c].at = "ok") => app \in [key : Key, call : Call]

MissingAtFirst ==
  /\ vault = None => \A c \in Active : calls[c].at = "derive"
  /\ screen \in {"unlock", "main"} => vault # None

WritingAlone ==
  \A c \in Call : calls[c].at \in {"derive", "write"} =>
    /\ Active = {c}
    /\ announced = {}
    /\ screen \in {"check", "create"}

CreateUnannounced ==
  screen = "create" =>
    /\ \A c \in Active : calls[c].page = page
    /\ announced = {} \/ \E c \in Active : calls[c].at = "ok"

VaultOfCalls ==
  /\ \A c \in Call : calls[c].at = "init" => calls[c].key = vault
  /\ announced \subseteq {vault}

Types == TypeOK /\ HasKey /\ Built /\ PagesBounded /\ MissingAtFirst
Identity == WritingAlone /\ CreateUnannounced /\ VaultOfCalls
LifecycleInv == Types /\ (~raced => Identity)

-----------------------------------------------------------------------------
(* Steps of calls *)

Stages == {"unused", "derive", "write", "read", "init", "ok", "late", "error",
           "done"}
Calls == [Call -> [at : Stages, key : Key \cup {None}, page : 0..MAX_FAULTS]]

\* A step of a call changes where this call is, and nothing else of calls.
LEMMA AtStep ==
  ASSUME calls \in Calls, NEW c \in Call, NEW from, NEW to \in Stages, At(c, from, to)
  PROVE  /\ calls' \in Calls
         /\ calls[c].at = from /\ calls'[c].at = to
         /\ calls'[c].key = calls[c].key /\ calls'[c].page = calls[c].page
         /\ \A d \in Call : d # c => calls'[d] = calls[d]
BY DEF At, Calls, Stages

LEMMA SubmitStep ==
  ASSUME calls \in Calls, NEW c \in Call,
         NEW call \in [at : Stages, key : Key \cup {None}, page : 0..MAX_FAULTS],
         Submit(c, call)
  PROVE  /\ calls' \in Calls
         /\ calls[c].at = "unused" /\ calls'[c] = call
         /\ \A d \in Call : d # c => calls'[d] = calls[d]
         /\ \A d \in InFlight : calls[d].page # page
BY DEF Submit, Calls, Stages, Unused

LEMMA ReadStep ==
  ASSUME calls \in Calls, NEW c \in Call, ReadVault(c)
  PROVE  /\ calls' \in Calls
         /\ calls[c].at = "read"
         /\ calls'[c].page = calls[c].page
         /\ \/ vault \in Key /\ calls'[c].at = "init" /\ calls'[c].key = vault
            \/ calls'[c].at = "error"
         /\ \A d \in Call : d # c => calls'[d] = calls[d]
<1>1. CASE vault \in Key
  BY <1>1 DEF ReadVault, OpenVault, Calls, Stages
<1>2. CASE vault \notin Key
  BY <1>2 DEF ReadVault, OpenVault, Calls, Stages
<1>. QED BY <1>1, <1>2

LEMMA ReplyStep ==
  ASSUME calls \in Calls, NEW c \in Call, Reply(c)
  PROVE  /\ calls' \in Calls
         /\ calls[c].at \in {"ok", "late", "error"}
         /\ calls'[c].at \in {"unused", "done"}
         /\ \A d \in Call : d # c => calls'[d] = calls[d]
<1>1. Done \in [at : Stages, key : Key \cup {None}, page : 0..MAX_FAULTS] /\ Done.at = "done"
  BY LifecycleAssumption DEF Done, Unused, Stages
<1>2. Unused \in [at : Stages, key : Key \cup {None}, page : 0..MAX_FAULTS]
      /\ Unused.at = "unused"
  BY LifecycleAssumption DEF Unused, Stages
<1>3. PICK r \in {Done, Unused} : calls' = [calls EXCEPT ![c] = r]
  BY DEF Reply, Calls
<1>. QED BY <1>1, <1>2, <1>3 DEF Reply, Calls

LEMMA CrashStep ==
  ASSUME calls \in Calls, Crash
  PROVE  calls' \in Calls /\ InFlight' = {}
<1>1. Done \in [at : Stages, key : Key \cup {None}, page : 0..MAX_FAULTS] /\ Done.at = "done"
  BY LifecycleAssumption DEF Done, Unused, Stages
<1>2. calls' = [c \in Call |-> IF c \in InFlight THEN Done ELSE calls[c]]
  BY DEF Crash
<1>3. calls' \in Calls
  BY <1>1, <1>2 DEF Calls
<1>4. ASSUME NEW c \in Call
      PROVE  calls'[c].at \in {"unused", "done"}
  BY <1>1, <1>2 DEF InFlight
<1>. QED BY <1>3, <1>4 DEF InFlight

-----------------------------------------------------------------------------
(* Types is preserved by every action.                                     *)

LEMMA TypesGive ==
  ASSUME Types
  PROVE  /\ calls \in Calls /\ page \in 0..MAX_FAULTS /\ faults \in 0..MAX_FAULTS
         /\ vault \in Key \cup {Torn, None}
         /\ None \notin Key /\ Torn \notin Key /\ None # Torn
BY LifecycleAssumption DEF Types, TypeOK, Calls, Stages, Key

LEMMA PageTypes ==
  ASSUME Types, CheckVault \/ Reload \/ Poll \/ ShowPolled
  PROVE  Types'
<1>. USE TypesGive, LifecycleAssumption
     DEF Types, TypeOK, HasKey, Built, PagesBounded, MissingAtFirst, InFlight, Active
<1>1. CASE CheckVault
  <2>1. raced' \in BOOLEAN
    BY <1>1, Zenon DEF CheckVault
  <2>. QED BY <1>1, <2>1 DEF CheckVault
<1>2. CASE Reload
  BY <1>2 DEF Reload, Fault, Status
<1>3. CASE Poll
  <2>1. app.call \in Call
    BY <1>3 DEF Poll
  <2>. QED BY <1>3, <2>1 DEF Poll
<1>4. CASE ShowPolled
  BY <1>4 DEF ShowPolled
<1>. QED BY <1>1, <1>2, <1>3, <1>4

LEMMA TorTypes ==
  ASSUME Types, NEW c \in Call, TorSettles(c) \/ TorEmits(c)
  PROVE  Types'
<1>. USE TypesGive DEF Types, TypeOK, HasKey, Built, PagesBounded, MissingAtFirst, InFlight, Active
<1>1. CASE TorSettles(c)
  <2>1. tor' \in [Call -> Status]
    BY <1>1 DEF TorSettles, Status
  <2>. QED BY <1>1, <2>1 DEF TorSettles
<1>2. CASE TorEmits(c)
  BY <1>2 DEF TorEmits
<1>. QED BY <1>1, <1>2

LEMMA SubmitTypes ==
  ASSUME Types, NEW c \in Call, Create(c) \/ Unlock(c)
  PROVE  Types'
<1>. USE TypesGive DEF Types, TypeOK, HasKey, Built, PagesBounded, MissingAtFirst, InFlight, Active
<1>1. CASE Create(c)
  <2>. DEFINE key == IF keyring = None THEN c ELSE keyring
              call == [at |-> "derive", key |-> key, page |-> page]
  <2>1. key \in Key
    BY LifecycleAssumption DEF Key, Call
  <2>2. call \in [at : Stages, key : Key \cup {None}, page : 0..MAX_FAULTS]
    BY <2>1 DEF Stages
  <2>3. Submit(c, call)
    BY <1>1 DEF Create
  <2>4. call.at = "derive" /\ call.key \in Key
    BY <2>1
  <2>. HIDE DEF call
  <2>5. calls' \in Calls /\ calls'[c] = call /\ \A d \in Call : d # c => calls'[d] = calls[d]
    BY <2>2, <2>3, SubmitStep
  <2>. QED BY <2>3, <2>4, <2>5 DEF Submit, Calls, Stages
<1>2. CASE Unlock(c)
  <2>. DEFINE call == [at |-> "read", key |-> None, page |-> page]
  <2>2. call \in [at : Stages, key : Key \cup {None}, page : 0..MAX_FAULTS]
    BY DEF Stages
  <2>3. Submit(c, call) /\ screen = "unlock"
    BY <1>2 DEF Unlock
  <2>4. call.at = "read"
    OBVIOUS
  <2>. HIDE DEF call
  <2>5. calls' \in Calls /\ calls'[c] = call /\ \A d \in Call : d # c => calls'[d] = calls[d]
    BY <2>2, <2>3, SubmitStep
  <2>. QED BY <2>3, <2>4, <2>5 DEF Submit, Calls, Stages
<1>. QED BY <1>1, <1>2

LEMMA CallTypes ==
  ASSUME Types, NEW c \in Call,
         \/ BeginWrite(c) \/ EndWrite(c) \/ WriteFails(c) \/ Mistype(c) \/ InitFails(c)
         \/ InitFailsLate(c) \/ CompleteInitialize(c)
  PROVE  Types'
<1>. USE TypesGive DEF Types, TypeOK, HasKey, Built, PagesBounded, MissingAtFirst, InFlight,
                       Active, Calls, Stages
<1>1. CASE BeginWrite(c)
  <2>1. At(c, "derive", "write")
    BY <1>1 DEF BeginWrite
  <2>2. /\ calls' \in Calls /\ calls[c].at = "derive" /\ calls'[c].at = "write"
        /\ calls'[c].key = calls[c].key
        /\ \A d \in Call : d # c => calls'[d] = calls[d]
    BY <2>1, AtStep
  <2>3. TypeOK' /\ PagesBounded'
    BY <1>1, <2>2 DEF BeginWrite
  <2>4. HasKey' /\ Built'
    BY <1>1, <2>2 DEF BeginWrite
  <2>5. MissingAtFirst'
    BY <1>1 DEF BeginWrite
  <2>. QED BY <2>3, <2>4, <2>5
<1>2. CASE EndWrite(c)
  <2>1. At(c, "write", "init")
    BY <1>2 DEF EndWrite
  <2>2. /\ calls' \in Calls /\ calls[c].at = "write" /\ calls'[c].at = "init"
        /\ calls'[c].key = calls[c].key /\ calls[c].key \in Key
        /\ \A d \in Call : d # c => calls'[d] = calls[d]
    BY <2>1, AtStep
  <2>3. TypeOK' /\ PagesBounded'
    BY <1>2, <2>2 DEF EndWrite
  <2>4. HasKey' /\ Built'
    BY <1>2, <2>2 DEF EndWrite
  <2>5. MissingAtFirst'
    BY <1>2, <2>2 DEF EndWrite
  <2>. QED BY <2>3, <2>4, <2>5
<1>3. CASE Mistype(c)
  <2>1. At(c, "read", "error")
    BY <1>3 DEF Mistype
  <2>2. /\ calls' \in Calls /\ calls[c].at = "read" /\ calls'[c].at = "error"
        /\ \A d \in Call : d # c => calls'[d] = calls[d]
    BY <2>1, AtStep
  <2>3. TypeOK' /\ PagesBounded'
    BY <1>3, <2>2, LifecycleAssumption DEF Mistype, Fault
  <2>4. HasKey' /\ Built'
    BY <1>3, <2>2 DEF Mistype
  <2>5. MissingAtFirst'
    BY <1>3, <2>2 DEF Mistype
  <2>. QED BY <2>3, <2>4, <2>5
<1>4. CASE InitFails(c)
  <2>1. At(c, "init", "error")
    BY <1>4 DEF InitFails
  <2>2. /\ calls' \in Calls /\ calls[c].at = "init" /\ calls'[c].at = "error"
        /\ \A d \in Call : d # c => calls'[d] = calls[d]
    BY <2>1, AtStep
  <2>3. TypeOK' /\ PagesBounded'
    BY <1>4, <2>2, LifecycleAssumption DEF InitFails, Fault
  <2>4. HasKey' /\ Built'
    BY <1>4, <2>2 DEF InitFails
  <2>5. MissingAtFirst'
    BY <1>4, <2>2 DEF InitFails
  <2>. QED BY <2>3, <2>4, <2>5
<1>5. CASE CompleteInitialize(c)
  <2>1. At(c, "init", "ok")
    BY <1>5 DEF CompleteInitialize
  <2>2. app' \in [key : Key, call : Call]
    BY <1>5, <2>1, AtStep DEF CompleteInitialize, StartServices
  <2>3. tor' \in [Call -> Status]
    BY <1>5 DEF CompleteInitialize, Status
  <2>4. /\ calls' \in Calls /\ calls[c].at = "init" /\ calls'[c].at = "ok"
        /\ calls[c].key \in Key
        /\ \A d \in Call : d # c => calls'[d] = calls[d]
    BY <2>1, AtStep
  <2>5. TypeOK' /\ PagesBounded'
    BY <1>5, <2>2, <2>3, <2>4 DEF CompleteInitialize, StartServices
  <2>6. HasKey' /\ Built'
    BY <1>5, <2>2, <2>4 DEF CompleteInitialize
  <2>7. MissingAtFirst'
    BY <1>5, <2>4 DEF CompleteInitialize
  <2>. QED BY <2>5, <2>6, <2>7
<1>6. CASE InitFailsLate(c)
  <2>1. At(c, "init", "late")
    BY <1>6 DEF InitFailsLate
  <2>2. app' \in [key : Key, call : Call]
    BY <1>6, <2>1, AtStep DEF InitFailsLate, StartServices
  <2>3. tor' \in [Call -> Status] /\ raced' \in BOOLEAN
    <3>1. tor' \in [Call -> Status]
      BY <1>6 DEF InitFailsLate, Status
    <3>2. raced' \in BOOLEAN
      BY <1>6, Zenon DEF InitFailsLate
    <3>. QED BY <3>1, <3>2
  <2>4. /\ calls' \in Calls /\ calls[c].at = "init" /\ calls'[c].at = "late"
        /\ calls[c].key \in Key
        /\ \A d \in Call : d # c => calls'[d] = calls[d]
    BY <2>1, AtStep
  <2>5. TypeOK' /\ PagesBounded'
    BY <1>6, <2>2, <2>3, <2>4, LifecycleAssumption DEF InitFailsLate, StartServices, Fault
  <2>6. HasKey' /\ Built'
    BY <1>6, <2>2, <2>4 DEF InitFailsLate
  <2>7. MissingAtFirst'
    BY <1>6, <2>4 DEF InitFailsLate
  <2>. QED BY <2>5, <2>6, <2>7
<1>7. CASE WriteFails(c)
  <2>1. PICK from \in {"derive", "write"} : At(c, from, "error")
    BY <1>7 DEF WriteFails
  <2>2. /\ calls' \in Calls /\ calls[c].at = from /\ calls'[c].at = "error"
        /\ \A d \in Call : d # c => calls'[d] = calls[d]
    BY <2>1, AtStep
  <2>3. TypeOK' /\ PagesBounded'
    BY <1>7, <2>2, LifecycleAssumption DEF WriteFails, Fault
  <2>4. HasKey' /\ Built'
    BY <1>7, <2>2 DEF WriteFails
  <2>5. MissingAtFirst'
    BY <1>7, <2>2 DEF WriteFails
  <2>. QED BY <2>3, <2>4, <2>5
<1>. QED BY <1>1, <1>2, <1>3, <1>4, <1>5, <1>6, <1>7

LEMMA OtherCallTypes ==
  ASSUME Types, \/ \E c \in Call : ReadVault(c) \/ Reply(c)
                \/ Crash
  PROVE  Types'
<1>. USE TypesGive DEF Types, TypeOK, HasKey, Built, PagesBounded, MissingAtFirst, InFlight,
                       Active, Calls, Stages
<1>1. ASSUME NEW c \in Call, ReadVault(c)
      PROVE  Types'
  <2>1. /\ calls' \in Calls /\ calls[c].at = "read"
        /\ calls'[c].at = "error" \/ (calls'[c].at = "init" /\ calls'[c].key \in Key)
        /\ \A d \in Call : d # c => calls'[d] = calls[d]
    BY <1>1, ReadStep
  <2>2. TypeOK' /\ PagesBounded'
    BY <1>1, <2>1 DEF ReadVault
  <2>3. HasKey'
    BY <1>1, <2>1 DEF ReadVault
  <2>4. Built'
    BY <1>1, <2>1 DEF ReadVault
  <2>5. MissingAtFirst'
    BY <1>1, <2>1 DEF ReadVault
  <2>. QED BY <2>2, <2>3, <2>4, <2>5
<1>2. ASSUME NEW c \in Call, Reply(c)
      PROVE  Types'
  <2>1. /\ calls' \in Calls /\ calls[c].at \in {"ok", "late", "error"}
        /\ calls'[c].at \in {"unused", "done"}
        /\ \A d \in Call : d # c => calls'[d] = calls[d]
    BY <1>2, ReplyStep
  <2>2. screen' = screen \/ (screen' = "main" /\ calls[c].at = "ok")
    BY <1>2 DEF Reply
  <2>3. TypeOK' /\ PagesBounded'
    BY <1>2, <2>1, <2>2 DEF Reply
  <2>4. HasKey' /\ Built'
    BY <1>2, <2>1, <2>2 DEF Reply
  <2>5. MissingAtFirst'
    BY <1>2, <2>1, <2>2 DEF Reply
  <2>. QED BY <2>3, <2>4, <2>5
<1>3. CASE Crash
  <2>1. tor' \in [Call -> Status] /\ chip' \in Status
    BY <1>3 DEF Crash, Status
  <2>2. calls' \in Calls /\ InFlight' = {}
    BY <1>3, CrashStep
  <2>3. \A c \in Call : calls'[c].at \in {"unused", "done"}
    BY <2>2
  <2>4. TypeOK' /\ PagesBounded'
    BY <1>3, <2>1, <2>2, LifecycleAssumption DEF Crash, Fault
  <2>5. HasKey' /\ Built' /\ MissingAtFirst'
    BY <1>3, <2>3 DEF Crash
  <2>. QED BY <2>4, <2>5
<1>. QED BY <1>1, <1>2, <1>3

-----------------------------------------------------------------------------
(* Identity is preserved by every action that does not set raced.          *)

IdentityStep == ~raced' => Identity'

LEMMA NoneFlightEmpty ==
  ASSUME Types, VaultOfCalls, vault = None
  PROVE  announced = {}
BY TypesGive DEF Types, TypeOK, VaultOfCalls

LEMMA QuietIdentity ==
  ASSUME LifecycleInv, UNCHANGED <<vault, calls, page, screen, announced, raced>>
  PROVE  IdentityStep
BY DEF LifecycleInv, IdentityStep, Identity, WritingAlone, CreateUnannounced, VaultOfCalls,
       InFlight, Active

LEMMA PageIdentity ==
  ASSUME LifecycleInv, CheckVault \/ Reload
  PROVE  IdentityStep
<1>. SUFFICES ASSUME ~raced'
              PROVE  Identity'
  BY DEF IdentityStep
<1>1. CASE CheckVault
  <2>1. ~raced /\ \A c \in InFlight : calls[c].at \notin {"derive", "write"}
    BY <1>1, Zenon DEF CheckVault
  <2>2. Types /\ WritingAlone /\ VaultOfCalls
    BY <2>1 DEF LifecycleInv, Identity
  <2>3. \A c \in Call : calls[c].at \notin {"derive", "write"}
    BY <2>1 DEF InFlight
  <2>4. screen' = "create" => vault = None
    BY <1>1 DEF CheckVault
  <2>5. vault = None => Active = {} /\ announced = {}
    BY <2>1, <2>2, NoneFlightEmpty DEF Types, MissingAtFirst, Active
  <2>6. Active' = Active
    BY <1>1 DEF CheckVault, InFlight, Active
  <2>7. WritingAlone' /\ VaultOfCalls'
    BY <1>1, <2>2, <2>3 DEF CheckVault, WritingAlone, VaultOfCalls
  <2>8. CreateUnannounced'
    BY <1>1, <2>4, <2>5, <2>6 DEF CheckVault, CreateUnannounced
  <2>. QED BY <2>7, <2>8 DEF Identity
<1>2. CASE Reload
  <2>1. Identity /\ Active' = Active
    BY <1>2 DEF Reload, LifecycleInv, InFlight, Active
  <2>. QED BY <1>2, <2>1
       DEF Reload, Identity, WritingAlone, CreateUnannounced, VaultOfCalls
<1>. QED BY <1>1, <1>2

LEMMA CreateIdentity ==
  ASSUME LifecycleInv, NEW c \in Call, Create(c)
  PROVE  IdentityStep
<1>. SUFFICES ASSUME ~raced'
              PROVE  Identity'
  BY DEF IdentityStep
<1>. DEFINE key == IF keyring = None THEN c ELSE keyring
            call == [at |-> "derive", key |-> key, page |-> page]
<1>1. Types /\ calls \in Calls
  BY TypesGive DEF LifecycleInv
<1>2. key \in Key
  BY <1>1, LifecycleAssumption DEF Types, TypeOK, Key, Call
<1>3. call \in [at : Stages, key : Key \cup {None}, page : 0..MAX_FAULTS]
  BY <1>1, <1>2 DEF Stages, Types, TypeOK
<1>4. screen = "create" /\ Submit(c, call)
  BY DEF Create
<1>5. call.at = "derive" /\ call.page = page
  OBVIOUS
<1>. HIDE DEF call
<1>6. /\ calls'[c] = call
      /\ \A d \in Call : d # c => calls'[d] = calls[d]
      /\ \A d \in InFlight : calls[d].page # page
  BY <1>1, <1>3, <1>4, SubmitStep
<1>7. Identity /\ UNCHANGED <<vault, page, screen, announced>>
  BY <1>4 DEF Submit, LifecycleInv
<1>8. Active = {} /\ announced = {}
  BY <1>4, <1>6, <1>7 DEF Identity, CreateUnannounced, Active
<1>9. Active' = {c}
  BY <1>5, <1>6, <1>8 DEF InFlight, Active
<1>10. \A d \in Call : d # c => calls'[d].at \in {"unused", "done", "error"}
  BY <1>6, <1>8 DEF InFlight, Active
<1>11. WritingAlone'
  BY <1>4, <1>7, <1>8, <1>9, <1>10 DEF WritingAlone
<1>12. CreateUnannounced'
  BY <1>5, <1>6, <1>7, <1>8, <1>9 DEF CreateUnannounced
<1>13. VaultOfCalls'
  BY <1>5, <1>6, <1>7, <1>8, <1>10 DEF VaultOfCalls
<1>. QED BY <1>11, <1>12, <1>13 DEF Identity

LEMMA UnlockIdentity ==
  ASSUME LifecycleInv, NEW c \in Call, Unlock(c)
  PROVE  IdentityStep
<1>. SUFFICES ASSUME ~raced'
              PROVE  Identity'
  BY DEF IdentityStep
<1>. DEFINE call == [at |-> "read", key |-> None, page |-> page]
<1>1. Types /\ calls \in Calls
  BY TypesGive DEF LifecycleInv
<1>2. call \in [at : Stages, key : Key \cup {None}, page : 0..MAX_FAULTS]
  BY <1>1 DEF Stages, Types, TypeOK
<1>3. screen = "unlock" /\ Submit(c, call)
  BY DEF Unlock
<1>4. call.at = "read"
  OBVIOUS
<1>. HIDE DEF call
<1>5. calls'[c] = call /\ \A d \in Call : d # c => calls'[d] = calls[d]
  BY <1>1, <1>2, <1>3, SubmitStep
<1>6. Identity /\ UNCHANGED <<vault, page, screen, announced>>
  BY <1>3 DEF Submit, LifecycleInv
<1>7. \A d \in Call : calls[d].at \notin {"derive", "write"}
  BY <1>3, <1>6 DEF Identity, WritingAlone
<1>8. WritingAlone'
  BY <1>4, <1>5, <1>7 DEF WritingAlone
<1>9. CreateUnannounced'
  BY <1>3, <1>6 DEF CreateUnannounced
<1>10. VaultOfCalls'
  BY <1>4, <1>5, <1>6 DEF Identity, VaultOfCalls
<1>. QED BY <1>8, <1>9, <1>10 DEF Identity

\* A call that leaves its stage for another, while nothing is written.
LEMMA MovedIdentity ==
  ASSUME Types, Identity, NEW c \in Call, calls[c].at \in {"read", "init", "ok", "late"},
         \A d \in Call : d # c => calls'[d] = calls[d],
         calls'[c].at \notin {"derive", "write"}
  PROVE  \A d \in Call : calls'[d].at \notin {"derive", "write"}
<1>1. c \in Active
  BY DEF InFlight, Active
<1>2. \A d \in Call : calls[d].at \notin {"derive", "write"}
  BY <1>1 DEF Identity, WritingAlone
<1>. QED BY <1>2

LEMMA WriteIdentity ==
  ASSUME LifecycleInv, NEW c \in Call, BeginWrite(c) \/ EndWrite(c)
  PROVE  IdentityStep
<1>. SUFFICES ASSUME ~raced'
              PROVE  Identity'
  BY DEF IdentityStep
<1>1. calls \in Calls /\ Identity /\ UNCHANGED <<page, screen, announced>>
  BY TypesGive DEF LifecycleInv, BeginWrite, EndWrite
<1>2. PICK to \in {"write", "init"} :
        /\ calls[c].at \in {"derive", "write"}
        /\ calls'[c].at = to /\ calls'[c].key = calls[c].key /\ calls'[c].page = calls[c].page
        /\ to = "init" => vault' = calls[c].key
        /\ \A d \in Call : d # c => calls'[d] = calls[d]
  <2>1. CASE BeginWrite(c)
    <3>1. At(c, "derive", "write") /\ "write" \in Stages
      BY <2>1 DEF BeginWrite, Stages
    <3>. QED BY <1>1, <3>1, AtStep
  <2>2. CASE EndWrite(c)
    <3>1. At(c, "write", "init") /\ "init" \in Stages
      BY <2>2 DEF EndWrite, Stages
    <3>. QED BY <1>1, <2>2, <3>1, AtStep DEF EndWrite
  <2>. QED BY <2>1, <2>2
<1>3. Active = {c} /\ announced = {} /\ screen \in {"check", "create"}
  BY <1>1, <1>2 DEF Identity, WritingAlone
<1>4. \A d \in Call : d # c => calls'[d].at \in {"unused", "done", "error"}
  BY <1>2, <1>3 DEF InFlight, Active
<1>5. Active' = {c}
  BY <1>2, <1>4 DEF InFlight, Active
<1>6. WritingAlone'
  BY <1>1, <1>3, <1>4, <1>5 DEF WritingAlone
<1>7. CreateUnannounced'
  <2>1. screen' = screen /\ page' = page /\ announced' = {}
    BY <1>1, <1>3
  <2>2. screen = "create" => calls'[c].page = page
    BY <1>1, <1>2, <1>3 DEF Identity, CreateUnannounced
  <2>. QED BY <1>5, <2>1, <2>2 DEF CreateUnannounced
<1>8. VaultOfCalls'
  BY <1>1, <1>2, <1>3, <1>4 DEF VaultOfCalls
<1>. QED BY <1>6, <1>7, <1>8 DEF Identity

\* A write that fails leaves no call under way, and nothing announced.
LEMMA WriteFailsIdentity ==
  ASSUME LifecycleInv, NEW c \in Call, WriteFails(c)
  PROVE  IdentityStep
<1>. SUFFICES ASSUME ~raced'
              PROVE  Identity'
  BY DEF IdentityStep
<1>1. calls \in Calls /\ Identity /\ UNCHANGED <<vault, page, screen, announced>>
  BY TypesGive DEF LifecycleInv, WriteFails
<1>2. PICK from \in {"derive", "write"} : At(c, from, "error")
  BY DEF WriteFails
<1>3. /\ calls[c].at = from /\ calls'[c].at = "error"
      /\ \A d \in Call : d # c => calls'[d] = calls[d]
  BY <1>1, <1>2, AtStep DEF Stages
<1>4. Active = {c} /\ announced = {}
  BY <1>1, <1>3 DEF Identity, WritingAlone
<1>5. \A d \in Call : calls'[d].at \in {"unused", "done", "error"}
  BY <1>3, <1>4 DEF InFlight, Active
<1>6. Active' = {}
  BY <1>5 DEF InFlight, Active
<1>. QED BY <1>1, <1>4, <1>5, <1>6 DEF Identity, WritingAlone, CreateUnannounced, VaultOfCalls

LEMMA ReadIdentity ==
  ASSUME LifecycleInv, NEW c \in Call, ReadVault(c) \/ Mistype(c) \/ InitFails(c)
  PROVE  IdentityStep
<1>. SUFFICES ASSUME ~raced'
              PROVE  Identity'
  BY DEF IdentityStep
<1>1. /\ calls \in Calls /\ Types /\ Identity
      /\ UNCHANGED <<vault, page, screen, announced>>
  BY TypesGive DEF LifecycleInv, ReadVault, Mistype, InitFails
<1>2. /\ calls[c].at \in {"read", "init"}
      /\ calls'[c].at = "error" \/ (calls'[c].at = "init" /\ calls'[c].key = vault)
      /\ calls'[c].page = calls[c].page
      /\ \A d \in Call : d # c => calls'[d] = calls[d]
  <2>1. CASE ReadVault(c)
    BY <1>1, <2>1, ReadStep
  <2>2. CASE Mistype(c)
    <3>1. At(c, "read", "error") /\ "error" \in Stages
      BY <2>2 DEF Mistype, Stages
    <3>. QED BY <1>1, <3>1, AtStep
  <2>3. CASE InitFails(c)
    <3>1. At(c, "init", "error") /\ "error" \in Stages
      BY <2>3 DEF InitFails, Stages
    <3>. QED BY <1>1, <3>1, AtStep
  <2>. QED BY <2>1, <2>2, <2>3
<1>3. \A d \in Call : calls'[d].at \notin {"derive", "write"}
  BY <1>1, <1>2, MovedIdentity
<1>4. WritingAlone'
  BY <1>3 DEF WritingAlone
<1>5. Active' \subseteq Active
  BY <1>2 DEF InFlight, Active
<1>6. \A d \in Active :
        /\ calls'[d].page = calls[d].page
        /\ calls[d].at = "ok" => calls'[d].at = "ok" /\ d \in Active'
  BY <1>2 DEF InFlight, Active
<1>7. CreateUnannounced'
  <2>1. SUFFICES ASSUME screen = "create"
                 PROVE  /\ \A d \in Active' : calls'[d].page = page
                        /\ announced = {} \/ \E d \in Active' : calls'[d].at = "ok"
    BY <1>1 DEF CreateUnannounced
  <2>2. /\ \A d \in Active : calls[d].page = page
        /\ announced = {} \/ \E d \in Active : calls[d].at = "ok"
    BY <1>1, <2>1 DEF Identity, CreateUnannounced
  <2>3. \A d \in Active' : calls'[d].page = page
    BY <1>5, <1>6, <2>2
  <2>4. (\E d \in Active : calls[d].at = "ok") => \E d \in Active' : calls'[d].at = "ok"
    BY <1>6
  <2>. QED BY <2>2, <2>3, <2>4
<1>8. VaultOfCalls'
  BY <1>1, <1>2 DEF Identity, VaultOfCalls
<1>. QED BY <1>4, <1>7, <1>8 DEF Identity

LEMMA CompleteIdentity ==
  ASSUME LifecycleInv, NEW c \in Call, CompleteInitialize(c) \/ InitFailsLate(c)
  PROVE  IdentityStep
<1>. SUFFICES ASSUME ~raced'
              PROVE  Identity'
  BY DEF IdentityStep
<1>1. calls \in Calls /\ Types /\ Identity /\ UNCHANGED <<vault, page, screen>>
      /\ announced' = announced \cup {calls[c].key}
  BY TypesGive DEF LifecycleInv, CompleteInitialize, InitFailsLate, StartServices
<1>2. /\ calls[c].at = "init" /\ calls'[c].at \in {"ok", "late"}
      /\ calls'[c].page = calls[c].page
      /\ \A d \in Call : d # c => calls'[d] = calls[d]
  BY <1>1, AtStep DEF CompleteInitialize, InitFailsLate, Stages
<1>3. \A d \in Call : calls'[d].at \notin {"derive", "write"}
  BY <1>1, <1>2, MovedIdentity
<1>4. announced' \subseteq {vault}
  BY <1>1, <1>2 DEF Identity, VaultOfCalls
<1>5. WritingAlone'
  BY <1>3 DEF WritingAlone
<1>6. Active' = Active /\ c \in Active
  BY <1>2 DEF InFlight, Active
<1>7. \A d \in Active : calls'[d].page = calls[d].page
  BY <1>2 DEF InFlight, Active
<1>8. CreateUnannounced'
  <2>1. SUFFICES ASSUME screen = "create"
                 PROVE  /\ \A d \in Active : calls'[d].page = page
                        /\ calls'[c].at = "ok"
    BY <1>1, <1>6 DEF CreateUnannounced
  <2>2. \A d \in Active : calls[d].page = page
    BY <1>1, <2>1 DEF Identity, CreateUnannounced
  <2>3. calls'[c].at = "ok"
    <3>1. CASE CompleteInitialize(c)
      BY <1>1, <3>1, AtStep DEF CompleteInitialize, Stages
    <3>2. CASE InitFailsLate(c)
      <4>1. calls[c].page = page
        BY <1>6, <2>2
      <4>. QED BY <2>1, <3>2, <4>1, Zenon DEF InitFailsLate
    <3>. QED BY <3>1, <3>2
  <2>. QED BY <1>7, <2>2, <2>3
<1>9. VaultOfCalls'
  BY <1>1, <1>2, <1>4 DEF Identity, VaultOfCalls
<1>. QED BY <1>5, <1>8, <1>9 DEF Identity

LEMMA ReplyIdentity ==
  ASSUME LifecycleInv, NEW c \in Call, Reply(c)
  PROVE  IdentityStep
<1>. SUFFICES ASSUME ~raced'
              PROVE  Identity'
  BY DEF IdentityStep
<1>1. calls \in Calls /\ Types /\ Identity /\ UNCHANGED <<vault, page, announced>>
  BY TypesGive DEF LifecycleInv, Reply
<1>2. /\ calls[c].at \in {"ok", "late", "error"} /\ calls'[c].at \in {"unused", "done"}
      /\ \A d \in Call : d # c => calls'[d] = calls[d]
  BY <1>1, ReplyStep
<1>3. CASE calls[c].at = "error"
  <2>1. screen' = screen
    BY <1>3 DEF Reply
  <2>2. Active' = Active /\ c \notin Active
    BY <1>2, <1>3 DEF InFlight, Active
  <2>3. \A d \in Active : calls'[d] = calls[d]
    BY <1>2, <2>2 DEF InFlight, Active
  <2>4. WritingAlone'
    BY <1>1, <1>2, <2>1, <2>2 DEF Identity, WritingAlone
  <2>5. CreateUnannounced'
    BY <1>1, <2>1, <2>2, <2>3 DEF Identity, CreateUnannounced
  <2>6. VaultOfCalls'
    BY <1>1, <1>2 DEF Identity, VaultOfCalls
  <2>. QED BY <2>4, <2>5, <2>6 DEF Identity
<1>4. CASE calls[c].at \in {"ok", "late"}
  <2>1. \A d \in Call : calls'[d].at \notin {"derive", "write"}
    BY <1>1, <1>2, <1>4, MovedIdentity
  <2>2. screen' = "create" =>
          screen = "create" /\ ~ (calls[c].at = "ok" /\ calls[c].page = page)
    BY DEF Reply
  <2>3. c \in Active /\ Active' = Active \ {c}
    BY <1>2, <1>4 DEF InFlight, Active
  <2>4. WritingAlone'
    BY <2>1 DEF WritingAlone
  <2>5. CreateUnannounced'
    <3>1. SUFFICES ASSUME screen' = "create"
                   PROVE  /\ \A d \in Active' : calls'[d].page = page'
                          /\ announced' = {} \/ \E d \in Active' : calls'[d].at = "ok"
      BY DEF CreateUnannounced
    <3>2. /\ \A d \in Active : calls[d].page = page
          /\ announced = {} \/ \E d \in Active : calls[d].at = "ok"
      BY <1>1, <2>2, <3>1 DEF Identity, CreateUnannounced
    <3>3. calls[c].at # "ok"
      BY <2>2, <2>3, <3>1, <3>2
    <3>4. \A d \in Active' : calls'[d] = calls[d] /\ d \in Active
      BY <1>2, <2>3 DEF InFlight, Active
    <3>. QED BY <1>1, <2>3, <3>2, <3>3, <3>4
  <2>6. VaultOfCalls'
    BY <1>1, <1>2 DEF Identity, VaultOfCalls
  <2>. QED BY <2>4, <2>5, <2>6 DEF Identity
<1>. QED BY <1>2, <1>3, <1>4

LEMMA CrashIdentity ==
  ASSUME LifecycleInv, Crash
  PROVE  IdentityStep
<1>. SUFFICES ASSUME ~raced'
              PROVE  Identity'
  BY DEF IdentityStep
<1>1. calls \in Calls /\ Identity
  BY TypesGive DEF LifecycleInv, Crash
<1>2. \A c \in Call : calls'[c].at \in {"unused", "done"}
  BY <1>1, CrashStep DEF InFlight
<1>. QED BY <1>1, <1>2
     DEF Crash, Identity, WritingAlone, CreateUnannounced, VaultOfCalls, InFlight, Active

-----------------------------------------------------------------------------
(* Theorems *)

LEMMA NextKeepsTypes ==
  ASSUME LifecycleInv, Next
  PROVE  Types'
<1>1. Types
  BY DEF LifecycleInv
<1>. QED BY <1>1, PageTypes, TorTypes, SubmitTypes, CallTypes, OtherCallTypes DEF Next, Serve

LEMMA NextKeepsIdentity ==
  ASSUME LifecycleInv, Next
  PROVE  IdentityStep
<1>1. CASE CheckVault \/ Reload
  BY <1>1, PageIdentity
<1>2. CASE Crash
  BY <1>2, CrashIdentity
<1>3. CASE Poll \/ ShowPolled
  BY <1>3, QuietIdentity DEF Poll, ShowPolled
<1>4. ASSUME NEW c \in Call, TorSettles(c) \/ TorEmits(c)
      PROVE  IdentityStep
  BY <1>4, QuietIdentity DEF TorSettles, TorEmits
<1>5. ASSUME NEW c \in Call, Create(c) \/ Unlock(c)
      PROVE  IdentityStep
  BY <1>5, CreateIdentity, UnlockIdentity
<1>6. ASSUME NEW c \in Call,
             Serve(c) \/ Mistype(c) \/ WriteFails(c) \/ InitFails(c) \/ InitFailsLate(c)
      PROVE  IdentityStep
  BY <1>6, ReplyIdentity, WriteIdentity, WriteFailsIdentity, ReadIdentity, CompleteIdentity
     DEF Serve
<1>. QED BY <1>1, <1>2, <1>3, <1>4, <1>5, <1>6 DEF Next

LEMMA InitInv ==
  ASSUME Init
  PROVE  LifecycleInv
<1>1. /\ MAX_FAULTS \in Nat /\ 0 \in 0..MAX_FAULTS /\ 0 \in Key
      /\ Unused \in [at : Stages, key : Key \cup {None}, page : 0..MAX_FAULTS]
      /\ Unused.at = "unused"
  BY LifecycleAssumption DEF Unused, Stages, Key
<1>2. calls \in Calls /\ \A c \in Call : calls[c].at = "unused"
  BY <1>1 DEF Init, Calls
<1>3. raced \in BOOLEAN
  BY Zenon DEF Init
<1>4. TypeOK
  BY <1>1, <1>2, <1>3 DEF Init, TypeOK, Calls, Stages, Status
<1>5. Active = {}
  BY <1>2 DEF InFlight, Active
<1>. QED BY <1>1, <1>2, <1>4, <1>5
     DEF Init, LifecycleInv, Types, HasKey, Built, PagesBounded, MissingAtFirst, Identity,
         WritingAlone, CreateUnannounced, VaultOfCalls

LEMMA StutterInv ==
  ASSUME LifecycleInv, UNCHANGED vars
  PROVE  LifecycleInv'
<1>1. Types'
  BY DEF LifecycleInv, vars, Types, TypeOK, HasKey, Built, PagesBounded, MissingAtFirst,
         InFlight, Active
<1>2. IdentityStep
  BY QuietIdentity DEF vars
<1>. QED BY <1>1, <1>2 DEF IdentityStep, LifecycleInv

\* The inductive invariant, for every number of crashes, reloads, typing
\* errors and failures.
THEOREM LifecycleInvariant == Spec => []LifecycleInv
<1>1. Init => LifecycleInv
  BY InitInv
<1>2. LifecycleInv /\ [Next]_vars => LifecycleInv'
  <2>1. ASSUME LifecycleInv, Next
        PROVE  LifecycleInv'
    BY <2>1, NextKeepsTypes, NextKeepsIdentity DEF IdentityStep, LifecycleInv
  <2>. QED BY <2>1, StutterInv
<1>. QED BY <1>1, <1>2, PTL DEF Spec

\* Type correctness: a call that writes or initialises has a key, and the
\* number of pages stays below the number of faults.
THEOREM LifecycleTypeCorrect == Spec => []TypeOK
<1>1. LifecycleInv => TypeOK
  BY DEF LifecycleInv, Types
<1>. QED BY <1>1, LifecycleInvariant, PTL

\* The identity that a node has announced stays the one in its vault.
THEOREM LifecycleIdentityKept == Spec => []IdentityKept
<1>1. LifecycleInv => IdentityKept
  BY DEF LifecycleInv, Identity, VaultOfCalls, IdentityKept
<1>. QED BY <1>1, LifecycleInvariant, PTL

-----------------------------------------------------------------------------
(* The state of the network: types *)

LEMMA InitTypeOK ==
  ASSUME EmergencyInit
  PROVE  EmergencyTypeOK
<1>1. uplink \in BOOLEAN /\ hot \in BOOLEAN
  BY Zenon DEF EmergencyInit
<1>2. monitor \in [at : {"sleep", "hotspot", "lock"}, net : BOOLEAN, hot : BOOLEAN]
  BY DEF EmergencyInit, Sleeping
<1>. QED BY <1>1, <1>2, EmergencyAssumption DEF EmergencyInit, EmergencyTypeOK

-----------------------------------------------------------------------------
(* Every group of actions preserves EmergencyTypeOK.                       *)

LEMMA MachineTypeOK ==
  ASSUME EmergencyTypeOK, UplinkChanges \/ GuestChanges \/ HostingEnds \/ AddressAppears
  PROVE  EmergencyTypeOK'
<1>. USE EmergencyAssumption DEF EmergencyTypeOK
<1>1. CASE UplinkChanges
  BY <1>1 DEF UplinkChanges, Change
<1>2. CASE GuestChanges
  BY <1>2 DEF GuestChanges, Change
<1>3. CASE HostingEnds
  <2>1. uplink' \in BOOLEAN /\ hot' \in BOOLEAN
    BY <1>3, Zenon DEF HostingEnds
  <2>. QED BY <1>3, <2>1 DEF HostingEnds, Change
<1>4. CASE AddressAppears
  BY <1>4 DEF AddressAppears
<1>. QED BY <1>1, <1>2, <1>3, <1>4

LEMMA MonitorTypeOK ==
  ASSUME EmergencyTypeOK, MonitorNext
  PROVE  EmergencyTypeOK'
<1>. USE DEF EmergencyTypeOK, machine
<1>1. CASE SampleNetwork
  <2>1. has_active_network \in BOOLEAN
    BY DEF has_active_network
  <2>2. monitor' \in [at : {"sleep", "hotspot", "lock"}, net : BOOLEAN, hot : BOOLEAN]
    BY <1>1, <2>1 DEF SampleNetwork, Sleeping
  <2>. QED BY <1>1, <2>2 DEF SampleNetwork
<1>2. CASE SampleHotspot
  <2>1. monitor' \in [at : {"sleep", "hotspot", "lock"}, net : BOOLEAN, hot : BOOLEAN]
    BY <1>2 DEF SampleHotspot, has_hotspot_interface
  <2>. QED BY <1>2, <2>1 DEF SampleHotspot
<1>3. CASE Apply
  <2>1. state' \in {"Normal", "Lost", "Emergency"}
    BY <1>3 DEF Apply, Match, Announce
  <2>2. banner' \in {"hidden", "lost", "emergency", "hotspot"}
    BY <1>3 DEF Apply, Match, Announce
  <2>. QED BY <1>3, <2>1, <2>2 DEF Apply, Sleeping
<1>. QED BY <1>1, <1>2, <1>3 DEF MonitorNext

LEMMA StartTypeOK ==
  ASSUME EmergencyTypeOK, Activate \/ StartNext
  PROVE  EmergencyTypeOK'
<1>. USE EmergencyAssumption DEF EmergencyTypeOK, machine
<1>1. CASE Activate
  BY <1>1 DEF Activate
<1>2. CASE StartFails
  BY <1>2 DEF StartFails
<1>3. CASE StartByNetsh
  BY <1>3 DEF StartByNetsh
<1>4. CASE StartByPowerShell
  BY <1>4 DEF StartByPowerShell
<1>5. CASE SetEmergency
  BY <1>5 DEF SetEmergency
<1>6. CASE EmitStarted
  BY <1>6 DEF EmitStarted
<1>7. CASE ShowStarted
  BY <1>7 DEF ShowStarted
<1>. QED BY <1>1, <1>2, <1>3, <1>4, <1>5, <1>6, <1>7 DEF StartNext

LEMMA StopTypeOK ==
  ASSUME EmergencyTypeOK, Deactivate \/ StopNext \/ Dismiss
  PROVE  EmergencyTypeOK'
<1>. USE EmergencyAssumption DEF EmergencyTypeOK, machine
<1>1. CASE Deactivate
  BY <1>1 DEF Deactivate
<1>2. CASE StopByNetsh
  <2>1. uplink' \in BOOLEAN /\ hot' \in BOOLEAN
    BY <1>2, Zenon DEF StopByNetsh
  <2>. QED BY <1>2, <2>1 DEF StopByNetsh
<1>3. CASE StopFails
  BY <1>3 DEF StopFails
<1>4. CASE SetNormal
  BY <1>4 DEF SetNormal
<1>5. CASE EmitStopped
  BY <1>5 DEF EmitStopped
<1>6. CASE Dismiss
  BY <1>6 DEF Dismiss
<1>. QED BY <1>1, <1>2, <1>3, <1>4, <1>5, <1>6 DEF StopNext

\* Type correctness: the state, the banner and the steps of the three tasks
\* that write them stay within their types, whatever the bounds are.
THEOREM EmergencyTypeCorrect == EmergencySpec => []EmergencyTypeOK
<1>1. EmergencyInit => EmergencyTypeOK
  BY InitTypeOK
<1>2. EmergencyTypeOK /\ [EmergencyNext]_emergencyVars => EmergencyTypeOK'
  <2>1. ASSUME EmergencyTypeOK, EmergencyNext
        PROVE  EmergencyTypeOK'
    BY <2>1, MachineTypeOK, MonitorTypeOK, StartTypeOK, StopTypeOK DEF EmergencyNext
  <2>2. ASSUME EmergencyTypeOK, UNCHANGED emergencyVars
        PROVE  EmergencyTypeOK'
    BY <2>2 DEF emergencyVars, EmergencyTypeOK
  <2>. QED BY <2>1, <2>2
<1>. QED BY <1>1, <1>2, PTL DEF EmergencySpec

-----------------------------------------------------------------------------
(* BannerFollows is inductive by itself: each way out of Lost sets the     *)
(* banner under the lock, or is followed by the event of its command.      *)

LEMMA MonitorKeepsBanner ==
  ASSUME BannerFollows, MonitorNext
  PROVE  BannerFollows'
<1>. USE DEF BannerFollows
<1>1. CASE SampleNetwork
  BY <1>1 DEF SampleNetwork
<1>2. CASE SampleHotspot
  BY <1>2 DEF SampleHotspot
<1>3. CASE Apply
  BY <1>3 DEF Apply, Match, Announce
<1>. QED BY <1>1, <1>2, <1>3 DEF MonitorNext

LEMMA StartKeepsBanner ==
  ASSUME BannerFollows, Activate \/ StartNext
  PROVE  BannerFollows'
<1>. USE DEF BannerFollows
<1>1. CASE Activate
  BY <1>1 DEF Activate
<1>2. CASE StartFails
  BY <1>2 DEF StartFails
<1>3. CASE StartByNetsh
  BY <1>3 DEF StartByNetsh
<1>4. CASE StartByPowerShell
  BY <1>4 DEF StartByPowerShell
<1>5. CASE SetEmergency
  BY <1>5 DEF SetEmergency
<1>6. CASE EmitStarted
  BY <1>6 DEF EmitStarted
<1>7. CASE ShowStarted
  BY <1>7 DEF ShowStarted
<1>. QED BY <1>1, <1>2, <1>3, <1>4, <1>5, <1>6, <1>7 DEF StartNext

LEMMA StopKeepsBanner ==
  ASSUME BannerFollows, Deactivate \/ StopNext \/ Dismiss
  PROVE  BannerFollows'
<1>. USE DEF BannerFollows
<1>1. CASE Deactivate
  BY <1>1 DEF Deactivate
<1>2. CASE StopByNetsh
  BY <1>2 DEF StopByNetsh
<1>3. CASE StopFails
  BY <1>3 DEF StopFails
<1>4. CASE SetNormal
  BY <1>4 DEF SetNormal
<1>5. CASE EmitStopped
  BY <1>5 DEF EmitStopped
<1>6. CASE Dismiss
  BY <1>6 DEF Dismiss
<1>. QED BY <1>1, <1>2, <1>3, <1>4, <1>5, <1>6 DEF StopNext

\* The banner that says the network is lost is only up while the state is
\* Lost, or while a command has its event still to send.
THEOREM EmergencyBannerFollows == EmergencySpec => []BannerFollows
<1>1. EmergencyInit => BannerFollows
  BY DEF EmergencyInit, BannerFollows
<1>2. BannerFollows /\ [EmergencyNext]_emergencyVars => BannerFollows'
  <2>1. ASSUME BannerFollows, UplinkChanges \/ GuestChanges \/ HostingEnds \/ AddressAppears
        PROVE  BannerFollows'
    BY <2>1 DEF BannerFollows, UplinkChanges, GuestChanges, HostingEnds, AddressAppears,
                Change
  <2>2. ASSUME BannerFollows, EmergencyNext
        PROVE  BannerFollows'
    BY <2>1, <2>2, MonitorKeepsBanner, StartKeepsBanner, StopKeepsBanner DEF EmergencyNext
  <2>3. ASSUME BannerFollows, UNCHANGED emergencyVars
        PROVE  BannerFollows'
    BY <2>3 DEF emergencyVars, BannerFollows
  <2>. QED BY <2>2, <2>3
<1>. QED BY <1>1, <1>2, PTL DEF EmergencySpec
=============================================================================
