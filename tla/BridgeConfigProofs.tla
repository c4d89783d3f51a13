-------------------------- MODULE BridgeConfigProofs --------------------------
(***************************************************************************)
(* Proofs about the configuration and its store, for any values, any keys  *)
(* beside those of the sections, and any size of a pass of the reset.      *)
(***************************************************************************)
EXTENDS BridgeConfig, TLAPS

USE ConfigAssumption

UpdatePcs == {"section", "saved", "notify"}
ResetPcs  == {"collect", "delete", "reset_end"}

StoreTypes ==
    /\ store \in [Keys -> StoredRecords]
    /\ ram \in [Sections -> Values]
    /\ consumed \in [Sections -> Values]
    /\ promised \in [Sections -> Values \cup {NoPromise}]

ControlTypes ==
    /\ flags \subseteq {"reboot_required", "factory_reset_pending"}
    /\ session \in {"clean", "tainted"}
    /\ pc \in {"off", "idle"} \cup UpdatePcs \cup ResetPcs

RequestTypes ==
    /\ DOMAIN req \subseteq Sections
    /\ \A s \in DOMAIN req : req[s] \in Values
    /\ at \in 1 .. 6

ResetTypes ==
    /\ names \subseteq Keys
    /\ more \in {"no", "yes"}
    /\ blind \in {"no", "yes"}
    /\ any_deleted \subseteq Keys

Types == StoreTypes /\ ControlTypes /\ RequestTypes /\ ResetTypes

\* Where the thread is, and what is left over from a request: nothing.
Stages ==
    /\ pc \notin UpdatePcs => DOMAIN req = {} /\ at = 1
    /\ pc \in {"saved", "notify"} => at \in 1 .. 5 /\ Order[at] \in DOMAIN req
    /\ pc \notin ResetPcs => any_deleted = {}
    /\ "factory_reset_pending" \in flags => "reboot_required" \in flags

\* While a request is being worked on, nobody has been told anything about the
\* sections it touches.
Withdrawn ==
    /\ \A s \in DOMAIN req : promised[s] = NoPromise
    /\ pc \in ResetPcs => \A s \in Sections : promised[s] = NoPromise

\* RAM and store agree as long as a save may be skipped, except for a section
\* that is just being saved and for what the running reset has deleted.
RamMatchesStore ==
    session = "clean" /\ "factory_reset_pending" \notin flags =>
        \A s \in Sections : \/ BootValue(s) = ram[s]
                            \/ pc = "saved" /\ s = Order[at]
                            \/ s \in any_deleted

\* Consumers and RAM agree, except when a reboot or the listener is due.
ConsumersMatchRam ==
    \A s \in Sections :
        /\ s \in Live => pc = "notify" \/ consumed[s] = ram[s]
        /\ s \notin Live /\ "reboot_required" \notin flags => consumed[s] = ram[s]

\* The sections of the request that are through have reached the store.
Reached(j) == j < at \/ (j = at /\ pc \in {"saved", "notify"})
RequestStored ==
    session = "clean" => \A j \in 1 .. 5 :
        Order[j] \in DOMAIN req /\ Reached(j) => BootValue(Order[j]) = req[Order[j]]
SavedStored == pc = "saved" => store[Order[at]] = req[Order[at]]

\* A pass without errors that was not cut short has found every key.
PassComplete ==
    /\ pc = "delete" /\ err = "none" /\ more = "no" /\ blind = "no" => Stored \subseteq names
    /\ pc = "reset_end" /\ err = "none" /\ blind = "no" => Stored = {}

ConfigInv == /\ Types /\ Stages /\ Withdrawn /\ RamMatchesStore /\ ConsumersMatchRam
             /\ RequestStored /\ SavedStored /\ PassComplete /\ AcknowledgedSurvives

-----------------------------------------------------------------------------
(* Facts about the operators. *)

\* handle_config_update saves every section, each once.
LEMMA OrderFacts ==
    /\ Len(Order) = 5
    /\ \A j \in 1 .. 5 : Order[j] \in Sections
    /\ \A j, k \in 1 .. 5 : Order[j] = Order[k] => j = k
    /\ \A s \in Sections : \E j \in 1 .. 5 : Order[j] = s
<1>1. Len(Order) = 5
  BY DEF Order
<1>2. /\ Order[1] = "ais" /\ Order[2] = "tcp" /\ Order[3] = "sta"
      /\ Order[4] = "ap" /\ Order[5] = "sys"
  BY DEF Order
<1>3. \A j \in 1 .. 5 : j = 1 \/ j = 2 \/ j = 3 \/ j = 4 \/ j = 5
  OBVIOUS
<1>4. \A j \in 1 .. 5 : Order[j] \in Sections
  BY <1>2, <1>3 DEF Sections
<1>5. \A j, k \in 1 .. 5 : Order[j] = Order[k] => j = k
  BY <1>2, <1>3
<1>6. \A s \in Sections : \E j \in 1 .. 5 : Order[j] = s
  BY <1>2 DEF Sections
<1> QED BY <1>1, <1>4, <1>5, <1>6

\* Every section has a key; the live ones are two of them.
LEMMA SectionsAreKeys == Sections \subseteq Keys /\ Live \subseteq Sections
  BY DEF Keys, Live, Sections

\* What a boot makes of a record is a value, and the record if that is one.
LEMMA BootValueFacts ==
    ASSUME NEW s \in Sections
    PROVE  /\ BootValue(s) \in Values
           /\ store[s] \in Values => BootValue(s) = store[s]
           /\ store[s] = Absent => BootValue(s) = Default
           /\ store'[s] = store[s] => BootValue(s)' = BootValue(s)
           /\ store'[s] \in Values => BootValue(s)' = store'[s]
  BY DEF BootValue

-----------------------------------------------------------------------------
\* Before the first boot RAM holds the Kconfig values and nobody was told anything.
LEMMA ConfigInit == Init => ConfigInv
<1> SUFFICES ASSUME Init PROVE ConfigInv
  OBVIOUS
<1>1. DOMAIN req = {}
  BY DEF Init, NoRequest
<1>2. Types
  BY <1>1 DEF Init, Types, StoreTypes, ControlTypes, RequestTypes, ResetTypes
<1>3. Stages /\ Withdrawn /\ RamMatchesStore /\ ConsumersMatchRam
  BY <1>1 DEF Init, Stages, Withdrawn, RamMatchesStore, ConsumersMatchRam, UpdatePcs, ResetPcs
<1>4. RequestStored /\ SavedStored /\ PassComplete /\ AcknowledgedSurvives
  BY <1>1 DEF Init, RequestStored, SavedStored, PassComplete, AcknowledgedSurvives
<1> QED BY <1>2, <1>3, <1>4 DEF ConfigInv

\* Power loss and reboot leave the store and the promises; the rest starts over.
LEMMA RestartKeeps == ConfigInv /\ Restart => ConfigInv'
<1> SUFFICES ASSUME ConfigInv, Restart PROVE ConfigInv'
  OBVIOUS
<1> USE DEF ConfigInv, Restart
<1>1. DOMAIN req' = {} /\ UNCHANGED store /\ UNCHANGED promised
  BY DEF NoRequest
<1>2. Types'
  BY <1>1 DEF Types, StoreTypes, ControlTypes, RequestTypes, ResetTypes
<1>3. Stages' /\ Withdrawn'
  BY <1>1 DEF Stages, Withdrawn, UpdatePcs, ResetPcs
<1>4. RamMatchesStore' /\ ConsumersMatchRam' /\ RequestStored' /\ SavedStored' /\ PassComplete'
  BY <1>1 DEF RamMatchesStore, ConsumersMatchRam, RequestStored, SavedStored, PassComplete
<1>5. AcknowledgedSurvives'
  BY <1>1 DEF AcknowledgedSurvives, BootValue
<1> QED BY <1>2, <1>3, <1>4, <1>5

\* A boot runs on what the store holds, or says that it could not read it.
LEMMA BootKeeps ==
    ASSUME ConfigInv, NEW L \in SUBSET Sections, Boot(L)
    PROVE  ConfigInv'
<1> USE DEF ConfigInv
<1>1. /\ UNCHANGED <<store, flags, reboot_work, req, at, any_deleted, names, more,
                     blind, promised>>
      /\ pc = "off" /\ pc' = "idle"
      /\ DOMAIN req = {} /\ any_deleted = {}
  BY DEF Boot, resetVars, Stages, UpdatePcs, ResetPcs
<1>2. /\ \A s \in Sections : BootValue(s)' = BootValue(s) /\ BootValue(s) \in Values
      /\ ram' \in [Sections -> Values]
      /\ consumed' = ram'
      /\ session' \in {"clean", "tainted"}
      /\ session' = "clean" => \A s \in Sections : ram'[s] = BootValue(s)
  BY <1>1 DEF Boot, BootValue
<1>3. StoreTypes'
  BY <1>1, <1>2 DEF Types, StoreTypes
<1>4. ControlTypes' /\ RequestTypes' /\ ResetTypes'
  BY <1>1, <1>2 DEF Types, ControlTypes, RequestTypes, ResetTypes
<1>5. Stages' /\ Withdrawn'
  BY <1>1 DEF Stages, Withdrawn, UpdatePcs, ResetPcs
<1>6. RamMatchesStore' /\ ConsumersMatchRam'
  BY <1>1, <1>2 DEF RamMatchesStore, ConsumersMatchRam
<1>7. RequestStored' /\ SavedStored' /\ PassComplete'
  BY <1>1 DEF RequestStored, SavedStored, PassComplete
<1>8. AcknowledgedSurvives'
  BY <1>1, <1>2 DEF AcknowledgedSurvives
<1> QED BY <1>3, <1>4, <1>5, <1>6, <1>7, <1>8 DEF Types

-----------------------------------------------------------------------------
(* handle_config_update *)

\* A request withdraws the promises about the sections it mentions.
LEMMA ReceiveKeeps ==
    ASSUME ConfigInv, NEW r \in Requests, ReceiveUpdate(r)
    PROVE  ConfigInv'
<1> USE DEF ConfigInv, ReceiveUpdate
<1>1. /\ UNCHANGED <<store, ram, consumed, flags, session, reboot_work, at, names,
                     more, err, any_deleted, blind>>
      /\ pc = "idle" /\ pc' = "section" /\ req' = r
      /\ any_deleted = {} /\ at = 1
  BY DEF resetVars, Stages, UpdatePcs, ResetPcs
<1>2. DOMAIN r \subseteq Sections /\ \A s \in DOMAIN r : r[s] \in Values
  BY DEF Requests
<1>3. /\ promised' \in [Sections -> Values \cup {NoPromise}]
      /\ \A s \in Sections : promised'[s] = IF s \in DOMAIN r THEN NoPromise ELSE promised[s]
  BY <1>2 DEF Withdraw, Types, StoreTypes
<1>4. \A s \in Sections : BootValue(s)' = BootValue(s)
  BY <1>1 DEF BootValue
<1>5. StoreTypes'
  BY <1>1, <1>3 DEF Types, StoreTypes
<1>6. ControlTypes' /\ ResetTypes'
  BY <1>1 DEF Types, ControlTypes, ResetTypes, UpdatePcs
<1>7. RequestTypes'
  BY <1>1, <1>2 DEF Types, RequestTypes
<1>8. Stages'
  BY <1>1 DEF Stages, UpdatePcs, ResetPcs
<1>9. Withdrawn'
  BY <1>1, <1>2, <1>3 DEF Withdrawn, ResetPcs
<1>10. RamMatchesStore' /\ ConsumersMatchRam'
  BY <1>1, <1>4 DEF RamMatchesStore, ConsumersMatchRam
<1>11. RequestStored' /\ SavedStored' /\ PassComplete'
  BY <1>1 DEF RequestStored, SavedStored, PassComplete, Reached
<1>12. AcknowledgedSurvives'
  BY <1>3, <1>4 DEF AcknowledgedSurvives
<1> QED BY <1>5, <1>6, <1>7, <1>8, <1>9, <1>10, <1>11, <1>12 DEF Types

\* A section is skipped only if RAM, and with it the store, has what is asked for.
LEMMA SkipKeeps == ConfigInv /\ SkipSection => ConfigInv'
<1> SUFFICES ASSUME ConfigInv, SkipSection PROVE ConfigInv'
  OBVIOUS
<1> USE DEF ConfigInv
<1>1. /\ UNCHANGED <<store, ram, consumed, flags, session, reboot_work, pc, req, names,
                     more, err, any_deleted, blind, promised>>
      /\ pc = "section" /\ any_deleted = {}
      /\ at \in 1 .. 5 /\ at' = at + 1
  BY OrderFacts DEF SkipSection, resetVars, Stages, ResetPcs, Types, RequestTypes
<1>2. \A s \in Sections : BootValue(s)' = BootValue(s)
  BY <1>1 DEF BootValue
<1>3. Types'
  BY <1>1 DEF Types, StoreTypes, ControlTypes, RequestTypes, ResetTypes
<1>4. Stages' /\ Withdrawn'
  BY <1>1 DEF Stages, Withdrawn, UpdatePcs, ResetPcs
<1>5. RamMatchesStore' /\ ConsumersMatchRam'
  BY <1>1, <1>2 DEF RamMatchesStore, ConsumersMatchRam
<1>6. session = "clean" /\ Order[at] \in DOMAIN req => BootValue(Order[at]) = req[Order[at]]
  BY <1>1, OrderFacts DEF SkipSection, InRequest, Current, Changed, ValueChanged, RamMatchesStore
<1>7. RequestStored'
  BY <1>1, <1>2, <1>6, OrderFacts DEF RequestStored, Reached
<1>8. SavedStored' /\ PassComplete' /\ AcknowledgedSurvives'
  BY <1>1, <1>2 DEF SavedStored, PassComplete, AcknowledgedSurvives
<1> QED BY <1>3, <1>4, <1>5, <1>7, <1>8

\* The record is written; nobody has a promise about this section.
LEMMA SaveKeeps == ConfigInv /\ SaveSection => ConfigInv'
<1> SUFFICES ASSUME ConfigInv, SaveSection PROVE ConfigInv'
  OBVIOUS
<1> USE DEF ConfigInv
<1> DEFINE c == Order[at]
<1>1. /\ UNCHANGED <<ram, consumed, flags, session, reboot_work, req, at, names,
                     more, err, any_deleted, blind, promised>>
      /\ pc = "section" /\ pc' = "saved" /\ any_deleted = {}
      /\ at \in 1 .. 5 /\ c \in DOMAIN req /\ c \in Sections /\ c \in Keys
      /\ req[c] \in Values
      /\ store' = [store EXCEPT ![c] = req[c]]
  BY OrderFacts, SectionsAreKeys
     DEF SaveSection, InRequest, Current, resetVars, Stages, ResetPcs, Types, RequestTypes
<1>2. /\ store' \in [Keys -> StoredRecords] /\ store'[c] = req[c]
      /\ \A s \in Sections : s # c => BootValue(s)' = BootValue(s)
      /\ BootValue(c)' = req[c]
  BY <1>1, SectionsAreKeys DEF BootValue, Types, StoreTypes, StoredRecords
<1>3. Types'
  BY <1>1, <1>2 DEF Types, StoreTypes, ControlTypes, RequestTypes, ResetTypes, UpdatePcs
<1>4. Stages' /\ Withdrawn'
  BY <1>1 DEF Stages, Withdrawn, UpdatePcs, ResetPcs
<1>5. RamMatchesStore' /\ ConsumersMatchRam'
  BY <1>1, <1>2 DEF RamMatchesStore, ConsumersMatchRam
<1>6. RequestStored'
  BY <1>1, <1>2, OrderFacts DEF RequestStored, Reached
<1>7. SavedStored' /\ PassComplete'
  BY <1>1, <1>2 DEF SavedStored, PassComplete
<1>8. AcknowledgedSurvives'
  BY <1>1, <1>2 DEF AcknowledgedSurvives, Withdrawn
<1> QED BY <1>3, <1>4, <1>5, <1>6, <1>7, <1>8

\* A failed save ends the request with the store as it was.
LEMMA SaveFailsKeeps == ConfigInv /\ SaveFails => ConfigInv'
<1> SUFFICES ASSUME ConfigInv, SaveFails PROVE ConfigInv'
  OBVIOUS
<1> USE DEF ConfigInv
<1>1. /\ UNCHANGED <<store, ram, consumed, flags, session, reboot_work, names,
                     more, err, any_deleted, blind, promised>>
      /\ pc = "section" /\ pc' = "idle" /\ any_deleted = {}
      /\ DOMAIN req' = {} /\ at' = 1
  BY DEF SaveFails, NoRequest, resetVars, Stages, ResetPcs
<1>2. \A s \in Sections : BootValue(s)' = BootValue(s)
  BY <1>1 DEF BootValue
<1>3. Types'
  BY <1>1 DEF Types, StoreTypes, ControlTypes, RequestTypes, ResetTypes
<1>4. Stages' /\ Withdrawn'
  BY <1>1 DEF Stages, Withdrawn, UpdatePcs, ResetPcs
<1>5. RamMatchesStore' /\ ConsumersMatchRam'
  BY <1>1, <1>2 DEF RamMatchesStore, ConsumersMatchRam
<1>6. RequestStored' /\ SavedStored' /\ PassComplete' /\ AcknowledgedSurvives'
  BY <1>1, <1>2 DEF RequestStored, SavedStored, PassComplete, AcknowledgedSurvives
<1> QED BY <1>3, <1>4, <1>5, <1>6

\* RAM follows the store; the consumers are told next, or a reboot is due.
LEMMA UpdateRamKeeps == ConfigInv /\ UpdateRam => ConfigInv'
<1> SUFFICES ASSUME ConfigInv, UpdateRam PROVE ConfigInv'
  OBVIOUS
<1> USE DEF ConfigInv
<1> DEFINE c == Order[at]
<1>1. /\ UNCHANGED <<store, consumed, session, reboot_work, req, names, more, err,
                     any_deleted, blind, promised>>
      /\ pc = "saved" /\ any_deleted = {}
      /\ at \in 1 .. 5 /\ c \in DOMAIN req /\ c \in Sections
      /\ req[c] \in Values /\ store[c] = req[c]
      /\ ram' = [ram EXCEPT ![c] = req[c]]
  BY OrderFacts DEF UpdateRam, Current, resetVars, Stages, ResetPcs, Types, RequestTypes,
                    SavedStored
<1>2. \/ c \in Live /\ ram[c] # req[c] /\ pc' = "notify" /\ at' = at
      \/ (c \notin Live \/ ram[c] = req[c]) /\ pc' = "section" /\ at' = at + 1
  BY <1>1 DEF UpdateRam, Current, ValueChanged
<1>3. /\ flags \subseteq flags' /\ flags' \subseteq flags \cup {"reboot_required"}
      /\ c \notin Live => "reboot_required" \in flags'
  BY <1>1 DEF UpdateRam, MarkReboot, Current
<1>4. /\ ram' \in [Sections -> Values] /\ ram'[c] = req[c]
      /\ \A s \in Sections : s # c => ram'[s] = ram[s]
  BY <1>1 DEF Types, StoreTypes
<1>5. (\A s \in Sections : BootValue(s)' = BootValue(s)) /\ BootValue(c) = req[c]
  BY <1>1 DEF BootValue
<1>6. StoreTypes' /\ ResetTypes'
  BY <1>1, <1>4 DEF Types, StoreTypes, ResetTypes
<1>7. ControlTypes' /\ RequestTypes'
  BY <1>1, <1>2, <1>3 DEF Types, ControlTypes, RequestTypes, UpdatePcs
<1>8. Stages'
  BY <1>1, <1>2, <1>3 DEF Stages, UpdatePcs, ResetPcs
<1>9. Withdrawn'
  BY <1>1, <1>2 DEF Withdrawn, ResetPcs
<1>10. RamMatchesStore'
  BY <1>1, <1>3, <1>4, <1>5 DEF RamMatchesStore
<1>11. ConsumersMatchRam'
  BY <1>1, <1>2, <1>3, <1>4 DEF ConsumersMatchRam
<1>12. RequestStored'
  BY <1>1, <1>2, <1>5, OrderFacts DEF RequestStored, Reached
<1>13. SavedStored' /\ PassComplete' /\ AcknowledgedSurvives'
  BY <1>1, <1>2, <1>5 DEF SavedStored, PassComplete, AcknowledgedSurvives
<1> QED BY <1>6, <1>7, <1>8, <1>9, <1>10, <1>11, <1>12, <1>13 DEF Types

\* The consumers of both live sections get what is in RAM.
LEMMA ListenerKeeps == ConfigInv /\ Listener => ConfigInv'
<1> SUFFICES ASSUME ConfigInv, Listener PROVE ConfigInv'
  OBVIOUS
<1> USE DEF ConfigInv
<1>1. /\ UNCHANGED <<store, ram, flags, session, reboot_work, req, names, more, err,
                     any_deleted, blind, promised>>
      /\ pc = "notify" /\ pc' = "section" /\ any_deleted = {}
      /\ at \in 1 .. 5 /\ at' = at + 1
  BY DEF Listener, resetVars, Stages, ResetPcs
<1>2. /\ consumed' \in [Sections -> Values]
      /\ \A s \in Sections : consumed'[s] = IF s \in Live THEN ram[s] ELSE consumed[s]
  BY DEF Listener, Types, StoreTypes
<1>3. \A s \in Sections : BootValue(s)' = BootValue(s)
  BY <1>1 DEF BootValue
<1>4. Types'
  BY <1>1, <1>2 DEF Types, StoreTypes, ControlTypes, RequestTypes, ResetTypes, UpdatePcs
<1>5. Stages' /\ Withdrawn'
  BY <1>1 DEF Stages, Withdrawn, UpdatePcs, ResetPcs
<1>6. RamMatchesStore' /\ ConsumersMatchRam'
  BY <1>1, <1>2, <1>3 DEF RamMatchesStore, ConsumersMatchRam
<1>7. RequestStored'
  BY <1>1, <1>3, OrderFacts DEF RequestStored, Reached
<1>8. SavedStored' /\ PassComplete' /\ AcknowledgedSurvives'
  BY <1>1, <1>3 DEF SavedStored, PassComplete, AcknowledgedSurvives
<1> QED BY <1>4, <1>5, <1>6, <1>7, <1>8

\* What the client is told now is what a boot would find.
LEMMA RespondKeeps == ConfigInv /\ RespondOk => ConfigInv'
<1> SUFFICES ASSUME ConfigInv, RespondOk PROVE ConfigInv'
  OBVIOUS
<1> USE DEF ConfigInv
<1>1. /\ UNCHANGED <<store, ram, consumed, flags, session, reboot_work, names, more,
                     err, any_deleted, blind>>
      /\ pc = "section" /\ pc' = "idle" /\ any_deleted = {}
      /\ at = 6 /\ at' = 1 /\ DOMAIN req' = {}
  BY OrderFacts DEF RespondOk, NoRequest, resetVars, Stages, ResetPcs, Types, RequestTypes
<1>2. /\ promised' \in [Sections -> Values \cup {NoPromise}]
      /\ \A s \in Sections :
            promised'[s] = IF s \in DOMAIN req /\ (session = "clean" \/ store[s] = req[s])
                           THEN req[s] ELSE promised[s]
  BY DEF RespondOk, Types, StoreTypes, RequestTypes
<1>3. \A s \in Sections : BootValue(s)' = BootValue(s)
  BY <1>1 DEF BootValue
<1>4. Types'
  BY <1>1, <1>2 DEF Types, StoreTypes, ControlTypes, RequestTypes, ResetTypes
<1>5. Stages' /\ Withdrawn'
  BY <1>1 DEF Stages, Withdrawn, UpdatePcs, ResetPcs
<1>6. RamMatchesStore' /\ ConsumersMatchRam'
  BY <1>1, <1>3 DEF RamMatchesStore, ConsumersMatchRam
<1>7. RequestStored' /\ SavedStored' /\ PassComplete'
  BY <1>1 DEF RequestStored, SavedStored, PassComplete
<1>8. ASSUME NEW s \in Sections, s \in DOMAIN req, session = "clean" \/ store[s] = req[s]
      PROVE  BootValue(s) = req[s]
  <2>1. CASE session = "clean"
    BY <1>1, <1>8, <2>1, OrderFacts DEF RequestStored, Reached
  <2>2. CASE store[s] = req[s]
    BY <1>8, <2>2, BootValueFacts DEF Types, RequestTypes
  <2> QED BY <1>8, <2>1, <2>2
<1>9. AcknowledgedSurvives'
  BY <1>2, <1>3, <1>8 DEF AcknowledgedSurvives
<1> QED BY <1>4, <1>5, <1>6, <1>7, <1>9

-----------------------------------------------------------------------------
(* bridge_config_factory_reset *)

\* A factory reset withdraws every promise.
LEMMA StartResetKeeps == ConfigInv /\ StartReset => ConfigInv'
<1> SUFFICES ASSUME ConfigInv, StartReset PROVE ConfigInv'
  OBVIOUS
<1> USE DEF ConfigInv
<1>1. /\ UNCHANGED <<store, ram, consumed, flags, session, reboot_work, req, at,
                     names, more, err>>
      /\ pc = "idle" /\ pc' = "collect" /\ any_deleted' = {} /\ any_deleted = {}
      /\ blind' = "no" /\ DOMAIN req = {}
  BY DEF StartReset, Stages, UpdatePcs, ResetPcs
<1>2. /\ promised' \in [Sections -> Values \cup {NoPromise}]
      /\ \A s \in Sections : promised'[s] = NoPromise
  BY DEF StartReset, Withdraw
<1>3. \A s \in Sections : BootValue(s)' = BootValue(s)
  BY <1>1 DEF BootValue
<1>4. Types'
  BY <1>1, <1>2 DEF Types, StoreTypes, ControlTypes, RequestTypes, ResetTypes, ResetPcs
<1>5. Stages' /\ Withdrawn'
  BY <1>1, <1>2 DEF Stages, Withdrawn, UpdatePcs, ResetPcs
<1>6. RamMatchesStore' /\ ConsumersMatchRam'
  BY <1>1, <1>3 DEF RamMatchesStore, ConsumersMatchRam
<1>7. RequestStored' /\ SavedStored' /\ PassComplete' /\ AcknowledgedSurvives'
  BY <1>1, <1>2 DEF RequestStored, SavedStored, PassComplete, AcknowledgedSurvives
<1> QED BY <1>4, <1>5, <1>6, <1>7

\* A pass that is neither cut short nor blinded has collected the whole store.
LEMMA CollectKeeps == ConfigInv /\ CollectPass => ConfigInv'
<1> SUFFICES ASSUME ConfigInv, CollectPass PROVE ConfigInv'
  OBVIOUS
<1> USE DEF ConfigInv
<1>1. /\ UNCHANGED <<store, ram, consumed, flags, session, reboot_work, req, at,
                     any_deleted, promised>>
      /\ pc = "collect" /\ pc' = "delete" /\ DOMAIN req = {}
  BY DEF CollectPass, Stages, UpdatePcs
<1>2. /\ names' \subseteq Stored
      /\ more' \in {"no", "yes"} /\ blind' \in {"no", "yes"}
      /\ err' = "none" /\ more' = "no" /\ blind' = "no" => names' = Stored
  <2>1. PICK B \in SUBSET (Stored \ {LongKey}) :
          /\ names' = B
          /\ \/ B = Stored /\ more' = "no" /\ err' = "none" /\ UNCHANGED blind
             \/ more' = "no" /\ err' = "name_too_long" /\ UNCHANGED blind
             \/ more' = "yes" /\ err' = "none" /\ UNCHANGED blind
             \/ B # Stored /\ more' = "no" /\ err' = "none" /\ blind' = "yes"
    BY DEF CollectPass
  <2> QED BY <2>1 DEF Types, ResetTypes
<1>3. (\A s \in Sections : BootValue(s)' = BootValue(s)) /\ Stored' = Stored
      /\ Stored \subseteq Keys
  BY <1>1 DEF BootValue, Stored
<1>4. Types'
  BY <1>1, <1>2, <1>3 DEF Types, StoreTypes, ControlTypes, RequestTypes, ResetTypes, ResetPcs
<1>5. Stages' /\ Withdrawn'
  BY <1>1 DEF Stages, Withdrawn, UpdatePcs, ResetPcs
<1>6. RamMatchesStore' /\ ConsumersMatchRam'
  BY <1>1, <1>3 DEF RamMatchesStore, ConsumersMatchRam
<1>7. RequestStored' /\ SavedStored' /\ AcknowledgedSurvives'
  BY <1>1, <1>3 DEF RequestStored, SavedStored, AcknowledgedSurvives
<1>8. PassComplete'
  BY <1>1, <1>2, <1>3 DEF PassComplete
<1> QED BY <1>4, <1>5, <1>6, <1>7, <1>8

\* A deleted key is known to be deleted, so that the flags follow.
LEMMA DeleteKeeps == ConfigInv /\ DeleteKey => ConfigInv'
<1> SUFFICES ASSUME ConfigInv, DeleteKey PROVE ConfigInv'
  OBVIOUS
<1> USE DEF ConfigInv
<1>1. /\ UNCHANGED <<ram, consumed, flags, session, reboot_work, pc, req, at, more,
                     err, blind, promised>>
      /\ pc = "delete" /\ DOMAIN req = {}
      /\ \A s \in Sections : promised[s] = NoPromise
  BY DEF DeleteKey, Stages, Withdrawn, UpdatePcs, ResetPcs
<1>2. PICK k \in names : /\ store' = [store EXCEPT ![k] = Absent]
                         /\ names' = names \ {k}
                         /\ any_deleted' = any_deleted \cup {k}
  BY DEF DeleteKey
<1>3. /\ k \in Keys /\ store' \in [Keys -> StoredRecords]
      /\ \A s \in Sections : s # k => BootValue(s)' = BootValue(s)
      /\ Stored' = Stored \ {k}
  BY <1>2, SectionsAreKeys DEF BootValue, Stored, Types, StoreTypes, ResetTypes, StoredRecords
<1>4. Types'
  BY <1>1, <1>2, <1>3 DEF Types, StoreTypes, ControlTypes, RequestTypes, ResetTypes
<1>5. Stages' /\ Withdrawn'
  BY <1>1 DEF Stages, Withdrawn, UpdatePcs, ResetPcs
<1>6. RamMatchesStore' /\ ConsumersMatchRam'
  BY <1>1, <1>2, <1>3 DEF RamMatchesStore, ConsumersMatchRam
<1>7. RequestStored' /\ SavedStored' /\ AcknowledgedSurvives'
  BY <1>1 DEF RequestStored, SavedStored, AcknowledgedSurvives
<1>8. PassComplete'
  BY <1>1, <1>2, <1>3 DEF PassComplete
<1> QED BY <1>4, <1>5, <1>6, <1>7, <1>8

\* Neither a failed deletion nor the end of a pass touches the store.
LEMMA EndOfPassKeeps == ConfigInv /\ (DeleteFails \/ PassDone) => ConfigInv'
<1> SUFFICES ASSUME ConfigInv, DeleteFails \/ PassDone PROVE ConfigInv'
  OBVIOUS
<1> USE DEF ConfigInv
<1>1. /\ UNCHANGED <<store, ram, consumed, flags, session, reboot_work, req, at,
                     names, more, any_deleted, blind, promised>>
      /\ pc = "delete" /\ pc' \in {"collect", "reset_end"} /\ DOMAIN req = {}
  BY DEF DeleteFails, PassDone, resetVars, Stages, UpdatePcs
<1>2. \/ err' = "delete_failed"
      \/ /\ err' = err /\ names = {}
         /\ pc' = "reset_end" => err # "none" \/ more # "yes"
  BY DEF DeleteFails, PassDone, Rescan, resetVars
<1>3. (\A s \in Sections : BootValue(s)' = BootValue(s)) /\ Stored' = Stored
  BY <1>1 DEF BootValue, Stored
<1>4. Types'
  BY <1>1 DEF Types, StoreTypes, ControlTypes, RequestTypes, ResetTypes, ResetPcs
<1>5. Stages' /\ Withdrawn'
  BY <1>1 DEF Stages, Withdrawn, UpdatePcs, ResetPcs
<1>6. RamMatchesStore' /\ ConsumersMatchRam'
  BY <1>1, <1>3 DEF RamMatchesStore, ConsumersMatchRam
<1>7. RequestStored' /\ SavedStored' /\ AcknowledgedSurvives'
  BY <1>1, <1>3 DEF RequestStored, SavedStored, AcknowledgedSurvives
<1>8. PassComplete'
  BY <1>1, <1>2, <1>3 DEF PassComplete, Types, ResetTypes
<1> QED BY <1>4, <1>5, <1>6, <1>7, <1>8

\* Whatever was deleted, the flags say so; a reset that succeeded has deleted all.
LEMMA EndResetKeeps == ConfigInv /\ EndReset => ConfigInv'
<1> SUFFICES ASSUME ConfigInv, EndReset PROVE ConfigInv'
  OBVIOUS
<1> USE DEF ConfigInv
<1>1. /\ UNCHANGED <<store, ram, consumed, session, reboot_work, req, at>>
      /\ pc = "reset_end" /\ pc' = "idle" /\ DOMAIN req = {}
      /\ names' = {} /\ more' = "no" /\ err' = "none" /\ any_deleted' = {} /\ blind' = "no"
  BY DEF EndReset, Stages, UpdatePcs
<1>2. \/ flags' = {"reboot_required", "factory_reset_pending"}
      \/ flags' = flags /\ any_deleted = {}
  BY DEF EndReset, SetFlags
<1>3. \A s \in Sections : BootValue(s)' = BootValue(s)
  BY <1>1 DEF BootValue
<1>4. /\ promised' \in [Sections -> Values \cup {NoPromise}]
      /\ \/ promised' = promised
         \/ /\ err = "none" /\ blind = "no"
            /\ \A s \in Sections : promised'[s] = Default
  BY DEF EndReset, Types, StoreTypes
<1>5. StoreTypes'
  BY <1>1, <1>4 DEF Types, StoreTypes
<1>6. ControlTypes' /\ RequestTypes' /\ ResetTypes'
  BY <1>1, <1>2 DEF Types, ControlTypes, RequestTypes, ResetTypes
<1>7. Stages' /\ Withdrawn'
  BY <1>1, <1>2 DEF Stages, Withdrawn, UpdatePcs, ResetPcs
<1>8. RamMatchesStore'
  BY <1>1, <1>2, <1>3 DEF RamMatchesStore
<1>9. ConsumersMatchRam'
  BY <1>1, <1>2 DEF ConsumersMatchRam
<1>10. RequestStored' /\ SavedStored' /\ PassComplete'
  BY <1>1 DEF RequestStored, SavedStored, PassComplete
<1>11. AcknowledgedSurvives'
  <2>1. CASE promised' = promised
    BY <1>3, <2>1 DEF AcknowledgedSurvives
  <2>2. CASE /\ err = "none" /\ blind = "no"
             /\ \A s \in Sections : promised'[s] = Default
    <3>1. \A s \in Sections : store[s] = Absent
      BY <1>1, <2>2, SectionsAreKeys DEF PassComplete, Stored
    <3> QED BY <1>3, <2>2, <3>1, BootValueFacts DEF AcknowledgedSurvives
  <2> QED BY <1>4, <2>1, <2>2
<1> QED BY <1>5, <1>6, <1>7, <1>8, <1>9, <1>10, <1>11 DEF Types

-----------------------------------------------------------------------------
\* Every step of the web thread, a boot, a reboot and a power loss keep the invariant.
LEMMA ConfigStep == ConfigInv /\ [Next]_vars => ConfigInv'
<1> SUFFICES ASSUME ConfigInv, [Next]_vars PROVE ConfigInv'
  OBVIOUS
<1>1. ASSUME NEW L \in SUBSET Touched, Boot(L \cup (Sections \ Touched)) PROVE ConfigInv'
  <2>1. L \cup (Sections \ Touched) \in SUBSET Sections
    OBVIOUS
  <2> QED BY <1>1, <2>1, BootKeeps
<1>2. CASE PowerLoss \/ RebootFires
  BY <1>2, RestartKeeps DEF PowerLoss, RebootFires
<1>3. ASSUME \/ UNCHANGED vars
             \/ UNCHANGED <<store, ram, consumed, flags, session, pc, req, at, resetVars,
                            promised>>
      PROVE ConfigInv'
  <2>1. UNCHANGED <<store, ram, consumed, flags, session, pc, req, at, names, more, err,
                    any_deleted, blind, promised>>
    BY <1>3 DEF vars, resetVars
  <2>2. (\A s \in Sections : BootValue(s)' = BootValue(s)) /\ Stored' = Stored
    BY <2>1 DEF BootValue, Stored
  <2>3. Types' /\ Stages' /\ Withdrawn'
    BY <2>1 DEF ConfigInv, Types, StoreTypes, ControlTypes, RequestTypes, ResetTypes,
                Stages, Withdrawn
  <2>4. RamMatchesStore' /\ ConsumersMatchRam'
    BY <2>1, <2>2 DEF ConfigInv, RamMatchesStore, ConsumersMatchRam
  <2>5. RequestStored'
    BY <2>1, <2>2, OrderFacts DEF ConfigInv, RequestStored, Reached
  <2>6. SavedStored' /\ PassComplete' /\ AcknowledgedSurvives'
    BY <2>1, <2>2 DEF ConfigInv, SavedStored, PassComplete, AcknowledgedSurvives
  <2> QED BY <2>3, <2>4, <2>5, <2>6 DEF ConfigInv
<1>4. CASE RequestReboot
  BY <1>3, <1>4 DEF RequestReboot
<1>5. CASE UpdateNext
  BY <1>5, ReceiveKeeps, SkipKeeps, SaveKeeps, SaveFailsKeeps, UpdateRamKeeps,
     ListenerKeeps, RespondKeeps DEF UpdateNext
<1>6. CASE ResetNext
  BY <1>6, StartResetKeeps, CollectKeeps, DeleteKeeps, EndOfPassKeeps, EndResetKeeps
     DEF ResetNext
<1> QED BY <1>1, <1>2, <1>3, <1>4, <1>5, <1>6 DEF Next

\* At every step of a request or a reset RAM, store, consumers, flags and promises
\* fit together as ConfigInv says.
THEOREM ConfigInvariant == Spec => []ConfigInv
<1> QED BY ConfigInit, ConfigStep, PTL DEF Spec

\* The value a client was told last by handle_config_update or by a factory reset is
\* what the next boot that can read the store runs on, for any values and requests
\* and wherever a save fails or power is lost.
THEOREM AcknowledgedValueSurvives == Spec => []AcknowledgedSurvives
<1>1. ConfigInv => AcknowledgedSurvives
  BY DEF ConfigInv
<1> QED BY <1>1, ConfigInvariant, PTL

\* Between requests, without reboot_required, every consumer runs on what a boot would
\* load: a save that is skipped, fails or follows a failed reset reverts nothing.
THEOREM RebootChangesNothing == Spec => []NoSilentRevert
<1>1. ConfigInv => NoSilentRevert
  <2> SUFFICES ASSUME ConfigInv, pc = "idle", session = "clean",
                      "reboot_required" \notin flags, NEW s \in Sections
               PROVE  BootValue(s) = consumed[s]
    BY DEF NoSilentRevert
  <2>1. any_deleted = {} /\ "factory_reset_pending" \notin flags
    BY DEF ConfigInv, Stages, ResetPcs
  <2>2. BootValue(s) = ram[s]
    BY <2>1 DEF ConfigInv, RamMatchesStore
  <2>3. consumed[s] = ram[s]
    BY DEF ConfigInv, ConsumersMatchRam
  <2> QED BY <2>2, <2>3
<1> QED BY <1>1, ConfigInvariant, PTL

\* bridge_config_factory_reset that succeeds leaves no key, whatever the number of
\* keys and RESET_KEYS_PER_PASS, unless a read error hid one from it.
THEOREM ResetLeavesNothing == Spec => []ResetComplete
<1>1. ConfigInv => ResetComplete
  BY DEF ConfigInv, PassComplete, ResetComplete
<1> QED BY <1>1, ConfigInvariant, PTL
=============================================================================
