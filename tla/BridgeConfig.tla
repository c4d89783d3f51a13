----------------------------- MODULE BridgeConfig -----------------------------
(***************************************************************************)
(* The bridge configuration (bridge_config.c) with its persistent store,   *)
(* the web handlers that change it (web_app.c: configuration update,       *)
(* factory reset, reboot) and the boot that loads it (main.c).             *)
(*                                                                         *)
(* One thread, the web server, runs all setters, so a request is a         *)
(* sequence of steps of one process; a power loss or the delayed reboot    *)
(* may end it after any of them.  The value of a section (an AIS, TCP      *)
(* client, STA, AP or system record) is opaque: a request carries the      *)
(* result of merging its fields with the value in RAM.                     *)
(***************************************************************************)
EXTENDS Naturals, Sequences, FiniteSets

CONSTANTS
    Values,       \* valid values of a section
    Default,      \* the Kconfig value
    Malformed,    \* a stored record that does not unpack or validate
    Absent,       \* no record under this key
    ExtraKeys,    \* other keys below "bridge/", of an older or newer firmware
    LongKey,      \* a corrupt key whose name exceeds RESET_KEY_NAME_MAX
    BatchMax,     \* RESET_KEYS_PER_PASS
    Touched       \* the sections that requests and stored records deal with

\* The order in which handle_config_update saves.
Order == <<"ais", "tcp", "sta", "ap", "sys">>
Sections == {"ais", "tcp", "sta", "ap", "sys"}
Live == {"ais", "tcp"}                 \* apply scope; the others need a reboot

Keys == Sections \cup ExtraKeys \cup {LongKey}

ASSUME ConfigAssumption ==
    /\ Default \in Values
    /\ Malformed \notin Values
    /\ Absent \notin Values \cup {Malformed}
    /\ ExtraKeys \cap Sections = {}
    /\ LongKey \notin Sections \cup ExtraKeys
    /\ BatchMax \in Nat \ {0}
    /\ Touched \subseteq Sections

VARIABLES
    store,        \* settings/NVS: the record under each key
    ram,          \* ais, tcp_client, sta, ap, system_cfg
    consumed,     \* the value each section's consumers run on
    flags,        \* of "reboot_required" and "factory_reset_pending", those set
    session,      \* "clean" if every record was loaded at boot, else "tainted"
    reboot_work,  \* web_reboot_work: "idle" or "scheduled"
    pc,           \* the web thread, "off" between power loss or reboot and boot
    req, at,      \* handle_config_update: payload and index into Order; empty and
                  \* 1 outside of it
    names, more, err,    \* struct reset_key_batch
    any_deleted,  \* the keys this factory reset has deleted
    blind,        \* "yes" if a backend read error hid a key from it
    promised      \* the value a client was told, while it still counts

resetVars == <<names, more, err, any_deleted, blind>>
vars == <<store, ram, consumed, flags, session, reboot_work, pc, req, at,
          resetVars, promised>>

NoPromise == Absent
NoRequest == [s \in {} |-> Default]

\* What a boot that reads every record makes of the store.
BootValue(s) == IF store[s] \in Values THEN store[s] ELSE Default

StoredRecords == Values \cup {Malformed, Absent}

Init ==
    /\ store \in [Keys -> StoredRecords]
    /\ \A k \in Keys \ Touched : store[k] \in {Absent} \cup (IF k \in Sections THEN {} ELSE {Default})
    /\ ram = [s \in Sections |-> Default]
    /\ consumed = ram
    /\ flags = {}
    /\ session = "tainted"
    /\ reboot_work = "idle"
    /\ pc = "off"
    /\ req = NoRequest
    /\ at = 1
    /\ names = {} /\ more = "no" /\ err = "none" /\ any_deleted = {} /\ blind = "no"
    /\ promised = [s \in Sections |-> NoPromise]

-----------------------------------------------------------------------------
(* Boot: bridge_config_init, bridge_config_changed, and the start of the    *)
(* consumers.  L is the set of sections whose record was read; it is not    *)
(* all of them when the settings subsystem fails.                           *)

Boot(L) ==
    /\ pc = "off"
    /\ ram' = [s \in Sections |-> IF s \in L THEN BootValue(s) ELSE Default]
    /\ consumed' = ram'
    /\ session' = IF L = Sections THEN "clean" ELSE "tainted"
    /\ pc' = "idle"
    /\ UNCHANGED <<store, flags, reboot_work, req, at, resetVars, promised>>

\* Power is lost, or sys_reboot runs: RAM is gone, the store stays.
Restart ==
    /\ pc' = "off"
    /\ flags' = {}
    /\ reboot_work' = "idle"
    /\ ram' = [s \in Sections |-> Default]
    /\ consumed' = ram'
    /\ session' = "tainted"
    /\ req' = NoRequest
    /\ at' = 1
    /\ names' = {} /\ more' = "no" /\ err' = "none" /\ any_deleted' = {} /\ blind' = "no"
    /\ UNCHANGED <<store, promised>>

PowerLoss == pc # "off" /\ Restart

\* handle_reboot answers and schedules the reboot.
RequestReboot ==
    /\ pc = "idle"
    /\ reboot_work' = "scheduled"
    /\ UNCHANGED <<store, ram, consumed, flags, session, pc, req, at, resetVars,
                   promised>>

\* reboot_work_handler, on the system work queue
RebootFires == reboot_work = "scheduled" /\ Restart

-----------------------------------------------------------------------------
(* handle_config_update.  A request whose fields do not validate changes    *)
(* nothing and is left out; r is what the others ask for.                   *)

\* From here on, what an earlier client was told of these sections is open.
Withdraw(S) == [s \in Sections |-> IF s \in S THEN NoPromise ELSE promised[s]]

ReceiveUpdate(r) ==
    /\ pc = "idle"
    /\ req' = r /\ UNCHANGED at
    /\ pc' = "section"
    /\ promised' = Withdraw(DOMAIN r)
    /\ UNCHANGED <<store, ram, consumed, flags, session, reboot_work, resetVars>>

Current == Order[at]
InRequest == at <= Len(Order) /\ Current \in DOMAIN req

ValueChanged == ram[Current] # req[Current]

\* Mutant: a pending factory reset does not force the save.
ChangedInRam == ValueChanged
Changed == "factory_reset_pending" \in flags \/ ValueChanged

\* A section the request does not mention, or that is unchanged.
SkipSection ==
    /\ pc = "section"
    /\ at <= Len(Order)
    /\ InRequest => ~Changed
    /\ at' = at + 1
    /\ UNCHANGED <<store, ram, consumed, flags, session, reboot_work, pc, req,
                   resetVars, promised>>

\* settings_save_one returned 0: the record is replaced as a whole.
SaveSection ==
    /\ pc = "section"
    /\ InRequest /\ Changed
    /\ store' = [store EXCEPT ![Current] = req[Current]]
    /\ pc' = "saved"
    /\ UNCHANGED <<ram, consumed, flags, session, reboot_work, req, at, resetVars,
                   promised>>

\* settings_save_one failed: 500, and the sections before this one stay saved.
SaveFails ==
    /\ pc = "section"
    /\ InRequest /\ Changed
    /\ pc' = "idle" /\ req' = NoRequest /\ at' = 1
    /\ UNCHANGED <<store, ram, consumed, flags, session, reboot_work, resetVars,
                   promised>>

MarkReboot == IF Current \in Live THEN {} ELSE {"reboot_required"}

\* The RAM copy, and for a reboot-scope section the flag.
UpdateRam ==
    /\ pc = "saved"
    /\ ram' = [ram EXCEPT ![Current] = req[Current]]
    /\ flags' = flags \cup MarkReboot
    /\ IF Current \in Live /\ ValueChanged
          THEN pc' = "notify" /\ at' = at
          ELSE pc' = "section" /\ at' = at + 1
    /\ UNCHANGED <<store, consumed, session, reboot_work, req, resetVars, promised>>

\* listener(), main.c: both live sections are handed to their consumers.
Listener ==
    /\ pc = "notify"
    /\ consumed' = [s \in Sections |-> IF s \in Live THEN ram[s] ELSE consumed[s]]
    /\ pc' = "section"
    /\ at' = at + 1
    /\ UNCHANGED <<store, ram, flags, session, reboot_work, req, resetVars, promised>>

\* 200: the client may rely on it, if the boot had read what was stored or the
\* value was written now.
RespondOk ==
    /\ pc = "section"
    /\ at > Len(Order)
    /\ pc' = "idle" /\ req' = NoRequest /\ at' = 1
    /\ promised' = [s \in Sections |->
                      IF s \in DOMAIN req /\ (session = "clean" \/ store[s] = req[s])
                      THEN req[s] ELSE promised[s]]
    /\ UNCHANGED <<store, ram, consumed, flags, session, reboot_work, resetVars>>

-----------------------------------------------------------------------------
(* bridge_config_factory_reset *)

Stored == {k \in Keys : store[k] # Absent}

StartReset ==
    /\ pc = "idle"
    /\ pc' = "collect"
    /\ any_deleted' = {}
    /\ blind' = "no"
    /\ promised' = Withdraw(Sections)
    /\ UNCHANGED <<store, ram, consumed, flags, session, reboot_work, req, at,
                   names, more, err>>

\* reset_collect_cb over one enumeration, in the backend's order: it ends with
\* the store, at a key whose name is too long, at a full batch, or unnoticed at
\* a backend read error.
CollectPass ==
    /\ pc = "collect"
    /\ \E B \in SUBSET (Stored \ {LongKey}) :
          /\ Cardinality(B) <= BatchMax
          /\ names' = B
          /\ \/ B = Stored /\ more' = "no" /\ err' = "none" /\ UNCHANGED blind
             \/ LongKey \in Stored /\ more' = "no" /\ err' = "name_too_long"
                /\ UNCHANGED blind
             \/ /\ Cardinality(B) = BatchMax /\ Stored \ (B \cup {LongKey}) # {}
                /\ more' = "yes" /\ err' = "none" /\ UNCHANGED blind
             \/ B # Stored /\ more' = "no" /\ err' = "none" /\ blind' = "yes"
    /\ pc' = "delete"
    /\ UNCHANGED <<store, ram, consumed, flags, session, reboot_work, req, at,
                   any_deleted, promised>>

DeleteKey ==
    /\ pc = "delete"
    /\ \E k \in names :
          /\ store' = [store EXCEPT ![k] = Absent]
          /\ names' = names \ {k}
          /\ any_deleted' = any_deleted \cup {k}
    /\ UNCHANGED <<ram, consumed, flags, session, reboot_work, pc, req, at, more,
                   err, blind, promised>>

DeleteFails ==
    /\ pc = "delete"
    /\ names # {}
    /\ err' = "delete_failed"
    /\ pc' = "reset_end"
    /\ UNCHANGED <<store, ram, consumed, flags, session, reboot_work, req, at,
                   names, more, any_deleted, blind, promised>>

\* Mutant: one pass is taken for the whole store.
OnePass == FALSE
Rescan == err = "none" /\ more = "yes"

\* The condition of the do-while loop.
PassDone ==
    /\ pc = "delete"
    /\ names = {}
    /\ pc' = IF Rescan THEN "collect" ELSE "reset_end"
    /\ UNCHANGED <<store, ram, consumed, flags, session, reboot_work, req, at,
                   resetVars, promised>>

\* Mutant: a failed reset leaves the flags alone.
SetFlagsOnSuccess == err = "none"
SetFlags == err = "none" \/ any_deleted # {}

\* The sticky flags and the answer, 200 or 500.
EndReset ==
    /\ pc = "reset_end"
    /\ flags' = IF SetFlags THEN {"reboot_required", "factory_reset_pending"} ELSE flags
    /\ pc' = "idle"
    /\ promised' = IF err = "none" /\ blind = "no" THEN [s \in Sections |-> Default]
                                                   ELSE promised
    /\ names' = {} /\ more' = "no" /\ err' = "none" /\ any_deleted' = {} /\ blind' = "no"
    /\ UNCHANGED <<store, ram, consumed, session, reboot_work, req, at>>

-----------------------------------------------------------------------------
Requests == UNION {[S -> Values] : S \in (SUBSET Touched) \ {{}}}

UpdateNext == \/ \E r \in Requests : ReceiveUpdate(r)
              \/ SkipSection \/ SaveSection \/ SaveFails \/ UpdateRam \/ Listener
              \/ RespondOk
ResetNext == StartReset \/ CollectPass \/ DeleteKey \/ DeleteFails \/ PassDone \/ EndReset

Next == \/ \E L \in SUBSET Touched : Boot(L \cup (Sections \ Touched))
        \/ PowerLoss \/ RequestReboot \/ RebootFires
        \/ UpdateNext \/ ResetNext

Spec == Init /\ [][Next]_vars

-----------------------------------------------------------------------------
(* Properties. *)

\* What a client was told survives: the value acknowledged last, or the default
\* after a factory reset, is what the next boot that can read the store runs on,
\* whatever other requests fail half way and wherever power is lost.
AcknowledgedSurvives ==
    \A s \in Sections : promised[s] # NoPromise => BootValue(s) = promised[s]

\* Between two requests, as long as no reboot is asked for, a reboot would
\* change nothing: no consumer runs on a value that "would silently revert at
\* the next boot" (bridge_config.c).
NoSilentRevert ==
    pc = "idle" /\ session = "clean" /\ "reboot_required" \notin flags =>
        \A s \in Sections : BootValue(s) = consumed[s]

\* "deletes every stored override ... whatever the key" (bridge_config.h): a
\* reset that succeeds leaves no key behind, in however many passes, except what
\* a read error hid from it.
ResetComplete ==
    pc = "reset_end" /\ err = "none" /\ blind = "no" => Stored = {}
=============================================================================
