------------------------------ MODULE OtaUpdate ------------------------------
(***************************************************************************)
(* Firmware update over the web app: the OTA state machine (ota_update.c), *)
(* the upload and status handlers of the web thread (web_app.c) and the    *)
(* two image slots that MCUboot swaps (external).                          *)
(*                                                                         *)
(* The web thread serves one request at a time; the delayed reboot runs on *)
(* the system work queue and may fire between any two of its steps, and    *)
(* power may be lost at any time.  A test image is booted by swapping the  *)
(* slots and swapped back by the next boot unless it was confirmed.        *)
(***************************************************************************)
EXTENDS Naturals

CONSTANTS
    Base,         \* the image flashed at the factory
    Images,       \* images that are uploaded
    Signed,       \* the images MCUboot accepts
    Healthy,      \* the images whose web app is reachable
    Erased, Partial,   \* contents of a slot that are no image
    MaxUpload,    \* max_upload_bytes
    MaxLength     \* bound on the Content-Length of a request

ASSUME OtaAssumption ==
    /\ Base \in Signed \cap Healthy
    /\ Base \notin Images
    /\ Signed \subseteq Images \cup {Base} /\ Healthy \subseteq Signed
    /\ Erased # Partial /\ {Erased, Partial} \cap (Images \cup {Base}) = {}
    /\ MaxUpload \in Nat \ {0} /\ MaxLength \in Nat

VARIABLES
    primary,      \* the image that runs
    image_ok,     \* "confirmed" or "test": MCUboot's flag of the primary slot
    secondary,    \* contents of the upload slot
    mark,         \* "none", "test" or "permanent": the upgrade request in its trailer
    state, expected_bytes, uploaded_bytes,     \* ota_runtime.status
    reboot_work,  \* "idle" or "scheduled"
    pc,           \* web thread: "off", "idle", "erase", "recv", "finish", "request", "respond"
    image, content_length,   \* what the current upload sends and announces, or Base and 0
    accepted      \* the image the last successful finish stands for, or Erased

slots  == <<primary, image_ok, secondary, mark>>
status == <<state, expected_bytes, uploaded_bytes>>
upload == <<image, content_length>>
vars   == <<slots, status, reboot_work, pc, upload, accepted>>

Init ==
    /\ primary = Base
    /\ image_ok = "confirmed"
    /\ secondary = Erased
    /\ mark = "none"
    /\ state = "confirmed" /\ expected_bytes = 0 /\ uploaded_bytes = 0
    /\ reboot_work = "idle"
    /\ pc = "idle"
    /\ image = Base /\ content_length = 0
    /\ accepted = Erased

-----------------------------------------------------------------------------
(* MCUboot, power and reboot. *)

Swap == primary' = secondary /\ secondary' = primary

\* MCUboot chooses the image, then init_once sets up the status.
Boot ==
    /\ pc = "off"
    /\ pc' = "idle"
    /\ mark' = "none"
    /\ CASE mark # "none" /\ secondary \in Signed ->
                Swap /\ image_ok' = IF mark = "test" THEN "test" ELSE "confirmed"
         [] mark # "none" /\ secondary \notin Signed ->
                secondary' = Erased /\ UNCHANGED <<primary, image_ok>>
         [] mark = "none" /\ image_ok = "test" /\ secondary \in Signed ->
                Swap /\ image_ok' = "confirmed"
         [] OTHER -> UNCHANGED <<primary, image_ok, secondary>>
    /\ state' = IF image_ok' = "confirmed" THEN "confirmed" ELSE "ready"
    /\ accepted' = Erased
    /\ UNCHANGED <<expected_bytes, uploaded_bytes, reboot_work, upload>>

\* handle_ota_upload is left.
EndUpload == image' = Base /\ content_length' = 0

Restart ==
    /\ pc' = "off"
    /\ reboot_work' = "idle"
    /\ EndUpload
    /\ expected_bytes' = 0 /\ uploaded_bytes' = 0
    /\ UNCHANGED <<slots, state, accepted>>

PowerLoss == pc # "off" /\ Restart

\* reboot_work_handler
RebootFires == reboot_work = "scheduled" /\ Restart

-----------------------------------------------------------------------------
(* POST /api/ota/upload.  Uploads are allowed by the build. *)

Error == state' = "error"

ValidSize(n) == n # 0 /\ n <= MaxUpload

\* Mutant: the slot is erased before the size is looked at.
EraseFirst == secondary' = Erased /\ mark' = "none"
LeaveSlot == UNCHANGED <<secondary, mark>>

\* A Content-Length that is 0 or too large: the slot is left alone.
BeginRejected(n) ==
    /\ pc = "idle" /\ primary \in Healthy
    /\ ~ValidSize(n)
    /\ LeaveSlot
    /\ Error
    /\ UNCHANGED <<primary, image_ok, expected_bytes, uploaded_bytes, reboot_work,
                   pc, upload, accepted>>

\* flash_area_open fails, or the erase of the first sector.
BeginFails ==
    /\ pc = "idle" /\ primary \in Healthy
    /\ Error
    /\ UNCHANGED <<slots, expected_bytes, uploaded_bytes, reboot_work, pc, upload, accepted>>

\* ota_update_begin, in whatever state the last update left.  boot_erase_img_bank
\* goes through the slot sector by sector: the header of the image is lost first ...
Begin(i, n) ==
    /\ pc = "idle" /\ primary \in Healthy
    /\ ValidSize(n)
    /\ secondary' = Partial
    /\ image' = i /\ content_length' = n
    /\ accepted' = Erased
    /\ pc' = "erase"
    /\ UNCHANGED <<primary, image_ok, mark, status, reboot_work>>

\* Mutant: only the sectors of the announced image are erased.
KeepTrailer == UNCHANGED mark
EraseTrailer == mark' = "none"

\* ... and the trailer with the upgrade request last.
BeginDone ==
    /\ pc = "erase"
    /\ secondary' = Erased
    /\ EraseTrailer
    /\ state' = "uploading"
    /\ expected_bytes' = content_length
    /\ uploaded_bytes' = 0
    /\ content_length' = 0
    /\ pc' = "recv"
    /\ UNCHANGED <<primary, image_ok, reboot_work, image, accepted>>

\* The erase fails half way, or flash_img_init_id fails after it.
EraseFails ==
    /\ pc = "erase"
    /\ \/ UNCHANGED <<secondary, mark>>
       \/ secondary' = Erased /\ mark' = "none"
    /\ Error
    /\ EndUpload
    /\ pc' = "idle"
    /\ UNCHANGED <<primary, image_ok, expected_bytes, uploaded_bytes, reboot_work, accepted>>

\* web_recv (or the part of the body that came with the header) and
\* ota_update_write; the thread never asks for more than what is missing.  The
\* last bytes may be in the flash writer's buffer still, or in the slot already.
WriteChunk(n) ==
    /\ pc = "recv"
    /\ uploaded_bytes + n <= expected_bytes
    /\ uploaded_bytes' = uploaded_bytes + n
    /\ \/ secondary' = Partial
       \/ uploaded_bytes' = expected_bytes /\ secondary' = image
    /\ pc' = IF uploaded_bytes' = expected_bytes THEN "finish" ELSE "recv"
    /\ UNCHANGED <<primary, image_ok, mark, state, expected_bytes, reboot_work,
                   upload, accepted>>

\* ota_update_abort and the error answer
Abort ==
    /\ Error
    /\ EndUpload
    /\ pc' = "idle"
    /\ UNCHANGED <<slots, expected_bytes, uploaded_bytes, reboot_work, accepted>>

\* The connection ends, or a chunk cannot be written.
UploadFails == pc = "recv" /\ Abort

\* ota_update_finish: all bytes have come; the flush completes the image ...
Flush ==
    /\ pc = "finish"
    /\ state = "uploading" /\ uploaded_bytes = expected_bytes
    /\ secondary' = image
    /\ pc' = "request"
    /\ UNCHANGED <<primary, image_ok, mark, status, reboot_work, upload, accepted>>

FlushFails == pc = "finish" /\ Abort

\* Mutant: BOOT_UPGRADE_PERMANENT
PermanentUpgrade == "permanent"
UpgradeRequest == "test"

\* ... then boot_request_upgrade(BOOT_UPGRADE_TEST) marks it.
RequestUpgrade ==
    /\ pc = "request"
    /\ mark' = UpgradeRequest
    /\ state' = "pending_reboot"
    /\ accepted' = image
    /\ pc' = "respond"
    /\ UNCHANGED <<primary, image_ok, secondary, expected_bytes, uploaded_bytes, reboot_work,
                   upload>>

\* The complete image stays in the slot, without the mark.
RequestFails == pc = "request" /\ Abort

\* Mutant: a response that cannot be sent cancels the reboot.
RebootIfAnswered(sent) == IF sent THEN "scheduled" ELSE reboot_work
ScheduleReboot(sent) == "scheduled"

\* The answer is sent or lost; the reboot is scheduled either way.
Respond ==
    /\ pc = "respond"
    /\ \E sent \in BOOLEAN : reboot_work' = ScheduleReboot(sent)
    /\ EndUpload
    /\ pc' = "idle"
    /\ UNCHANGED <<slots, status, accepted>>

-----------------------------------------------------------------------------
(* GET /api/status: ota_update_self_check_web_reachable after an answer    *)
(* that was sent.                                                          *)

SelfCheckConfirmed ==
    /\ pc = "idle" /\ primary \in Healthy
    /\ image_ok = "confirmed"
    /\ state' = "confirmed"
    /\ UNCHANGED <<slots, expected_bytes, uploaded_bytes, reboot_work, pc, upload,
                   accepted>>

SelfCheckConfirms ==
    /\ pc = "idle" /\ primary \in Healthy
    /\ image_ok = "test"
    /\ image_ok' = "confirmed"
    /\ state' = "confirmed"
    /\ UNCHANGED <<primary, secondary, mark, expected_bytes, uploaded_bytes,
                   reboot_work, pc, upload, accepted>>

SelfCheckFails ==
    /\ pc = "idle" /\ primary \in Healthy
    /\ image_ok = "test"
    /\ Error
    /\ UNCHANGED <<slots, expected_bytes, uploaded_bytes, reboot_work, pc, upload,
                   accepted>>

-----------------------------------------------------------------------------
UploadNext == \/ \E n \in 0 .. MaxLength : BeginRejected(n)
              \/ BeginFails
              \/ \E i \in Images, n \in 0 .. MaxLength : Begin(i, n)
              \/ BeginDone \/ EraseFails
              \/ \E n \in 1 .. MaxLength : WriteChunk(n)
              \/ UploadFails \/ Flush \/ FlushFails \/ RequestUpgrade \/ RequestFails \/ Respond
StatusNext == SelfCheckConfirmed \/ SelfCheckConfirms \/ SelfCheckFails

Next == Boot \/ PowerLoss \/ RebootFires \/ UploadNext \/ StatusNext

Spec == Init /\ [][Next]_vars

-----------------------------------------------------------------------------
(* Properties. *)

\* Whatever happens to an upload, the boot loader is asked to try nothing but the
\* complete image of the last finished upload: a second upload in the time before
\* the reboot, and a reboot, a power loss or an error in the middle of its erase,
\* leave the upgrade request only on a slot whose image is visibly damaged.
OnlyAcceptedTried ==
    mark # "none" /\ secondary # Partial => accepted \in Images /\ secondary = accepted

\* An upload that finished is what the next boot tries, unless another upload
\* has been begun: neither status polls, rejected requests nor a lost answer
\* take it away.
AcceptedKept == accepted # Erased => mark # "none" /\ secondary = accepted

\* A test image whose web app cannot be reached is gone after the next boot: an image
\* that can be reached is back, whatever was uploaded, interrupted or tried before. And
\* such an image starts as a test image, so that this applies to it, with one exception:
\* the boot loader goes back from a test image that could have been confirmed and was
\* not, to what an interrupted upload has left in the other slot.
BrokenRunsOnce ==
    [][pc = "off" /\ pc' = "idle" =>
          /\ image_ok = "test" /\ primary \notin Healthy => primary' \in Healthy
          /\ primary' # primary /\ primary' \notin Healthy =>
                image_ok' = "test" \/ (mark = "none" /\ image_ok = "test" /\ primary \in Healthy)]_vars

\* While no new upload begins, an accepted image is tried: the bridge reboots
\* although the client may have gone before the answer.
AcceptedReboots == accepted # Erased /\ pc = "respond" ~> accepted = Erased

=============================================================================
