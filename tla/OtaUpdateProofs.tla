--------------------------- MODULE OtaUpdateProofs ---------------------------
(***************************************************************************)
(* Proofs about the firmware update, for any sets of images and any sizes: *)
(* first for the state machine with its slots, then for the page on top of *)
(* it, whose steps are steps of the state machine or leave it alone.       *)
(***************************************************************************)
EXTENDS OtaPage, TLAPS

USE OtaAssumption

AllImages == Images \cup {Base}

\* The domains of the variables that decide what is booted
SlotTypes ==
    /\ primary \in AllImages
    /\ image_ok \in {"confirmed", "test"}
    /\ secondary \in AllImages \cup {Erased, Partial}
    /\ mark \in {"none", "test"}
    /\ pc \in {"off", "idle", "erase", "recv", "finish", "request", "respond"}
    /\ accepted \in Images \cup {Erased}

\* While an upload is being received, the slot carries no upgrade request; during the
\* erase before it, the slot holds no image.
Receiving ==
    /\ pc = "erase" => secondary = Partial
    /\ pc \in {"erase", "recv", "finish", "request"} => image \in Images /\ accepted = Erased
    /\ pc \in {"recv", "finish", "request"} => mark = "none"
    /\ pc = "request" => secondary = image

\* Only an image that answers requests takes uploads and marks one, and a test image
\* that does not has the one that marked it in the other slot.
WayBack ==
    /\ pc \in {"erase", "recv", "finish", "request", "respond"} => primary \in Healthy
    /\ mark = "test" => primary \in Healthy
    /\ image_ok = "test" /\ primary \notin Healthy => secondary \in Healthy

UpdateInv == SlotTypes /\ Receiving /\ WayBack /\ OnlyAcceptedTried /\ AcceptedKept

-----------------------------------------------------------------------------
\* The bridge starts on a confirmed image, with nothing marked.
LEMMA UpdateInit == Init => UpdateInv
  BY DEF Init, UpdateInv, SlotTypes, AllImages, Receiving, WayBack,
         OnlyAcceptedTried, AcceptedKept

\* The four things MCUboot may do.
LEMMA BootCases ==
    ASSUME Boot, mark \in {"none", "test"}
    PROVE  /\ pc = "off" /\ pc' = "idle" /\ mark' = "none" /\ accepted' = Erased
           /\ \/ /\ mark = "test" /\ secondary \in Signed
                 /\ primary' = secondary /\ secondary' = primary /\ image_ok' = "test"
              \/ /\ mark = "test" /\ secondary \notin Signed
                 /\ secondary' = Erased /\ UNCHANGED <<primary, image_ok>>
              \/ /\ mark = "none" /\ image_ok = "test" /\ secondary \in Signed
                 /\ primary' = secondary /\ secondary' = primary
                 /\ image_ok' = "confirmed"
              \/ /\ mark = "none" /\ ~(image_ok = "test" /\ secondary \in Signed)
                 /\ UNCHANGED <<primary, image_ok, secondary>>
<1>1. pc = "off" /\ pc' = "idle" /\ mark' = "none" /\ accepted' = Erased
  BY DEF Boot
<1>2. CASE mark = "test" /\ secondary \in Signed
  BY <1>1, <1>2 DEF Boot, Swap
<1>3. CASE mark = "test" /\ secondary \notin Signed
  BY <1>1, <1>3 DEF Boot
<1>4. CASE mark = "none" /\ image_ok = "test" /\ secondary \in Signed
  BY <1>1, <1>4 DEF Boot, Swap
<1>5. CASE mark = "none" /\ ~(image_ok = "test" /\ secondary \in Signed)
  BY <1>1, <1>5 DEF Boot
<1> QED BY <1>2, <1>3, <1>4, <1>5

\* The invariant is inductive: every action of the update, and a power loss at any
\* point, keeps it.
LEMMA UpdateStep == UpdateInv /\ [Next]_vars => UpdateInv'
<1> SUFFICES ASSUME UpdateInv, [Next]_vars PROVE UpdateInv'
  OBVIOUS
<1> USE DEF UpdateInv, SlotTypes, AllImages, Receiving, WayBack, OnlyAcceptedTried,
            AcceptedKept
<1>1. CASE Boot
  <2>1. SlotTypes' /\ Receiving' /\ OnlyAcceptedTried' /\ AcceptedKept'
    BY <1>1, BootCases
  <2>2. WayBack'
    BY <1>1, BootCases
  <2> QED BY <2>1, <2>2
<1>2. CASE PowerLoss \/ RebootFires
  BY <1>2 DEF PowerLoss, RebootFires, Restart, slots
<1>3. CASE \E n \in 0 .. MaxLength : BeginRejected(n)
  BY <1>3 DEF BeginRejected, LeaveSlot
<1>4. CASE BeginFails
  BY <1>4 DEF BeginFails, slots
<1>5. CASE \E i \in Images, n \in 0 .. MaxLength : Begin(i, n)
  BY <1>5 DEF Begin
<1>6. CASE BeginDone
  BY <1>6 DEF BeginDone, EraseTrailer
<1>7. CASE EraseFails
  BY <1>7 DEF EraseFails, EndUpload
<1>8. CASE \E n \in 1 .. MaxLength : WriteChunk(n)
  BY <1>8 DEF WriteChunk, upload
<1>9. CASE UploadFails \/ FlushFails \/ RequestFails
  BY <1>9 DEF UploadFails, FlushFails, RequestFails, Abort, slots
<1>10. CASE Flush
  BY <1>10 DEF Flush, upload
<1>11. CASE RequestUpgrade
  BY <1>11 DEF RequestUpgrade, UpgradeRequest, upload
<1>12. CASE Respond
  BY <1>12 DEF Respond, slots
<1>13. CASE StatusNext
  BY <1>13 DEF StatusNext, SelfCheckConfirmed, SelfCheckConfirms, SelfCheckFails, slots, upload
<1>14. CASE UNCHANGED vars
  BY <1>14 DEF vars, slots, upload
<1> QED BY <1>1, <1>2, <1>3, <1>4, <1>5, <1>6, <1>7, <1>8, <1>9, <1>10, <1>11, <1>12, <1>13,
           <1>14 DEF Next, UploadNext

-----------------------------------------------------------------------------
\* The inductive invariant of the update, from which the theorems follow.
THEOREM UpdateInvariant == Spec => []UpdateInv
  BY UpdateInit, UpdateStep, PTL DEF Spec

\* What a boot makes of an unreachable image that was on trial, and how another such
\* image can come up.
LEMMA BrokenStep ==
    ASSUME UpdateInv, [Next]_vars
    PROVE  [pc = "off" /\ pc' = "idle" =>
               /\ image_ok = "test" /\ primary \notin Healthy => primary' \in Healthy
               /\ primary' # primary /\ primary' \notin Healthy =>
                     \/ image_ok' = "test"
                     \/ mark = "none" /\ image_ok = "test" /\ primary \in Healthy]_vars
<1> SUFFICES ASSUME Next, pc = "off", pc' = "idle"
             PROVE  /\ image_ok = "test" /\ primary \notin Healthy => primary' \in Healthy
                    /\ primary' # primary /\ primary' \notin Healthy =>
                          \/ image_ok' = "test"
                          \/ mark = "none" /\ image_ok = "test" /\ primary \in Healthy
  OBVIOUS
<1>1. Boot
  BY DEF Next, PowerLoss, RebootFires, Restart, UploadNext, BeginRejected, BeginFails,
         Begin, BeginDone, EraseFails, WriteChunk, UploadFails, Flush, FlushFails,
         RequestUpgrade, RequestFails, Abort, Respond,
         StatusNext, SelfCheckConfirmed, SelfCheckConfirms, SelfCheckFails
<1>2. image_ok = "test" /\ primary \notin Healthy => primary' \in Healthy
  BY <1>1, BootCases DEF UpdateInv, SlotTypes, WayBack
<1>3. primary' # primary /\ primary' \notin Healthy =>
         \/ image_ok' = "test"
         \/ mark = "none" /\ image_ok = "test" /\ primary \in Healthy
  BY <1>1, BootCases DEF UpdateInv, SlotTypes, WayBack
<1> QED BY <1>2, <1>3

-----------------------------------------------------------------------------
(* The page. *)

\* Every step of page, network and device is a step of the update or leaves it
\* alone: the browser can do nothing the state machine does not foresee.
LEMMA PageStep == [PageNext]_pageVars => [Next]_vars
<1> SUFFICES ASSUME [PageNext]_pageVars PROVE [Next]_vars
  OBVIOUS
<1>1. CASE \/ NetworkChanges \/ SendPoll \/ ApplyPollFailure \/ OtaRebootExpires
           \/ \E p \in {"sent", "pending_reboot", "settled"} : PollLost(p)
           \/ \E p \in {"pending_reboot", "settled"} : ApplyStatus(p)
           \/ SubmitUpload \/ UploadLost \/ ApplyUpload
  BY <1>1 DEF NetworkChanges, SendPoll, ApplyPollFailure, OtaRebootExpires, PollLost,
              ApplyStatus, SubmitUpload, UploadLost, ApplyUpload
<1>2. CASE DeviceBoots \/ OtaRebootFires \/ LosesPower
  BY <1>2 DEF DeviceBoots, OtaRebootFires, LosesPower, DeviceStep, Next
<1>3. CASE OtherClient
  BY <1>3 DEF OtherClient, DeviceStep, Next, UploadNext
<1>4. CASE ServePoll
  BY <1>4 DEF ServePoll, Next
<1>5. CASE ServeUpload
  BY <1>5, PageAssumption DEF ServeUpload, Next, UploadNext
<1>6. CASE Receive
  BY <1>6, PageAssumption DEF Receive, Next, UploadNext
<1>7. CASE ContinueUpload
  BY <1>7 DEF ContinueUpload, Next, UploadNext
<1>8. CASE UNCHANGED pageVars
  BY <1>8 DEF pageVars
<1> QED BY <1>1, <1>2, <1>3, <1>4, <1>5, <1>6, <1>7, <1>8 DEF PageNext

\* Device, network and page together implement the update.
THEOREM PageImplementsUpdate == PageSpec => Spec
<1>1. PageInit => Init
  BY DEF PageInit
<1> QED BY <1>1, PageStep, PTL DEF PageSpec, Spec

\* The boot loader is only ever asked to try the complete image of the last finished
\* upload, or a slot whose erase was interrupted, which holds no image.
THEOREM OnlyAcceptedImagesTried == PageSpec => []OnlyAcceptedTried
<1>1. UpdateInv => OnlyAcceptedTried
  BY DEF UpdateInv
<1> QED BY <1>1, PageImplementsUpdate, UpdateInvariant, PTL

\* An upload that finished stays what the next boot tries until another begins.
THEOREM AcceptedImageKept == PageSpec => []AcceptedKept
<1>1. UpdateInv => AcceptedKept
  BY DEF UpdateInv
<1> QED BY <1>1, PageImplementsUpdate, UpdateInvariant, PTL

\* A test image whose web app cannot be reached does not survive the next boot, and such
\* an image comes up as a test image, except where the boot loader goes back from a test
\* image that was not confirmed.
THEOREM BrokenImageRunsOnce == PageSpec => BrokenRunsOnce
  BY PageImplementsUpdate, UpdateInvariant, BrokenStep, PTL DEF Spec, BrokenRunsOnce
=============================================================================
