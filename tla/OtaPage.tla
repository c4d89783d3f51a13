------------------------------- MODULE OtaPage -------------------------------
(***************************************************************************)
(* The firmware card of the page in the browser (web_assets/app.js) on top *)
(* of the OTA state machine: status polls, the upload and the controls.    *)
(*                                                                         *)
(* The page polls every 2 s without waiting for the last answer, so polls  *)
(* are in flight beside each other and beside the upload, and their        *)
(* answers are applied in any order.  A request takes effect on the device *)
(* when the web thread serves it; it fails, or its answer is lost, while   *)
(* the device is off, runs an image that does not serve, or is out of      *)
(* reach.  The configuration cards are in WebPage: they share the polls    *)
(* with this card and nothing else.  A file that fits is always chosen.    *)
(***************************************************************************)
EXTENDS OtaUpdate

CONSTANT MaxPolls     \* bound on the status requests in flight

ASSUME PageAssumption ==
    /\ MaxPolls \in Nat \ {0}
    /\ MaxUpload < MaxLength     \* other clients may announce more than fits

VARIABLES
    network,          \* "up" or "down", between browser and device
    polls,            \* how many status requests are in each phase
    xhr,              \* the upload: "none", "sent", "serving", "accepted", "failed"
    statusOffline, otaAvailable,
    otaRebootExpected,    \* now < otaRebootExpectedUntil
    uploadEnabled     \* the controls of the card as last set

card     == <<statusOffline, otaAvailable, otaRebootExpected, uploadEnabled>>
pageVars == <<vars, network, polls, xhr, card>>

PollPhases == {"idle", "sent", "pending_reboot", "settled", "failed"}

\* One of the requests counted by f goes from phase a to phase b.
Move(f, a, b) == [f EXCEPT ![a] = @ - 1, ![b] = @ + 1]

otaUploadInProgress == xhr # "none"

\* The page has just been opened and pollStatus was called.
PageInit ==
    /\ Init
    /\ network = "up"
    /\ polls = Move([p \in PollPhases |-> IF p = "idle" THEN MaxPolls ELSE 0], "idle", "sent")
    /\ xhr = "none"
    /\ statusOffline = FALSE /\ otaAvailable = FALSE /\ otaRebootExpected = FALSE
    /\ uploadEnabled = FALSE

-----------------------------------------------------------------------------
(* The device and the network. *)

Reachable == pc # "off" /\ primary \in Healthy /\ network = "up"

\* The web thread takes the next connection.
Serves == Reachable /\ pc = "idle"

NetworkChanges ==
    /\ network' = IF network = "up" THEN "down" ELSE "up"
    /\ UNCHANGED <<vars, polls, xhr, card>>

DeviceStep(A) == A /\ UNCHANGED <<network, polls, xhr, card>>

DeviceBoots    == DeviceStep(Boot)
OtaRebootFires == DeviceStep(RebootFires)
LosesPower     == DeviceStep(PowerLoss)

\* A client that is not the page, and does not look at max_upload_bytes.
OtherClient == \E n \in MaxUpload + 1 .. MaxLength : Serves /\ DeviceStep(BeginRejected(n))

-----------------------------------------------------------------------------
updateOtaControls ==
    uploadEnabled' = (~statusOffline' /\ otaAvailable' /\ xhr' = "none" /\ ~otaRebootExpected')

(* pollStatus. *)

SendPoll ==
    /\ polls["idle"] > 0
    /\ polls' = Move(polls, "idle", "sent")
    /\ UNCHANGED <<vars, network, xhr, card>>

\* The answer carries the state before the self-check that follows it.
ServePoll ==
    /\ Serves
    /\ polls["sent"] > 0
    /\ polls' = Move(polls, "sent", IF state = "pending_reboot" THEN state ELSE "settled")
    /\ StatusNext
    /\ UNCHANGED <<network, xhr, card>>

\* Without the device; or the two places of the backlog are taken while the web
\* thread is busy with an upload.
PollLost(p) ==
    /\ ~Reachable \/ (p = "sent" /\ pc # "idle")
    /\ polls[p] > 0
    /\ polls' = Move(polls, p, "failed")
    /\ UNCHANGED <<vars, network, xhr, card>>

Expecting(p) == p = "pending_reboot" /\ (otaRebootExpected \/ ~otaUploadInProgress)

renderOta(p) ==
    /\ otaAvailable' = (p # "pending_reboot")
    /\ otaRebootExpected' = Expecting(p)

\* render: clearOffline, then renderOta
ApplyStatus(p) ==
    /\ polls[p] > 0
    /\ polls' = Move(polls, p, "idle")
    /\ statusOffline' = FALSE
    /\ renderOta(p)
    /\ UNCHANGED <<vars, network, xhr>>
    /\ updateOtaControls

\* setOffline
ApplyPollFailure ==
    /\ polls["failed"] > 0
    /\ polls' = Move(polls, "failed", "idle")
    /\ statusOffline' = TRUE
    /\ UNCHANGED <<vars, network, xhr, otaAvailable, otaRebootExpected>>
    /\ updateOtaControls

\* 120 s have passed; the reboot, due after 750 ms, was long ago.
OtaRebootExpires ==
    /\ otaRebootExpected
    /\ reboot_work = "idle"
    /\ otaRebootExpected' = FALSE
    /\ UNCHANGED <<vars, network, polls, xhr, statusOffline, otaAvailable, uploadEnabled>>

-----------------------------------------------------------------------------
(* handleOtaSubmit and uploadFirmware. *)

SubmitUpload ==
    /\ uploadEnabled
    /\ xhr' = "sent"
    /\ UNCHANGED <<vars, network, polls, statusOffline, otaAvailable, otaRebootExpected>>
    /\ updateOtaControls

\* What the device does with the upload, seen from the browser.
Upload(phase) == xhr' = phase /\ UNCHANGED <<network, polls, card>>

\* The same for a connection that the browser may already have given up.
Serving(phase) == Upload(IF xhr = "serving" THEN phase ELSE xhr)

ServeUpload ==
    /\ Serves /\ xhr = "sent"
    /\ \/ BeginFails /\ Upload("failed")
       \/ BeginRejected(0) /\ Upload("failed")
       \/ \E i \in Images, n \in 1 .. MaxUpload : Begin(i, n) /\ Upload("serving")

Receive == \E n \in 1 .. MaxUpload : WriteChunk(n) /\ Serving("serving")

ContinueUpload ==
    \/ (BeginDone \/ Flush \/ RequestUpgrade) /\ Serving("serving")
    \/ (EraseFails \/ UploadFails \/ FlushFails \/ RequestFails) /\ Serving("failed")
    \/ Respond /\ (Serving("accepted") \/ Serving("failed"))

\* The connection is gone with the device or the network.
UploadLost ==
    /\ \/ xhr \in {"sent", "serving", "accepted"} /\ ~Reachable
       \/ xhr = "serving" /\ pc = "idle"
    /\ UNCHANGED vars
    /\ Upload("failed")

\* Mutant: the catch block does not reset otaUploadInProgress.
StillInProgress == xhr
AfterFailure == "none"

ApplyUpload ==
    /\ \/ /\ xhr = "accepted"
          /\ xhr' = "none"
          /\ otaRebootExpected' = TRUE /\ otaAvailable' = FALSE /\ uploadEnabled' = FALSE
          /\ polls' = IF polls["idle"] > 0 THEN Move(polls, "idle", "sent") ELSE polls
          /\ UNCHANGED statusOffline
       \/ /\ xhr = "failed"
          /\ xhr' = AfterFailure
          /\ UNCHANGED <<otaRebootExpected, otaAvailable, polls, statusOffline>>
          /\ updateOtaControls
    /\ UNCHANGED <<vars, network>>

-----------------------------------------------------------------------------
PageNext ==
    \/ NetworkChanges \/ DeviceBoots \/ OtaRebootFires \/ LosesPower \/ OtherClient
    \/ SendPoll \/ ServePoll
    \/ \E p \in {"sent", "pending_reboot", "settled"} : PollLost(p)
    \/ \E p \in {"pending_reboot", "settled"} : ApplyStatus(p)
    \/ ApplyPollFailure \/ OtaRebootExpires
    \/ SubmitUpload \/ ServeUpload \/ Receive \/ ContinueUpload \/ UploadLost \/ ApplyUpload

\* Timers run out, the browser reports what was answered or lost, and the web
\* thread serves connections in the order in which it accepts them.  No user is
\* assumed to do anything, and nothing brings the network back.
PageFairness ==
    /\ WF_pageVars(DeviceBoots) /\ WF_pageVars(OtaRebootFires)
    /\ WF_pageVars(SendPoll) /\ SF_pageVars(ServePoll)
    /\ WF_pageVars(ApplyStatus("settled")) /\ WF_pageVars(ApplyStatus("pending_reboot"))
    /\ WF_pageVars(ApplyPollFailure)
    /\ SF_pageVars(ServeUpload) /\ WF_pageVars(ContinueUpload)
    /\ WF_pageVars(UploadLost) /\ WF_pageVars(ApplyUpload)

PageSpec == PageInit /\ [][PageNext]_pageVars /\ PageFairness

-----------------------------------------------------------------------------
(* Properties. *)

\* Whatever is lost on the way, and whatever image comes up, no upload leaves
\* the card disabled for good: once the bridge stays reachable the button comes
\* back, without a user reloading the page.
UploadComesBack == <>[]Reachable => []<>uploadEnabled

=============================================================================
