------------------------------- MODULE WebPage -------------------------------
(***************************************************************************)
(* The configuration cards of the page in the browser (web_assets/app.js)  *)
(* and the device behind them, of which only the reboot-required flag and  *)
(* the delayed reboot matter here.                                         *)
(*                                                                         *)
(* The page polls the status every 2 s without waiting for the last        *)
(* answer, so polls and loads of the configuration are in flight beside a  *)
(* save or reset and a reboot request, and their answers are applied in    *)
(* any order.  A request takes effect on the device when the web thread    *)
(* serves it; it fails, or its answer is lost, while the device is off or  *)
(* out of reach.                                                           *)
(*                                                                         *)
(* Left out: texts, the contents of the forms and input that is rejected   *)
(* before anything is sent.  The firmware card is in OtaPage.              *)
(***************************************************************************)
EXTENDS Naturals

CONSTANTS
    MaxPolls,     \* bound on the status requests in flight
    MaxLoads      \* bound on the chains of loadConfig and its retry timer

ASSUME PageAssumption == MaxPolls \in Nat \ {0} /\ MaxLoads \in Nat \ {0}

VARIABLES
    device,               \* "up", "away" (the network is down) or "off"
    reboot_required,      \* bridge_config.c
    web_reboot_work,      \* "idle" or "scheduled"
    polls, loads,         \* how many requests are in each phase
    post,                 \* the save or reset: kind and answer
    rebootPost,           \* POST /api/reboot: "none", "sent", "ok", "failed"
    statusOffline, configLoaded, rebootInProgress,
    graceRunning,         \* now <= rebootGraceUntil
    banner,               \* the reboot-required banner is shown
    formsEnabled, rebootEnabled,    \* the controls as last set
    blind                 \* history: the page had no way to know the flag

bridge   == <<device, reboot_required, web_reboot_work>>
requests == <<polls, loads, post, rebootPost>>
reboot   == <<rebootInProgress, graceRunning>>
controls == <<formsEnabled, rebootEnabled>>
page     == <<statusOffline, configLoaded, reboot, banner, controls, blind>>
pageVars == <<bridge, requests, page>>

PollPhases == {"idle", "sent", "ok", "failed"}
LoadPhases == {"idle", "timer", "sent", "true", "false", "failed"}

\* One of the requests counted by f goes from phase a to phase b.
Move(f, a, b) == [f EXCEPT ![a] = @ - 1, ![b] = @ + 1]

\* n requests, one of them just sent
OneSent(phases, n) == Move([p \in phases |-> IF p = "idle" THEN n ELSE 0], "idle", "sent")

Flag(b) == IF b THEN "true" ELSE "false"

NoPost == [kind |-> "none", answer |-> "none"]
configSaving == post # NoPost

\* The page has just been opened: loadConfig and pollStatus were called.
PageInit ==
    /\ device = "up" /\ reboot_required \in BOOLEAN /\ web_reboot_work = "idle"
    /\ polls = OneSent(PollPhases, MaxPolls)
    /\ loads = OneSent(LoadPhases, MaxLoads)
    /\ post = NoPost /\ rebootPost = "none"
    /\ statusOffline = FALSE /\ configLoaded = FALSE
    /\ rebootInProgress = FALSE /\ graceRunning = FALSE
    /\ banner = FALSE
    /\ formsEnabled = FALSE /\ rebootEnabled = TRUE
    /\ blind = FALSE

-----------------------------------------------------------------------------
(* The device and the network. *)

NetworkChanges ==
    /\ \/ device = "up" /\ device' = "away"
       \/ device = "away" /\ device' = "up"
    /\ UNCHANGED <<reboot_required, web_reboot_work, requests, page>>

\* A restart clears the flag and what was scheduled.
Restart ==
    /\ device # "off" /\ device' = "off"
    /\ reboot_required' = FALSE
    /\ web_reboot_work' = "idle"
    /\ blind' = TRUE
    /\ UNCHANGED <<requests, statusOffline, configLoaded, reboot, banner, controls>>

\* Power loss, or the reboot after an upload
OtherRestart == web_reboot_work = "idle" /\ Restart

\* reboot_work_handler
RebootFires == web_reboot_work = "scheduled" /\ Restart

Boot ==
    /\ device = "off" /\ device' = "up"
    /\ UNCHANGED <<reboot_required, web_reboot_work, requests, page>>

-----------------------------------------------------------------------------
updateConfigControls ==
    /\ formsEnabled' = (configLoaded' /\ post' = NoPost /\ ~rebootInProgress')
    /\ rebootEnabled' = ~rebootInProgress'

\* loadConfig is called.
loadConfig == loads["idle"] > 0 /\ loads' = Move(loads, "idle", "sent")

(* pollStatus. *)

SendPoll ==
    /\ polls["idle"] > 0
    /\ polls' = Move(polls, "idle", "sent")
    /\ UNCHANGED <<bridge, loads, post, rebootPost, page>>

ServePoll ==
    /\ device = "up"
    /\ polls["sent"] > 0
    /\ polls' = Move(polls, "sent", "ok")
    /\ UNCHANGED <<bridge, loads, post, rebootPost, page>>

PollLost(p) ==
    /\ device # "up"
    /\ polls[p] > 0
    /\ polls' = Move(polls, p, "failed")
    /\ UNCHANGED <<bridge, loads, post, rebootPost, page>>

\* Mutant: a reboot is over only once a poll has failed.
SeenOffline == FALSE
rebootOver == rebootInProgress /\ ~graceRunning

\* rebootStateCleared, then loadConfig
BackAgain ==
    /\ rebootInProgress' = FALSE /\ graceRunning' = FALSE /\ blind' = FALSE
    /\ loadConfig

\* render: clearOffline; the controls follow when the configuration is loaded.
ApplyStatus ==
    /\ polls["ok"] > 0
    /\ polls' = Move(polls, "ok", "idle")
    /\ statusOffline' = FALSE
    /\ IF statusOffline \/ rebootOver
       THEN BackAgain
       ELSE UNCHANGED <<reboot, blind, loads>>
    /\ UNCHANGED <<bridge, post, rebootPost, configLoaded, banner, controls>>

\* setOffline
ApplyPollFailure ==
    /\ polls["failed"] > 0
    /\ polls' = Move(polls, "failed", "idle")
    /\ statusOffline' = TRUE
    /\ UNCHANGED <<bridge, loads, post, rebootPost, configLoaded, reboot, banner,
                   controls, blind>>

-----------------------------------------------------------------------------
(* loadConfig. *)

ServeLoad ==
    /\ device = "up"
    /\ loads["sent"] > 0
    /\ loads' = Move(loads, "sent", Flag(reboot_required))
    /\ UNCHANGED <<bridge, polls, post, rebootPost, page>>

LoadLost(p) ==
    /\ device # "up"
    /\ loads[p] > 0
    /\ loads' = Move(loads, p, "failed")
    /\ UNCHANGED <<bridge, polls, post, rebootPost, page>>

\* What the answer says is over: a save, a reset or a restart came in between.
Overtaken(answer) == answer \in {"true", "false"} /\ answer # Flag(reboot_required)

ApplyLoad(p) ==
    /\ loads[p] > 0
    /\ loads' = Move(loads, p, "idle")
    /\ banner' = (p = "true")
    /\ configLoaded' = TRUE
    /\ blind' = (blind \/ Overtaken(p))
    /\ UNCHANGED <<bridge, polls, post, rebootPost, statusOffline, reboot>>
    /\ updateConfigControls

LoadFails ==
    /\ loads["failed"] > 0
    /\ loads' = Move(loads, "failed", "timer")
    /\ UNCHANGED <<bridge, polls, post, rebootPost, statusOffline, configLoaded, reboot,
                   banner, blind>>
    /\ updateConfigControls

LoadAgain ==
    /\ loads["timer"] > 0
    /\ loads' = Move(loads, "timer", "sent")
    /\ UNCHANGED <<bridge, polls, post, rebootPost, page>>

-----------------------------------------------------------------------------
(* Saving a card and the factory reset.  One of them at a time: the forms   *)
(* are disabled meanwhile.                                                  *)

Submit(k) ==
    /\ formsEnabled
    /\ post' = [kind |-> k, answer |-> "waiting"]
    /\ UNCHANGED <<bridge, polls, loads, rebootPost, statusOffline, configLoaded, reboot,
                   banner, blind>>
    /\ updateConfigControls

Posted(k) == device = "up" /\ post = [kind |-> k, answer |-> "waiting"]
Answer(a) == post' = [post EXCEPT !.answer = a]

\* An answer with status 200 arrives whole or without its body.
AnswerConfig == Answer(Flag(reboot_required')) \/ Answer("unparsed")
AnswerError  == UNCHANGED reboot_required /\ Answer("error")

\* handle_config_update for one card: a section of reboot scope is stored, or
\* one that applies at once or is unchanged, or it is invalid or not stored.
ServeSave ==
    /\ Posted("save")
    /\ \/ reboot_required' = TRUE /\ AnswerConfig
       \/ UNCHANGED reboot_required /\ AnswerConfig
       \/ AnswerError
    /\ UNCHANGED <<device, web_reboot_work, polls, loads, rebootPost, page>>

\* handle_config_reset: complete, failed after a delete, failed before one
ServeReset ==
    /\ Posted("reset")
    /\ \/ reboot_required' = TRUE /\ AnswerConfig
       \/ reboot_required' = TRUE /\ Answer("error")
       \/ AnswerError
    /\ UNCHANGED <<device, web_reboot_work, polls, loads, rebootPost, page>>

PostLost ==
    /\ device # "up"
    /\ configSaving /\ post.answer # "lost"
    /\ Answer("lost")
    /\ UNCHANGED <<bridge, polls, loads, rebootPost, page>>

Done(k) == post.kind = k /\ post.answer # "waiting" /\ post' = NoPost

\* postConfig and the end of the submit handlers.  Without a body the banner is
\* taken away; without an answer it stays as it is.
ApplySave ==
    /\ Done("save")
    /\ banner' = IF post.answer \in {"error", "lost"} THEN banner ELSE post.answer = "true"
    /\ blind' = (blind \/ post.answer \in {"lost", "unparsed"} \/ Overtaken(post.answer))
    /\ UNCHANGED <<bridge, polls, loads, rebootPost, statusOffline, configLoaded, reboot>>
    /\ updateConfigControls

\* Mutant: a reset that failed has changed nothing.
NothingChanged == UNCHANGED loads
FetchAgain == loadConfig

\* handleFactoryReset after the answer
ApplyReset ==
    /\ Done("reset")
    /\ \/ /\ post.answer \in {"true", "unparsed"}
          /\ banner' = TRUE
          /\ blind' = (blind \/ Overtaken("true"))
          /\ UNCHANGED loads
       \/ /\ post.answer \in {"error", "lost"}
          /\ FetchAgain
          /\ blind' = FALSE
          /\ UNCHANGED banner
    /\ UNCHANGED <<bridge, polls, rebootPost, statusOffline, configLoaded, reboot>>
    /\ updateConfigControls

-----------------------------------------------------------------------------
(* handleReboot. *)

\* The button is part of the banner.
ClickReboot ==
    /\ banner /\ rebootEnabled
    /\ rebootPost = "none"          \* bound: one request at a time
    /\ rebootPost' = "sent"
    /\ rebootInProgress' = TRUE
    /\ UNCHANGED <<bridge, polls, loads, post, statusOffline, configLoaded, graceRunning,
                   banner, blind>>
    /\ updateConfigControls

\* handle_reboot
ServeReboot ==
    /\ device = "up"
    /\ rebootPost = "sent"
    /\ rebootPost' = "ok"
    /\ web_reboot_work' = "scheduled"
    /\ UNCHANGED <<device, reboot_required, polls, loads, post, page>>

RebootPostLost ==
    /\ device # "up"
    /\ rebootPost \in {"sent", "ok"}
    /\ rebootPost' = "failed"
    /\ UNCHANGED <<bridge, polls, loads, post, page>>

ApplyReboot ==
    /\ \/ rebootPost = "ok" /\ graceRunning' = TRUE /\ UNCHANGED rebootInProgress
       \/ rebootPost = "failed" /\ rebootInProgress' = FALSE /\ UNCHANGED graceRunning
    /\ rebootPost' = "none"
    /\ UNCHANGED <<bridge, polls, loads, post, statusOffline, configLoaded, banner, blind>>
    /\ updateConfigControls

\* 5 s have passed since the answer, and WEB_APP_REBOOT_DELAY_MS before them.
GraceEnds ==
    /\ graceRunning
    /\ web_reboot_work = "idle"
    /\ graceRunning' = FALSE
    /\ UNCHANGED <<bridge, requests, statusOffline, configLoaded, rebootInProgress,
                   banner, controls, blind>>

-----------------------------------------------------------------------------
PollStep   == SendPoll \/ ServePoll \/ ApplyStatus \/ ApplyPollFailure
LoadStep   == \/ ServeLoad \/ LoadFails \/ LoadAgain
              \/ \E p \in {"true", "false"} : ApplyLoad(p)
PostStep   == ServeSave \/ ServeReset \/ ApplySave \/ ApplyReset
RebootStep == RebootFires \/ ServeReboot \/ ApplyReboot \/ GraceEnds

Users  == ClickReboot \/ \E k \in {"save", "reset"} : Submit(k)
Faults == \/ NetworkChanges \/ OtherRestart
          \/ \E p \in {"sent", "ok"} : PollLost(p)
          \/ \E p \in {"sent", "true", "false"} : LoadLost(p)
          \/ PostLost \/ RebootPostLost

PageNext == PollStep \/ LoadStep \/ PostStep \/ RebootStep \/ Users \/ Faults \/ Boot

\* Timers run out, the browser reports what was answered or lost, and the web
\* thread serves what reaches it.  No user is assumed to do anything, and
\* nothing brings the network or the power back.
Fairness == /\ WF_pageVars(PollStep) /\ WF_pageVars(LoadStep)
            /\ WF_pageVars(PostStep) /\ WF_pageVars(RebootStep)

PageSpec == PageInit /\ [][PageNext]_pageVars /\ Fairness

-----------------------------------------------------------------------------
(* Properties. *)

\* Whatever was lost on the way, no save, reset or reboot leaves the forms or
\* the reboot button disabled for good: once the bridge stays reachable they
\* come back, without a user reloading the page, even if a reboot passed between
\* two polls.
FormsComeBack == <>[](device = "up") => []<>formsEnabled /\ []<>rebootEnabled

\* When nothing is in flight the banner says what the device would say, across
\* failed resets, lost answers and restarts that the page has noticed.  The
\* exceptions are in blind: a save whose answer was lost or came without its
\* body, an answer overtaken by another request, a restart between two polls.
Quiet == loads["idle"] = MaxLoads /\ ~configSaving
BannerTruthful == Quiet /\ ~blind => banner = reboot_required

=============================================================================
