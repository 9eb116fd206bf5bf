------------------------------- MODULE Agent -------------------------------
(***************************************************************************)
(* The embewi agent of one ESP device, seen through the HTTP calls and the *)
(* heartbeats that src/internal/agent/client.go and                        *)
(* src/internal/controller/mcudeployment_controller.go exchange with it.   *)
(* The firmware itself is in another repository: this module is EXTERNAL,  *)
(* it is the behaviour the controller's code and docs/core/agent-api.md    *)
(* rely on, and every operator is a pure function of one device record.    *)
(*                                                                         *)
(* A firmware image is named by the deployment that wrote it: fw is what   *)
(* the device runs, prev what the bootloader returns to while fw is not    *)
(* validated (NoDeployment otherwise), staged the inactive slot.           *)
(***************************************************************************)
CONSTANTS Deployment,    \* McuDeployment objects; each one's UID is its deployment id
          Image,         \* firmware images, standing for their digest too
          NoDeployment,  \* no deployment id (factory image, empty slot)
          NoImage        \* empty digest

ASSUME AgentAssumption == NoDeployment \notin Deployment /\ NoImage \notin Image

OptDeployment == Deployment \cup {NoDeployment}
OptImage      == Image \cup {NoImage}

StagedState == {"none", "written", "activating"}

Staged == [state : StagedState, id : OptDeployment, digest : OptImage]

EmptySlot == [state |-> "none", id |-> NoDeployment, digest |-> NoImage]

DeviceState == {"rebooting", "pending_verify", "running", "degraded", "rollback"}

Device == [state : DeviceState, fw : OptDeployment, prev : OptDeployment,
           validated : BOOLEAN, staged : Staged]

Factory == [state |-> "running", fw |-> NoDeployment, prev |-> NoDeployment,
            validated |-> TRUE, staged |-> EmptySlot]

\* The API answers and heartbeats leave the device unless it is rebooting.
Up(a) == a.state # "rebooting"

(* HTTP handlers *)

\* POST /ota/prepare, accepted: the inactive slot is opened for a new image.
Prepared(a) == [a EXCEPT !.staged = EmptySlot]

\* PUT /ota/write, complete: the agent checked the digest it was announced.
Written(a, d, img) ==
    [a EXCEPT !.staged = [state |-> "written", id |-> d, digest |-> img]]

\* POST /ota/activate is honoured only for the image this deployment wrote.
CanActivate(a, d) == a.staged.state = "written" /\ a.staged.id = d

Activated(a) == [a EXCEPT !.staged.state = "activating"]

\* GET /info shows that activate was received and the reboot is still to come.
IsActivating(a, d) == a.staged.state = "activating" /\ a.staged.id = d

(* What happens on the device by itself *)

\* Power loss, watchdog, or the reboot that follows activate.
Rebooted(a) == [a EXCEPT !.state = "rebooting"]

\* The bootloader: the activated slot on trial, else back to prev when the
\* running image was never validated, else the same image again.
Booted(a) ==
    IF a.staged.state = "activating"
    THEN [state |-> "pending_verify", fw |-> a.staged.id, prev |-> a.fw,
          validated |-> FALSE, staged |-> EmptySlot]
    ELSE IF ~a.validated
    THEN [a EXCEPT !.state = "rollback", !.fw = a.prev,
                   !.prev = NoDeployment, !.validated = TRUE]
    ELSE [a EXCEPT !.state = "running"]

\* Self-check passed; the image is marked valid right after.
Started(a)   == [a EXCEPT !.state = "running"]
Validated(a) == [a EXCEPT !.validated = TRUE, !.prev = NoDeployment]
=============================================================================
