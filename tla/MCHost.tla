------------------------------ MODULE MCHost ------------------------------
(***************************************************************************)
(* Three programs of the Windows host that share no state: the guards of   *)
(* sound, the installer and the cleanup tool.  A behaviour is one of them  *)
(* running; the other two rest in one of their initial states.             *)
(***************************************************************************)
EXTENDS MediaGuards, Installer, CleanupSession

VARIABLE part

C_Order == [e \in {"headset", "webcam"} |-> IF e = "headset" THEN 1 ELSE 2]
C_Guards == <<"roblox", "mic", "panel">>

hostVars == <<part, mediaVars, installVars, cleanupVars>>

HostInit ==
  /\ part \in {"sound", "install", "cleanup"} /\ MediaInit /\ InstallInit /\ CleanupInit
  /\ part # "sound" => lane = "mic" /\ plugged = {} /\ default = "headset"
  /\ part # "install" => tasks = {}
  /\ part # "cleanup" => listed = {} /\ unlocked = FALSE /\ client = Closed

SoundStep(A) == part = "sound" /\ A /\ UNCHANGED <<part, installVars, cleanupVars>>

HostNext ==
  \/ SoundStep(MediaNext)
  \/ part = "install" /\ InstallNext /\ UNCHANGED <<part, mediaVars, cleanupVars>>
  \/ part = "cleanup" /\ CleanupNext /\ UNCHANGED <<part, mediaVars, installVars>>

HostSpec == HostInit /\ [][HostNext]_hostVars /\ WF_hostVars(SoundStep(Work))
=============================================================================
